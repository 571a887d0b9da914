# A TLA+ development of the KalinoteOS64 kernel

This directory holds TLA+ modules that model parts of the kernel under `src/os/`, the TLC
configurations that check them, and TLAPS proofs. Every definition of a model translates the lines
`PROJECT.json` names for it under `map`.

## 1. The system

KalinoteOS64 is a small x86-64 kernel in C and assembly, built at `-O0` and run on one processor (the
start of the others is commented out in `kernel/main.c`). `KaliKernel` initialises memory, slabs,
page tables, the APIC, the scheduler, soft interrupts, keyboard, mouse, disk, timers and the PIT,
enables interrupts, creates the `init` process (`task_init`) and then becomes the idle process, whose
endless loop analyses the bytes of keyboard and mouse.

| Component | State | Operations | What makes it correct |
|---|---|---|---|
| Scheduler (`kernel/schedule.c`, `driver/PIT.c`, `kernel/entry.S`, `kernel/mtask.c`) | `task_schedule` (run queue, `running_task_count`, `CPU_exec_task_jiffies`), `now_task[0]`, and of each process `vrun_time`, `flags`, `state`, `preempt_count` | `insert_task_queue`, `get_next_task`, `schedule`, the tick, `ret_from_intr`, `do_fork` | no ready process lost or queued twice; count and queue agree; the least-run process goes first; no switch inside a non-preemptible section; bounded unfairness |
| Spin locks (`include/spinlock.h`, `preempt.h`) | the lock word, `preempt_count` | `spin_lock`, `spin_trylock`, `spin_unlock` | exclusion; the word does not run down; a release is not missed |
| Kernel timers, soft interrupts (`kernel/timer.c`, `softirq.c`) | `timer_list_head` and the links, `jiffies`, `softirq_status` | `add_timer`, `del_timer`, `do_timer`, `do_softirq`, the tick | sorted list; every timer fires once, in time and in order; nothing due is left over |
| Printing (`kernel/printk.c`) | `printk_buf`, `printk_lock`, the cursor, the frame buffer | `color_printk`, `vsprintf`, `number`, `putchar` | every caller shows its own text; nobody waits for a lock that cannot be given back; the text is what the format says and the screen is a terminal |
| Keyboard, mouse (`driver/keyboard.c`, `mouse.c`, the loop in `kernel/main.c`) | two ring buffers, modifier states, `mouse_count` and the packet | the handlers, `get_scancode`, `analysis_keycode`, `get_mousecode`, `analysis_mousecode` | bytes in order and none too many; modifiers as the keys are held; whole packets; no device starves the other |
| Disk (`driver/disk.c`) | `disk_request` (queue, count, `in_using`), the sleeping callers | `submit`, `cmd_out`, `wait_for_finish`, `disk_handler`, `end_request` | one command at a time; every caller wakes, after its own request; the run queue survives |
| Pages and slabs (`kernel/memory.c`) | page bit map, zone counts, caches, slabs and their maps | `alloc_pages`, `free_pages`, `kmalloc`, `kfree`, `slab_*` | no page or object handed out twice; counts agree with maps; nothing used after it was freed |
| Processes (`kernel/mtask.c`) | process structures, kernel stacks | `do_fork`, `do_execve`, `switch_to` | a process resumes where it was; its structure is its own |
| Semaphores (`include/semaphore.h`) | counter, wait list | `semaphore_down`, `semaphore_up` | never below zero; no lost wake-up |
| Interrupt dispatch (`kernel/interrupt.c`, `APIC.c`, `entry.S`) | `interrupt_desc`, the interrupt stack | `register_irq`, `do_IRQ`, `ret_from_intr` | an interrupt returns to what it interrupted; no handler runs after it was unregistered |
| FAT32, VFS (`kernel/fat32.c`, `VFS.c`) | super block, directory entries, list of file systems, the volume | `mount_fs`, `read_superblock`, `path_walk`, `FAT32_lookup`, `write_FAT_Entry`, `write_inode`, `put_superblock` | a walk finds what the path names; a failed walk leaves nothing behind; what is written stays |
| Layers, graphics (`graphic/layer.c`, `graphic.c`) | `layers_addr`, `top`, `map`, the heights, the frame buffer | `init_screen`, `layer_set_height`, `layer_move`, `layer_refresh`, `layer_free`, `mouse_cursor_move` | heights 0..top name each shown layer once; every pixel shows the highest opaque layer |
| Memory and string functions (`include/lib.h`) | none | `memset`, `memcpy`, `str*`, `copy_*_user` | every byte of the area and no other |
| Boot, traps, time, cpu, 8259A | descriptor tables, printed registers | straight-line code | not modelled: no concurrency and no state that is used again |

How they interact. Interrupts are the only concurrency. A handler runs with interrupts disabled;
`do_IRQ` acknowledges it, and `ret_from_intr` then (1) calls `do_softirq` if a soft interrupt is
pending, which **enables interrupts**, (2) looks at `preempt_count` of `now_task[0]`, and (3) calls
`schedule` if `NEED_SCHEDULE` is set. `schedule` prints, and `color_printk` takes a spin lock when
interrupts are enabled; spin locks raise `preempt_count`. The tick charges the running process and
raises the timer soft interrupt. Keyboard and mouse handlers fill buffers that the idle process
empties. The disk handler wakes processes through `insert_task_queue`, and so does `semaphore_up`. The file system reads and writes
through `IDE_transfer`, which puts its caller to sleep, so two processes interleave at every transfer.

What is hard: everything a nested interrupt meets half done (sections 3.3 and 3.4), counters changed in
several instructions (3.5), decisions taken from state that changes before it is used, the fairness
of the scheduler over long runs, and buffers without a test for being full, and tests of the disk
driver and of the semaphores whose answer is used after other processes and interrupts have run (3.7). `PROJECT.json` lists
these under `hazards`, each at its line, with the properties that would catch it going wrong.

## 2. Modules

| Module | What it is |
|---|---|
| `Scheduler` | the scheduler, one action per operation; `TaskPool` is what it promises |
| `SchedulerProofs` | its inductive invariant and theorems |
| `SpinLock` | the lock between processors, one instruction per action; `Mutex` is what it promises |
| `SpinLockProofs` | its theorems |
| `SoftTimer` | timer list, `do_timer`, `do_softirq` and the interrupts on top of them |
| `SoftTimerProofs` | its inductive invariant and theorems |
| `Printk` | `color_printk` by a process and the interrupts on top of it |
| `PrintkProofs` | its inductive invariant and theorems |
| `InputLoop` | keyboard and mouse buffers, their handlers and the loop that empties them |
| `InputLoopProofs` | its inductive invariant and theorems |
| `PageAlloc` | zones, bit map and counts of the pages, `alloc_pages` and `free_pages`, as operators |
| `Slab` | `kmalloc`, `kfree` and the caches of `slab_create` over `PageAlloc`; `Heap` is what they promise |
| `SlabProofs` | what each operation keeps of the memory, its inductive invariant and theorems |
| `SleepSchedule` | `schedule` as a sleeping process calls it, beside the one of `ret_from_intr` |
| `DiskQueue` | the IDE driver over `SleepSchedule`: requests at the level of their links, the interrupt |
| `Semaphore` | semaphores over `SleepSchedule`; `UnitPool` is what they promise |
| `Sleepers` | the composition of `DiskQueue` and `Semaphore` under one scheduler |
| `SleepersProofs` | its inductive invariant and theorems |
| `FatNames` | how `FAT32_lookup` compares a name with the entries of a directory, as operators |
| `FileSystem` | mounting, path walks and writes of several processes over `FatNames` |
| `Format` | `vsprintf` and `number` as functions, beside what the directives mean |
| `LibString` | the functions of `lib.h` on a memory, beside what they mean |
| `Console` | what `color_printk` draws; `Terminal` is what the text screen promises |
| `Layers` | the layer controller of `layer.c`, as operators on a record |
| `Screen` | the composition of `Console` and `Layers` with `graphic.c` on one frame buffer |
| `ScreenProofs` | what the operations of `Layers` keep, and the theorems about `Screen` |
| `MC*` | small instances for TLC |

Conventions: names are those of the source; a definition introduced by "Variant" is a plausible slip
that no specification uses: putting it in the place of the definition that follows it makes a
property fail. Names in `CONSTANTS` marked *bound* limit what TLC explores; those marked *assumption* say
something of the system and are discussed below.

## 3. What is modelled, and what the runs show

### 3.1 Scheduler

State and actions are those of the table above. `mode` is "irq" while a handler runs with interrupts disabled; a
tick or another interrupt enters it, `do_softirq` leaves it for "task" (interrupts are enabled again,
and the `cli` at its end is another way in), `RESTORE_ALL` and `schedule` leave it for good. One call
of `schedule` is one step, as in the booted system only `ret_from_intr` calls it. The other callers,
`wait_for_finish` and `__down`, run with interrupts enabled and are in `SleepSchedule` (3.7). Also one
step is the insertion `do_fork` makes. `init` is the first thing the process of `task_init` does when it runs: it clears its flags, a
`NEED_SCHEDULE` among them (`mtask.c:109`), so a schedule that was asked for may wait for the next second.

Run `scheduler` (`MCScheduler.cfg`: three processes, 14 seconds, sections nested twice, about 800 000 states):

- `RunQueueRight` joins `TypeOK`, `NoTaskLost`, `CountIsQueuePlusOne` and `QueueSorted`; with `SectionHolderRuns`: the queue
  is right whatever interrupts what, and no switch happens inside a section.
- `LeastRunFirst`: a switch gives the processor to the process that has run least.
- `LagBounded`: two ready processes never differ by more than 6 + 2 * `MaxDelay` in run time. The bound
  is tight. It rests on the assumption `MaxDelay`: sections and soft interrupts put off a schedule
  that is asked for by at most so many seconds.
- `OverdrawnForEver`: `schedule` refills the slice only when it is exactly 0. Once it has jumped over 0
  it falls for ever and every second ends with a call of `schedule`.
- `ImplementsTaskPool`: a refinement; ready processes are never lost and the idle process runs only
  when no other is ready.

Bounds: three processes are the least with which the walk of `insert_task_queue` passes one entry and
stops at the next; 14 seconds hold two full slices of each and several overdrawn ones. `BootJiffies`
(assumption): `do_fork` is called by `task_init` only, in the first seconds; `LagBounded` needs them to be 4 at most, the first slice
of the boot process, as a child starts with its run time.

The comment of `running_task_count` (`schedule.h:9`) calls it the number of processes in the queue; it is one more, as
`CountIsQueuePlusOne` says, and `schedule` needs it so, since it divides by it.

### 3.2 Spin lock

`lock decq`, `jns`, the wait loop and the exchange are one step each. A behaviour uses the lock with one
*discipline*. Run `spinlock` (four processors, `spin_lock` only or `spin_trylock` only, deadlock
checked): `MutualExclusion`; `TypeOK`, which bounds the word by 1 - (number of processors) from
below; `SomeoneEnters` (liveness); `ImplementsMutex`. Fairness: a processor inside `spin_lock` or
`spin_unlock` keeps executing; nothing makes it call them. With both operations on one lock, a waiter leaves a held
lock at -1, which `spin_trylock` takes for free (the comment at `spinlock.h:8` gives a held lock the value 0); the kernel calls
`spin_trylock` nowhere.

### 3.3 Timers and soft interrupts

`do_timer` is taken apart into its accesses, as `do_softirq` enables interrupts before it calls it and
the pending bit stays set until it returns: each interrupt that arrives meanwhile runs `do_timer`
again on top. `frames` is the stack of these runs; `limit` bounds it: 1 is the machine whose soft
interrupts are done before the next interrupt, 2 the machine as it is. Run `softtimer` (three timers
with expiry times 2..4, 6 seconds, both limits):

- `TimerListRight` (`TypeOK`, `ListSorted`, `NoneOverdue`) holds at both limits: whatever nests, the list stays in order, and
  when no soft interrupt is under way nothing in it is due, though a nested run's tick can be wiped out.
- `FiresOnce`, `InTime`, `EveryTimerFires` hold at limit 1.

Run `softtimer_last` (violation): with the one timer `timer_init` adds, the nested run removes it between
the test and the call of the outer run, which then calls the NULL function of `timer_list_last`.

Fairness: the PIT keeps interrupting and the processor executes. `BootJiffies` (assumption): timers are
added before the first is due, as `timer_init` does, so `add_timer` is one step.

### 3.4 Printing

`contexts` is the stack of interrupted callers. A process prints with the lock; on top of it come handlers
(`disk_handler` prints, without the lock), soft interrupts (`do_timer` prints, with the lock), `schedule`
(without the lock, only when `preempt_count` is 0), and interrupts on top of those, four deep. A soft interrupt prints any number of lines: one for each
timer that is due (`test_timer`) and `do_timer`'s own. `TimersDue`
and `DisksPrint` say whether the first two happen. Run `printk`: `OwnText` (the text shown is the
caller's own, unless the disk interrupts a caller with interrupts enabled), `CountRight`
(the types, and `preempt_count` is the number of locked sections under way), `SpinsOnlyForTimers` (only `do_timer` can
wait for the lock inside an interrupt). Depth four is enough for a soft interrupt inside a soft
interrupt inside a section. Run `printk_spin` (violation): that wait never ends, against the comment
that interrupt functions take no lock so as not to deadlock.

### 3.5 Keyboard and mouse

A handler is one step; the loop takes a byte in three: the read at the tail, the load and the store of `count--`.
`sequence` holds the codes of the key being analysed and stands for the place in `analysis_keycode`, which
reads up to six codes by blocking calls. The keyboard sends the codes of a script of key strokes, the mouse
numbered bytes. `overrun` records that an unread byte was written over. Run `input` (buffers of three bytes,
six scripts with each long sequence, and each sequence that only begins like one, beside a modifier, five mouse bytes):

- `BuffersFaithful` (`TypeOK`, `CountNeverAhead`, `ReadInOrder`) and `PacketsWhole`: no byte is read that was not sent, and
  until an overrun the bytes come in order. (An interrupt inside `count--` is not counted, so a byte may stay unread
  until the next one.)
- `ModifiersAreHeld`: whenever the codes so far are analysed, each modifier state is that of its key, unless a misread sequence has spoilt it.
  `misread` is a history of that: `analysis_keycode` takes `E0 2A` and `E0 B7` for the print screen key, and when the codes after them are others they are
  thrown away and the second code is analysed as a plain one (`keyboard.c:69-90`, `135`). So a grey arrow under NumLock (`E0 2A E0 48`) leaves
  `shift_l` at 1 until the next shift, and the release of a shift behind the release of the print screen key (`E0 B7`, `AA`) is lost, so the shift stays down.
  The scripts have these two; the release of a shift behind that of a grey arrow (`E0 2A`, `AA`) is lost in the same way and in no script. Such a sequence spoils the shift and the keys it took codes of, and no other key.
- `MouseServed` (liveness): the mouse is served unless codes of the keyboard were overrun, or the loop
  waits, in the middle of a key, for a code that is in the buffer and not counted. The scripts end with a key that is complete: one that ended in `E0 B7` or `E0 2A` would leave
  the mouse waiting for the next key. Fairness: the idle process keeps executing (it does as long as no other
  process is always ready, section 3.1), and the devices send what they have.

Three bytes instead of 100 reach the wrap and the overrun of both buffers.

### 3.6 Pages and slabs

The operators of `PageAlloc` and of the first part of `Slab` take a record (`mem`) of everything `memory.c` keeps and give
the next; an action is a call from outside. The circle of calls (`kmalloc`, `kmalloc_create`, `kmalloc`; `kfree`,
`kfree`) is unrolled without recursion: descriptors and bit maps are small objects, whose slabs hold their own
(`InPlace`), so `KmallocInPage` and `KfreeInPage` end the circle. Error paths are in the model: what
`slab_create` and `slab_malloc` undo when they fail half-way, and the descriptor `kmalloc_create` uses without
looking (`fault`, after which no call is made).

Run `slab` explores two machines: one zone of eight pages, and two zones of twelve and two pages in one word of the bit
map, three of the pages being pools. There are three sizes (maps and `Slab_cache`s, descriptors, large objects) and one cache.

- `BooksRight` (`TypeOK`, `CountsMatchMaps`, `PagesAccounted`): through exhaustion, failures and the nested calls, the counts of slabs and caches
  say what their bit maps say, and the zones' counts do in sum (not one by one, and a page may keep a reference nothing holds: see the end of this section). `OneOwner` (`EveryObjectHasOneOwner`, `EveryPageHasOneOwner`): each page and object whose bit
  is set has one owner.
- `KmallocFailsOnlyWhenFull`: `kmalloc` fails, and `kmalloc_create` meets a NULL descriptor, only when nothing is left.
- `PoolStays`: `slab_free` has no test for the pool; the `using_count` `slab_create` starts it with keeps it.
  It counts every object of the pool as used from the start, so it never comes down to 0.
- `ImplementsHeap`: what callers hold is disjoint.

Bounds. Two objects a slab (`Count`; in the code 2 to 65536) make every third object a new slab, so slabs fill, empty and go within a
few calls. `MaxHeld` (bound): callers hold four objects and blocks on the one machine, three on the other; with their slabs,
descriptors and maps that exhausts eight pages. Words of eight pages instead of 64 let the window of
`alloc_pages` run on past the end of the zone, as it does in the code. `CreatedCount` is `Count`, as a smaller
one only fills slabs sooner.

Assumptions, all in `PageAllocAssumption`, `SlabAssumption` or the actions: `end_of_struct` does not lie at the start of a page;
the last page of the memory map is not usable memory; kernel and pools lie in the first zone; callers give back what they got, once,
and to where they got it; calls do not interleave (`end_request` calls `kfree` in the disk interrupt, possibly inside a `kmalloc`: not modelled, section 5).

What the run says of the code beyond that: a block may lie in the second zone and be counted in the first, so with two zones only
the sums of the counts are right (`PagesAccounted` says so), and `alloc_pages` fails once the first zone's count is used up
although pages are free; a failing `slab_create` gives its page back with a reference, which nothing
takes away (`page_init` skips a page that has one). At this commit nothing outside `memory.c` calls the slab functions.

### 3.7 Sleeping processes: disk and semaphores

`SleepSchedule` has `schedule` as a process calls it that goes to sleep: with interrupts enabled, so taking a candidate from the queue
and the switch are two steps, and an interrupt's own `schedule` (`Preempt`) may come between them. Which ready process is first is left
open; that order is `Scheduler`'s. On it stand `DiskQueue`, where each store of `list_add_to_before` and of `block_request_count++`
is a step, and `Semaphore`, where the test of a counter and what follows it are steps. A disk request has as many interrupts
as sectors (`IDE_transfer`) or one (`IDE_ioctl`); the last one runs `end_request`, which wakes the owner and gives out the next command.

The code closes none of the gaps between its tests, its lists and its `schedule`. Five of them are *windows*; `window` names
the first that is hit, and the model explores nothing behind it:

1. *two processes in submit*: it takes no lock (`disk.c:188-193`);
2. *request ended before its process slept*: the interrupt comes between `cmd_out` and the store of `TASK_UNINTERRUPTIBLE`, or before the
   switch, so the process is queued while it runs;
3. *cmd_out inside add_request*: the interrupt takes the next node between the load and the store of `block_request_count++`, or when it takes the very node
   whose `next` has been set and whose address is to be read from the head's `prev` (`HalfAdded`). At the other stores of `add_request` it does no harm;
4. *switched away inside schedule or a list*: a tick's `schedule` between the candidate's removal and `switch_to`, or in `__down` between the
   state and the list, or in `__up` between reading the first entry and unlinking it;
5. *a wake-up overtaken by another*: two `__up` have seen the one waiter, the first has unlinked it, and the second takes the list's head for an entry
   (`semaphore.h:33`).

Operations on the semaphore otherwise overlap freely: the test of the counter or the list, the counter operation and the list operation are steps, and ticks and
other processes come between. What that does is recorded in history variables: `overtaken` has the processes whose test another operation has outdated,
`overdrawn` that a unit was taken which was not there any more (two `semaphore_down` behind one test), `missed` that a process was queued, or left, on the list beside
a free unit.

So the properties say what is true of every behaviour up to a window. They tell that these are all that can go wrong, which
is what a repair would have to close. Run `sleepers` (three processes that use a semaphore of one unit and the disk, for a transfer of two sectors, one of
one, and an identification; about 1 280 000 states):

- `OnlyWindowsHarm`: without a window, the kernel never links an entry twice nor follows a pointer to nothing, and every process runs, is
  queued, is held by a `schedule` under way or will be woken. The windows themselves do harm; the property does not say otherwise.
- `RequestsIntact`: outside `submit` the request list is whole in both directions, `block_request_count` is its length, and the disk
  works for `in_using`, for all its sectors.
- `ReturnsServed`: a transfer returns only after its own request was ended.
- `UnitsKept`: counter and owners always add up to the units, however operations overlap. The counter is negative only behind an `overdrawn`, and
  somebody waits beside a free unit only behind a `missed`: nothing but an outdated test does it.
- `ImplementsUnitPool`: the refinement of `UnitPool`, which says of every unit taken whether it was there.
- `RequestIsServed` (liveness): who waits for the disk is woken. Fairness: the disk keeps interrupting (`WF` of `disk_handler`) and nothing
  else; the chain of `end_request` needs no process to run.

Bounds: three processes make a queue of two behind the request at the disk, so a node has neighbours on both sides when it is taken, and let a third
operation come between the test and the act of two others. `Asks` fixes what each process asks of the disk: two sectors make the handlers return early once, an
identification ends at its first interrupt. With three processes and no second one in `submit` the second half of `HalfAdded` is hit with one node in the list only;
the proof is of any number. A process has one request at a time, as `wait_for_finish` does not return
earlier, so the node carries its name. Deadlock is not checked, because a fault or a window stops the model.

### 3.8 FAT32 and VFS

A step runs from the end of one transfer to the start of the next. `objects` is the memory an operation has allocated. A sector is the
boot sector's record, a function of FAT entries (with the four upper bits as `top`) or a sequence of directory entries. `Before` and
`Slack` are the outcomes of the two reads of foreign memory the comparison makes: in front of a cluster's buffer and behind a name's terminator.

`FatNames` is the comparison itself, with the sizes of the name fields as constants; `Called` says what an entry is called, and `Plain` lists
the names and entries for which the code's comparison is exact. What `Plain` leaves out is what the code gets wrong, one line of its
comment each (for instance: an extension that is not full is not found; a long name that fills its chunks is found by its beginnings).

Run `files` (two processes, three operations after mounting, names of 3 + 1 characters, long entries of 3, two FATs, clusters of two sectors,
the root directory in two clusters, 126 000 states):

- `WalkAnswersRight`: an entry a walk has made is called by the name it was made for, was looked up in its parent's chain, and has the place
  `write_inode` writes back to; a failing walk had no such entry to find.
- `NothingLeaked`: between operations the memory in use is exactly what the tree and the super block lead to. (`put_superblock` keeps the
  information sector and all entries but the root, `fat32.c:413-420`; the property speaks of a mounted volume.)
- `WrittenStays`: all copies of a FAT entry and the sizes in directory entries are what was last written, and every other entry of every FAT and directory sector,
  and the upper four bits of FAT entries and of first clusters (`top`; `write_inode` keeps those of `DIR_FstClusHI`, `fat32.c:445`), are what they were. It does not speak of behaviours in which
  two writers of one sector overlapped (`collided`): nothing locks a sector between its reading and its writing, and the first writer's change is then lost.
- `ComparisonExact`: for all short entries and names of a small alphabet, alone or behind runs of long entries, the comparison takes an
  entry exactly when it is called so, within `Plain`. It depends on constants only and is evaluated before the file system is registered.

Run `files_dots` (violation): a character of the base name that is neither letter, digit nor space is passed over together with one of the
name (`fat32.c:270-272`), so in a subdirectory the entry `..` is found for any name of two characters.

Bounds: two processes and three operations give two overlapping writers with a third operation over what they leave. Names of three characters
fill, overflow and underfill a base name; long runs of 0, 1 and 2 entries decide, fall short and overrun.
Assumptions: chains end (a walk along a circular one does not), and the disk answers (`IDE_transfer` reports no error).

### 3.9 The screen

`Format` is `vsprintf` as one function over a format of directives, with the width of `int` and `long` as constants; `LibString` has the functions of
`lib.h` on a memory from addresses to bytes, with the quadword, doubleword, word and byte moves of `memcpy` and `memset`. `Console`
draws the glyphs of a call of `color_printk` into `vram`, wraps, tabs and backspaces. `Layers` has `layer.c` as operators on the controller's
record with the frame buffer; `Screen` puts both on one frame buffer, with `init_screen` between text and graphics.

Run `screen` (6 by 4 pixels, cells of 2 by 2, a table of four layers of which the desktop takes three, some 70 000 states):

- `ScreenShowsTop`: in graphics mode every pixel shows the highest layer that is opaque there. `layer.c` never redraws everything: each
  operation repairs `map` and `vram` in two rectangles from some height on, and the property says these repairs suffice, off the edges of the screen too.
- `LayersInOrder`: `layers_addr[0..top]` lists the shown layers, each once and at its own height.
- `ImplementsTerminal`: in text mode the screen is a terminal: texts fill the page, wrap, tab, and a backspace blanks the cell it goes back to. A backspace at the
  start of a line does not go back, though the code means it to: it takes the column, or the line, in pixels where the cursor counts characters (`printk.c:391-396`), blanks some
  pixels there and wraps round to where it was. `Terminal` says of it that the cursor stays and that nothing but blanks appear on the page (`spoilt`).
- `TextExact`: evaluated once. `vsprintf` writes what C's `printf` writes for every combination of flags, widths, precisions and qualifiers on words of 4 and 8 bits,
  except where `Differs` and `StringDiffers` say, one line of `printk.c` each: `+` and a blank sign numbers that have none (116), `%u` of an `int` sign-extends
  it (302), `h` changes nothing (224), `#` marks 0 too (133), `%#o` adds a 0 to enough zeros (134), the flag `0` is kept beside a precision (128), a precision
  of 0 prints the digit of 0 (122), a negative `*` precision cuts a string to nothing (219). The functions of `lib.h` write every byte of their area and no other.

`main.c:150`, the call of `init_screen`, is commented out; the run is of the kernel with that call. Applications keep to what `init_screen` does: a
layer has its buffer before it is shown, its transparent pixels do not change while it is shown, the background is not moved, and a shown layer is
not raised above the top (`layer_set_height` would read `layers_addr` behind `top`). Pixels this small make every window overlap every other and every
edge, and the table runs full.

## 4. What is proved

`SchedulerProofs` (any finite or infinite set of processes, any bounds): the inductive invariant is `IInv ==
TypeOK /\ NoTaskLost /\ CountIsQueuePlusOne /\ QueueSorted /\ SectionHolderRuns`. Each part needs others: the count needs
to know that the queue holds no idle process, sortedness of the queue after a tick needs that the running
process, the one charged, is not in it, and a switch preserves `SectionHolderRuns` only with the test of
`preempt_count`. The lemmas say what `InsertAt` does to a sequence (`InsertAtShape`), that the walk of
`insert_task_queue` has a place to stop (`InsertPlace`, by the least number principle `LeastNatural`), and
what the queue is after an insertion (`InsertTask`) and after `get_next_task` (`NextFacts`). From `Spec => []IInv`
follow `TypeCorrect`, `NoTaskIsLost`, `CountCorrect`, `SortedCorrect`, `HolderRuns`, the action property
`LeastRunIsFirst`, and the refinement `Implements`. Assumptions: `SchedulerAssumption` only.

`SpinLockProofs` (any finite set of processors, for a lock that is not used with mixed disciplines, the
premise `Pure`): the invariant relates the word to the processors that have decremented it, and gives
`Exclusion`, `TypeCorrect` (the bound on the word) and `Implements`.

`PrintkProofs` (interrupts nested to any depth `MaxDepth`, with and without timers and disk interrupts): the invariant `IInv` has, beside
types, count and the two properties of the text, four parts. `Kinds`: only contexts with interrupts enabled, and a `schedule` that has printed, have
others on top of them. `LockHeld`: `printk_lock` is 1 exactly when nobody is inside, and one context is inside at most. `ScheduleAlone`: nothing below a
`schedule` is in a section, since it began where `preempt_count` was 0, which `SectionsCounted` makes "no section". `BufferOwned`: whoever is about to
show `printk_buf` has filled it last, since the lock keeps the others with interrupts enabled out, and those without print in one go and are on top.
The lemmas `MoveKeeps`, `MoveCounts`, `MoveLock` and `MoveText` say what a step of `color_printk` keeps, `Begins` what replacing the running context does. From
`Invariance` follow `TextIsOwn`, `NobodySpins` and `CountCorrect`. Assumption: `PrintkAssumption` (the depth is at least 1).

`InputLoopProofs` (buffers of any size, any scripts): the invariant says of each buffer that was not overrun that its head stands as many slots behind
its tail as bytes are unread, and that the slots between hold those bytes (`RingHolds`; `Slot` is the place so many slots on). `TakesUnread` says
that the byte under way, in memory or in the register of `count--`, is one of the unread. `PacketUnderWay` relates `mouse_count` to
the bytes taken. From it follow `BuffersCorrect` (`BuffersFaithful`) and `PacketsCorrect` (`PacketsWhole`). Assumption: `InputLoopAssumption` (the
codes of a script are a finite sequence of numbers).

The action property `OverdrawnStays` (`OverdrawnForEver`) needs no more than types. `LagIsBounded` (`LagBounded`, for `BootJiffies <= 4`, see 3.1) needs a
second invariant, `FInv`, as the bound alone is not inductive: a second charges the running process, so one has to know how much of its slice is left and how
long a schedule has been put off (`SecondsLeft`), that a slice is at most `LargestSlice` while anybody waits (`SharedOut`), and how far ahead the boot
process can be when it makes a child (`BootAhead`, `FirstSlice`, `IdleAsked`, `Charged`).

`SoftTimerProofs` (any finite set of timers, any expiry times, any depth of nesting): `del_timer` moves the head along the list and leaves the links
as `add_timer` made them, so the invariant `IInv` keeps that list as a sequence and the head's place in it (`Ordered`), which also says whose
functions have run. `SomeoneLooks` says that while the head is due some run of `do_timer` is at a place from which it looks at the head again: it
is why a wiped-out pending bit does no harm. `Quiet` is the time before the first timer is due; `Alone` is what holds without nesting (`limit = 1`):
no fault, and the test of the `while` still holds in its body. `ChainIs` ties the sequence to the links, `WalkStops` and `AddStep` say what `add_timer` does
to it. From it follow `TimerListCorrect`, `FiresOnceCorrect` and the action property `InTimeCorrect`. Assumption: `SoftTimerAssumption`.

`SleepersProofs` (any number of processes, units and sectors): the invariant has `Types` always, and the rest as long as no window was hit. `Sched`: no fault, and
who is running, queued, held by a `schedule` under way or asleep is that alone. `Disks`: one process at most is in `submit`, and there is a sequence of requests,
`QueueIs`, that the links spell out forwards and backwards except where the process inside `add_request` has not stored yet (`Ring`), that
`block_request_count` counts (`Counted`), and whose members are exactly those that wait (`Holder`, `Asked`); the device works for `in_using` (`DeviceRight`).
`Semas`: the units, held or handed over, add up, and each process between the test and the act of a semaphore operation either still has a test that holds or is
`overtaken` (`Tested`); an `__up` that has chosen a waiter finds it first on the list. There is one lemma per store of the driver
(`DiskAddNext` to `DiskEnds`) and per step of the semaphore (`SemaDec` to `SemaQueue`), and lemmas that a step of one leaves the other alone. From it follow
`WindowsTheOnlyHarm`, `RequestListIntact`, `TransfersServed`, `NoUnitLost` and the refinement `SemaphoreIsPool`. Assumptions: `SleepersAssumption` and `AsksAssumption`
(what a process may ask is an identification or a transfer of at least one sector).

`ScreenProofs` (any size of the screen and of the table, any windows, places and colours): a controller is `Good` when its table is `Typed`, layers and
`layers_addr` agree (`Stacked`), the background is shown and opaque everywhere (`BackgroundThere`), and every pixel is `Right`: in `map` and in the frame
buffer it belongs to the highest layer that is opaque there. The last part cannot be proved without `map`: `layer_refresh_area` draws what `map` says, so a
pixel that a repair passes over stays right only because its owner in `map` was right. `Repair` is that argument for one pixel; `LoweredAt`, `HiddenAt`,
`RaisedAt` and `InsertedAt` say what heights `layer_set_height` leaves, `ReheightGood` that a pixel changes hands only to or from the layer that
was moved in height, and then to one between the heights that are drawn; `MoveGood`, `SetHeightGood`, `AllocGood`, `FreeGood` and `DrawGood` are the operations, and
`BackgroundGood` and `DesktopGood` the desktop that `init_screen` makes out of uncleared memory. That a window's pixel is where `layer_refresh` looks for
it rests on `Split`, `Unsplit` and `InCells` about quotients and remainders. From `ScreenGood` follow `LayersAreInOrder` and `ScreenIsRight`. Assumptions: `LayersAssumption` (the table
holds the three layers of the desktop; the colour of the background, `LDBLUE`, is not the one that marks a layer as nowhere transparent) and `ScreenAssumption` (a window
has a pixel for each of its places).

`SlabProofs` (every memory map, any sizes of objects, caches and slabs, any number of calls and of objects held): a memory `m` is `Good` for a set `U` of
objects that callers and caches have and a set `B` of pages that blocks have when its pages (`PagesRight`), lists (`Listed`), bit maps and counts (`MapsRight`, `Counted`) agree, and
the objects in use are exactly `U` and the descriptors and maps of slabs (`Owned`). `U` and `B` are parameters because within a call they are not what callers hold: while
`kmalloc_create` asks for a bit map the page it has belongs to nobody else's set, and a slab that has left its list leaves its descriptor and its map to the one who frees
them. So there is a lemma for each step of a call, which says for which owners the memory is good after it (`AllocGood`, `PutBackGood`, `LeaveGood`, ...), and the calls put them together
(`KmallocGood`, `KfreeGood`, `PartsGood`, `CreateGood`, `CacheMallocGood`, `CacheFreeGood`, `DestroyGood`), each failure included. `Shape` is why the circle of calls ends: a
slab that is not `InPlace` has its descriptor and its map in slabs of sizes that hold their own, so `kfree` of either goes no deeper. `PoolCounts` is why the pool of a cache stays: its
`using_count` is too high by `Count`. `Kept` says that a call for one size or cache leaves the lists of the other caches alone. Between two calls `IInv` says that the memory is good for the `objects` and caches there
are, and for the pages of `blocks` (`Owning`), or, after a fault, that it is good for some owners (`Sound`). The sums over zones are a recursive function that is proved additive (`SumIs`, `SumPlus`, `SumOne`), with a
least counterexample in the place of an induction. From `Invariant` follow `BooksAreRight`, `EverythingHasOneOwner`, `KmallocFindsWhatThereIs` (for one zone), the action property
`PoolsStay` and the refinement `Implements`. Assumptions: `PageAllocAssumption` and `SlabAssumption` (section 3.6).

`FInv`, the invariant of `Screen` and that of `Slab` were also checked by TLC on the instances of the runs.

Only model-checked: liveness (out of the prover's reach); `ModifiersAreHeld`, which compares the analysed codes with a script flattened from key strokes of different
lengths, so that its invariant is an induction over the script; `ImplementsTerminal`, where a call folds a function over its text, for the same reason; `TextExact`
and `ComparisonExact`, which evaluate functions on all small inputs; and section 3.8.

## 5. What is left

Not modelled, though it has state worth following:

- `ContextSwitch`: all interrupts use one stack of the interrupt stack table (`APIC.c:438`), and `do_softirq` and `switch_to` enable
  interrupts while on it. A model of the stack's contents would show what a nested interrupt writes over.
- `kfree` in the disk interrupt inside a `kmalloc` (`memory.c:511`): `Slab` would have to be taken apart into its accesses.
- `IrqTable`: `register_irq` and `unregister_irq` against `do_IRQ`. The kernel registers at boot only, before interrupts are enabled.

Not modelled, for want of state or of callers: page attributes, constructors and destructors of slab caches (nothing passes any), boot loaders,
page-table construction and `frame_buffer_init`, register programming of APIC, PIT, keyboard controller and disk, trap handlers (they print
and halt), time and `cpuid`, `do_execve`'s page tables and the system calls (they return at once); `putchars_asc`, `%n`, `bit_set`, `bit_get`,
`bit_clean`, `atomic_add`, `atomic_sub` and the masks, `unregister_filesystem`, `keyboard_exit`, `mouse_exit`, `disk_exit` (nothing calls them); operations of
`fat32.c` and `window.c` with empty bodies; controllers nested in a layer; colours, the shapes of glyphs and of the task bar.

Theorems to come: the invariants of `FileSystem` (`WrittenStays`, `NothingLeaked`).

## 6. Assumptions about the machine

Accesses are atomic at the granularity of one load or store of the unoptimised code, a handler with interrupts disabled is one
step. An interrupt returns to what it interrupted with its registers intact; that does not follow from the code when interrupts nest (all handlers share
one stack of the interrupt stack table), which no module models yet.

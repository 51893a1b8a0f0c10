# TypeOS in TLA+

TypeOS is a small x86_64 kernel: it boots through multiboot, unpacks a cpio
archive into an in-memory file system and runs static Linux programs (busybox)
on a subset of the Linux system calls. This directory holds TLA+ models of the
parts of the kernel that keep state, TLC runs that check them on small
instances, and TLAPS proofs for every size.

The kernel never preempts. System calls run with interrupts masked, the timer
handler counts ticks and returns, and the keyboard line stays masked at the
interrupt controller. All interleaving comes from calls that wait: a waiting
call runs another task from inside itself, or makes another task current.

## Inventory

| Component | State | Operations | What is hard | Correct when |
|---|---|---|---|---|
| Processes and scheduling (`proc.c`, `sched.c`, `setjmp.asm`, `gdtasm.asm`, wait4 and exit in `syscall.c`) | `tasks[]`, `current_task`, one `fork_jmp_buf`, `rr_index`, a kernel stack per task | fork, wait4, exit, `proc_run_runnable`, `sched_block_current` | one saved place for all suspended calls; a switch that keeps the old kernel stack; slots reused while parent pointers name them | what runs is RUNNING, jumps land on live calls, zombies wait for their parent, no waiting loop spins for ever |
| Descriptors and pipe counts (`syscall.c`, `proc.c`) | `fds`, `pipes[].in_use`, `readers`, `writers` | open, pipe, dup, dup2, fcntl, close, fork, execve, exit | counts changed by six calls, descriptors dropped by three without a change | counts cover the open ends, freed pipes are not open |
| Pipe data path (`syscall.c`) | ring buffer, calls that wait | read, write, close | partial writes, wrap-around, calls resumed late or abandoned | a queue of bytes |
| Kernel heap (`mm/heap.c`) | block list, `heap_current`, `heap_mapped_end` | kmalloc, kfree, growth | link surgery, growth failing half way or cut off at the limit | the list tiles the heap, allocations are disjoint |
| Frames and address spaces (`mm/paging.c`, `elf.c`, brk and mmap in `syscall.c`) | frame bitmap, page tables, `brk` | map, copy, fork, execve, brk, mmap, exit | running out at any allocation; shared kernel tables; fixed frames of images | pages and tables are private and marked |
| Keyboard (`drivers/keyboard.c`) | scan code state, circular buffer | poll, getchar | codes of one key split between polls, overflow | readers get the keys typed |
| Root file system (`fs/vfs.c`, `fs/cpio.c`, `fs/initramfs.c`) | inode tree | unpack, mkdir, create, symlink, lookup | failures half way, links | a tree; lookup finds what the path means |
| File calls (`syscall.c`, `fs/vfs.c`) | an offset per descriptor, a working directory per task, lists of names | open, read, lseek, getdents64, chdir, mount, dup, close | unsigned offsets that wrap; an index into a list that mount prepends to; paths cut to their buffer; calls that fail half way | reads stay inside files, listings are complete, working directories exist |
| Segments, interrupts, exceptions (`gdt.c`, `idt.c`, `idtasm.asm`, `exc.c`) | static tables | set-up | none after boot | used as facts by `Tasks` and `Memory` |
| Boot (`boot/multiboot.asm`, `multiboot.c`, `kernel.c`) | none after boot | set-up | order of set-up | order of file system set-up is in `Vfs` |
| Console output (`drivers/vga.c`) | character memory, cursor | `vga_putchar`, `kprintf` | two edges crossed at once, scrolling, stepping back; the smallest number and zero | the screen shows what was written; numbers are printed as C says |
| Strings, shell (`string.c`, `shell.c`) | none | | none | not modelled: byte loops, an empty file |

Interaction: the system calls of `syscall.c` call into all of them. A task that
waits for a pipe, a key or a child calls `sched_block_current`. A pipe write and
a key wake every BLOCKED task. fork copies a task's slot, its descriptors
(raising pipe counts) and its address space. The heap takes its pages from the
frame allocator and maps them in the current address space.

## Modules

| Module | Models | Main correspondence |
|---|---|---|
| `Processes` | abstract: what fork, exit, wait4 promise | no code |
| `Tasks` | task table and scheduler | `state`, `pid`, `ppid`, `parent`, `exit_status` are fields of `struct process`; `kstack` says what each kernel stack holds; `stk` is the stack the CPU is on; `jmp` is `fork_jmp_buf` with its two flags. One action per outcome of fork, wait4, an I/O call that waits, exit |
| `TasksProofs` | proofs about `Tasks` and `Kernel` | |
| `Kernel` | `Tasks` with the pipes and the console its tasks wait for | extends `Tasks`; `fill` is a pipe's `count`, `counted` the ends not at zero, `req` the call on each kernel stack. Each I/O step is a step of `Tasks` whose outcome the pipe decides |
| `Pipes` | descriptors and reference counts | `fds`, `in_use`; `refs` is `readers` and `writers`; one action per call |
| `PipesProofs` | proofs about `Pipes` and `PipeRing` | |
| `ByteQueue` | abstract: a queue of bytes with competing readers and writers | no code |
| `PipeRing` | ring buffer, read and write loops | `buf`, `head`, `tail`, `count`; `wcall`, `rcall` are calls that wait, `NoRead` for none: a read of no bytes may wait too |
| `Heap` | `mm/heap.c` | `block` maps addresses to headers; `fault` says that a header was written where no page is mapped |
| `HeapProofs` | proofs about `Heap` | |
| `Memory` | frames, page tables, fork, execve, brk, mmap, heap growth | `used` is the bitmap, `dir` and `pte` the tables |
| `MemoryProofs` | proofs about `Memory` | |
| `KeyQueue` | abstract: keys typed reach readers in order | no code |
| `Keyboard` | scan codes, buffer, readers | the typist and the controller are external |
| `Vfs` | unpacking and lookup | `tree` maps paths to inodes; a lookup takes one name a step; `look.slash` says that the path ends in a slash |
| `VfsProofs` | proofs about `Vfs` | |
| `Files` | file calls on the finished tree | `fds` holds copies of `struct vfs_file`; `children` is `dir.children`, newest first; `start`, `seen` and `sure` are history of a listing, `got` of a read |
| `FilesProofs` | proofs about `Files` | |
| `Paper` | abstract: an endless roll of paper and a pen | no code |
| `Console` | `vga_putchar` and `vga_scroll` | `mem` is `VGA_MEMORY`; `above`, the rows scrolled off, is history |
| `Kprintf` | the conversions of `kprintf`, and C's | pure operators on parsed directives |
| `ConsoleProofs` | proofs about `Console` and `Keyboard`, the console's two halves | |
| `Induction` | lemmas: induction and recursion over numbers | no code |

`MC*` modules instantiate them for TLC. Operators marked "Faulty variant, for
mutation testing" are plausible mistakes that the properties are known to
notice; no specification uses them.

### Abstractions

* A call that does not wait is one step.
* `Tasks` leaves open whether an I/O call finds data; `PipeRing` and `Keyboard`
  model the data and leave open when the scheduler gets back to a call. `Kernel`
  joins the two: of a pipe it keeps how full it is and which ends are counted.
  In `Kernel` any task may use any pipe whose end is counted, as `Pipes` shows
  that an open end is; keys may arrive at any time.
* `Pipes`, `PipeRing`, `Memory`, `Files` let any live task make the next call.
* In `Files` paths are sequences of names and buffers hold a number of names;
  symbolic links are in `Vfs`, pipes in `Pipes`. A byte is its place in its file.
* In `Console` a cell is its character. In `Kprintf` a directive has been parsed
  and the integer types have 3 to 6 bits.
* In `Memory` the upper levels of the page tables are one root table, and the
  huge pages of the boot map have been split. brk and mmap take a page a call;
  a longer call is a sequence of these. RAM ends below `IDENTITY_MAP_LIMIT`.
  `kmalloc` growing the heap inside a call is a step of its own.
* A slot of `Memory` or `Pipes` may be used again as soon as its task has
  exited: the parent's wait4 between the two changes nothing there.
* `PipeRing` assumes reads of at most 256 bytes, the size of the kernel's buffer.
  A read of no bytes is not special: it gets nothing and waits while a writer is
  counted, whatever is queued, and `ByteQueue` says so.
* `Memory` assumes that the addresses programs ask mmap for lie in user areas
  (`WishesAssumption`); the kernel does not check them. A failed execve has loaded
  any part of the image.
* `Heap` assumes that callers free what they got, once. A header written where no
  page is mapped is a fault that halts the machine; what a caller does with the
  bytes it was given is left out.
* In `Vfs` a path is a sequence of names and whether a slash ends it, since the code
  treats a relative link with a slash after it differently. `.` and `..` are names
  like any other: the code does not know them, and the reference resolution of
  `LookupRight` replaces links and nothing else.
* `Keyboard` assumes one shift key held at a time.

## Runs

Passing runs:

| Run | Question | Bounds and why they are enough |
|---|---|---|
| `tasks` | Is the task table consistent under nested waits, failed forks and reused slots, and do fork, exit and wait4 keep what `Processes` promises? | 3 slots, 6 pids, two statuses: a wait inside a wait, a switch between two ready tasks, slots with stale children reused |
| `kernel` | With a pipe and the console to wait for, do bytes go to the task that asked, does every waiting loop end, and are a shell's wait4, read and write answered? | 3 slots, 4 pids, one pipe of one byte, amounts of 0 and 2, wait4 for any child or for pid 3: full and empty pipes, writes in parts, reads of nothing, waits for a pid that is not or no longer a child, a switch between two waiting tasks, a reused slot |
| `pipes` | Are the pipe counts right? | 2 tasks, 2 descriptors, 2 pipes, counts up to 3: pipes and task slots are freed and reused |
| `pipe_ring` | Is the ring a queue? | 3 places, writes of up to 3 bytes in chunks of 2, reads of 0 to `MaxRead`: writes split, indices wrap, reads of nothing wait |
| `heap` | Is the heap sound? | headers of 4, pages of 8, requests of 1, 7 and 22, growth past the limit: exact fits, remainders too small to split, more than one page, headers beyond the last page |
| `memory` | Are pages and tables private and marked? | 3 tasks, 17 frames, 2 pages a table, one address asked for besides the one mmap chooses: two forks, then exhaustion at every point |
| `keyboard` | Do readers get the keys typed? | 3 places, 2 readers, one code in the controller |
| `vfs` | Is the tree a tree, is lookup right, does every step bring it closer to its end, and does it end? | 2 names, paths of 2, buffers of 3 and 1 names, 3 archive entries, 3 link targets (absolute with and without a slash at the end, relative), paths with and without a slash at the end, a device and a directory added late: chains and cycles of links occur, and paths that do not fit |
| `files` | Do reads, listings and working directories stay right under copied descriptors, wrapped offsets and a growing tree? | 2 tasks, 2 descriptors, a file of two bytes read two at a time, offsets modulo 3, a directory that grows from one name to two while listed, a path buffer of one name |
| `console` | Does the screen show what was written, and does kprintf print what C says? | 2 rows of 4 columns, tabulator stops every 2, two rows scrolled off; every value of types of 3 to 6 bits with every combination of `-`, `0` and `#`, five widths and three precisions |

Counters that the code does not bound are bounded in guards: `MaxPid`,
`MaxRefs`, `Top`, `MaxEntries`, `MaxCodes`, `MaxWrite`, `MaxRead`, `NPages`,
`MaxAbove`, `Amounts`.

Fairness. `kernel` uses `KFairSpec`: weak fairness of kernel steps (the CPU goes
on with the call it is in; nothing preempts it) and strong fairness of a child's
exit (its program, run again and again, ends). Nothing is assumed of the shell.
`ShellWaitReturns` and `ShellPipeCallsReturn` speak of behaviours in which no
child has to wait for a pipe, a key or a child of its own (`ChildrenNeverWait`);
the run itself contains all the others. Two calls that the code never answers are
left out of them by name and are in the run: a read of no bytes while a writer is
counted, and a wait4 for a pid that is no child while there are other children.
`CallsLeaveKernel` needs the fairness of kernel steps only. `heap` and the runs in
which the kernel may halt do not check for deadlock. `vfs` assumes weak fairness of the steps
of a lookup that has begun. No other run assumes fairness.

Runs that refute what the repository says of itself (details in
`PROJECT.json`, "findings"):

| Run | Refuted | By |
|---|---|---|
| `tasks_hang` | a wait4 with an answer at hand is answered | a child, run from inside the shell's wait4, waits for a child of its own and overwrites `fork_jmp_buf`; when it exits there is no way back to the shell |
| `memory_window` | page tables can be edited through their address | the window's frame is not reserved |

The passing runs and proofs say what holds all the same: what runs is RUNNING and
no jump through an intact buffer lands on a dead task; counts may be too high,
never too low.

Behaviour of the same kind that the models contain and no run singles out (most
are hazards in `PROJECT.json`, with their lines):

* `sched_switch_to` makes another task current on the blocked task's kernel
  stack (`stk # current` in `Tasks`). A pipe call does not complete there
  (`PipeCallsReturnToCaller`), a console read may, and the key goes to the other
  task.
* The task so made current is marked BLOCKED by that call's next turn, and the
  machine idles although it has data to fetch in a read of its own.
* A pipe read of no bytes waits while a writer is counted, with bytes queued too
  (`ByteQueue`, `NothingRead` in `Kernel`).
* wait4 for a pid that is no child, or was reaped, never returns while there are
  other children (`HasAnswer` in `Tasks`).
* At its limit the heap reports growth without pages: kmalloc faults or hands out
  bytes that have none (`expand_faults`, `fit_faults` in `Heap`).
* exit, execve and dup2 drop pipe ends without lowering `readers` or `writers`,
  so the other end waits for somebody who is gone (`Pipes`: counts are too high).
* `vfs_lookup_path` counts links in order to stop, but sets `depth = 0` before
  every restart: a cycle of links is followed for ever (`Loops` in `Vfs`).
* getdents64 gives a name again after mount has put one in front, never comes
  past the 32nd name, and loses the records copied before a fault.
* dup copies the offset of a file instead of sharing it; descriptor 0 reads the
  keyboard whatever it is; a path too long for its buffer names something else.
* `kprintf` fills up a sign or a prefix apart from the digits, and `#o` adds a
  zero to a number that has one (`Apart` in `Kprintf`).
* exit runs one task and halts when that one exits, whatever is RUNNABLE.
* dup2 of a descriptor onto itself closes the file (`Closed` in `Pipes`).
* A heap page whose table was made after a fork is mapped in one address space.
* execve in a child writes the frames its parent's image is mapped to.
* mmap without an address replaces what it mapped before, and one with an address
  whatever is there; munmap does nothing.
* A relative link with a slash after it, in the middle of a path or at its end, is
  resolved against itself, which may go on for ever, and a path that does not fit
  its buffer is cut and names something else (`bent` in `Vfs`, where the properties
  of lookups make no claim).

## Proofs

All for any values of the constants under the named assumptions of the modules.
These say that sizes are positive naturals and sets of pids sets of numbers; and

* `Heap`: the header is smaller than the minimal expansion, which fits below the
  limit (`heap.c`'s constants).
* `PipeRing`: finitely many readers and writers, none both: a task table is
  finite, and a task with both ends of a pipe counts as two.
* `Memory`: the parts of the layout lie in order, kernel and user areas apart, and
  there is RAM for the tables boot makes; otherwise the kernel does not come up.
* `Files`: paths are sequences of names; files and the limit of a listing (32) are
  smaller than the modulus of an offset (2^64).
* `Vfs`: paths are sequences of names, a path asked for fits in its buffer, and at
  least one link may be followed (512 and 8 in `vfs_lookup_path`).
* `Console`: the tabulator stop divides the width (8 and 80).

What is proved, and along which argument:

* `TasksProofs`. Inductive invariant `TasksInv`: `TypeOK`, `CurrentIsRunning`,
  `SuspendedInsideKernel` and `JumpTargetAlive` together with `KernelFrame` (the
  frame being executed heads a loop), `SwitchedWithoutRunnable` (after a switch
  that kept the stack nothing is RUNNABLE), `JumpHasParent` and
  `PidsWrittenOnce`, which gives `PidsUnique`. They need each other: the
  jump in exit makes `jmp.parent` current, and only `JumpTargetAlive` says that
  it is alive; a suspended frame survives only because nothing else uses that
  stack. One lemma per action or group of actions. `ZombiesAreKept` follows from
  it step by step.
  `TasksImplementProcesses` is the refinement of `Processes`. The abstract state
  is read from slots, and slots are reused, so `RefineInv` adds what the table
  remembers of parents: the slot a parent pointer names still carries the pid
  recorded with it, or no slot does. One lemma maps each kind of step: fork,
  failed fork, exit, the two ways of reaping, and the rest, which stutter.
* `TasksProofs`, the part about `Kernel`. `KernelImplementsTasks`: with the pipes
  hidden, every step of `Kernel` is a step of `Tasks` or a stutter, so every
  theorem about `Tasks` holds of `Kernel`. `PipeCallsStayHome` is inductive
  together with `TasksInv`: only a switch inside a call that must wait parts `stk`
  from `current`, such a call changes no pipe, and the jump in exit brings both
  back together (`JumpTargetAlive`).
* `PipesProofs`. `PipesInv` joins `TypeOK`, `CountsCoverOpenEnds` and
  `OpenEndsInUse`: a pipe is freed when both counts are zero, which means that
  nobody has it open only because the counts cover the open ends. The argument is
  about cardinalities of sets of open ends before and after each copy.
  `EndOfFileIsFinal` follows: to copy an end one must have it.
* `PipesProofs`, the part about `PipeRing`. `RingInv` adds to the types that `head` is `count` places
  after `tail`, that the counters are the numbers of open ends, and that whoever
  waits in a read has its end open. From the first follows that a chunk stored
  at `head` goes behind the queue and leaves the bytes in it alone, and that a
  read from `tail` takes them from its front, which makes each step of the ring a
  step of `ByteQueue` (`RingImplementsQueue`), reads of no bytes included; the lemmas are about places in a
  ring and about sequences read off it.
* `HeapProofs`. The lemmas speak of any list of headers: splitting and absorbing
  keep it sorted, linked both ways and without gaps. The inductive invariant adds
  that every block in use belongs to exactly one caller, is large enough for the
  request, and that free blocks are never neighbours. `BlocksAreMapped` is about
  the heap until it has reached its limit: there `heap_current` never passes
  `heap_mapped_end`, every header lies below `heap_current`, and so no step faults.
* `MemoryProofs`. `MemoryInv` joins all the safety properties of `Memory`, since
  they hold together or not at all: a new page is private because every mapped
  frame is marked, a write to a page table changes one task's pages because its
  table has one owner, a copy may be given back because nothing of it is
  reachable yet. It adds one fact, that outside the kernel heap only user areas
  map anything. Mapping a page, which makes a table first when there is none, is
  one lemma, used by brk, mmap, heap growth and execve alike; fork, execve's new
  address space and boot have their own.
* `FilesProofs`. That a finished listing has given every name cannot be seen from
  its end. `Listings` says where each listing is on the way: what the directory
  held at open is still the tail of its list, since mount adds in front, and each
  of those names whose place the listing has passed has been given. `ReadInside`
  is inductive with the types of descriptors.
* `VfsProofs`. `vfs_mkdir`, `vfs_create` and `vfs_symlink`, whether they succeed or
  fail half way, add directories along one path and at most one inode at its end,
  and change none; one lemma says so for all of them and gives both the tree and
  `TakenStays`. `LookTyped` keeps a lookup inside its path and the path inside its
  buffer across links. `LookupsRight`: the reference resolution `Unlinked` replaces
  the first link of a path as often as there is one, up to `Fuel` times; the lookup
  knows no such number and begins again at the root. `RightInv` relates the two: the
  names passed are no links, and the path being walked comes, after some number of
  turns of the resolution, to the same path as the one asked for. A link followed is
  one turn (`LinkMeans`). At the end no turn is left: the names passed were no
  links, and what is missing or below a file cannot hide one. `LookupsDescend`
  follows: the path after a link is the path before it with one turn less to go,
  and the least number of turns is a measure that falls. With the fairness of
  `FairSpec` that measure is what makes `LookupEnds` true. All three leave
  out lookups that are `bent`, and paths on which `Fuel` turns are not enough, cycles
  above all.
* `ConsoleProofs`. `CursorOnScreen`: for every width, height and tabulator stop
  that divides the width the cursor stays on the screen and the index of its cell
  inside the memory; the lemmas are the arithmetic of the two edges and of the
  stops. `ConsoleShowsPaper`: the rows scrolled off, followed by the rows of the
  screen, are the paper, and the cursor is the pen. A character is written to the
  paper where the cursor is, and scrolling moves a row from the screen to the rows
  above and leaves the paper as it is.
* `ConsoleProofs`, the part about `Keyboard`. `KeyboardImplementsKeyQueue` is the
  refinement of `KeyQueue`. A code means nothing by itself: what it stands for
  depends on `shift_pressed` and `extended_scancode` when it is read, perhaps in
  another reader's poll than the code before it. The inductive invariant `KbdInv`
  says (`Decodes`) that the codes on their way, read one after the other from the
  state the driver is in now, give the keys they were sent for, and leave the
  driver in the state the next stroke counts on. A stroke adds its codes at the end
  and keeps this; a poll reads the first code and moves the state along. The rest
  is the circular buffer: `keyboard_push` appends to the keys between tail and
  head or drops the key, `keyboard_getchar` takes the first, whatever wraps. The
  keys on their way are a recursive function of the codes; what it does with a code
  added or removed is proved by induction over the codes.
* `Induction`. The provers cannot instantiate an induction theorem whose predicate
  is an operator. Stated for sets it can be used: a set that has 0 and with every
  number its successor has them all (`SetInduction`), proved by the pigeonhole
  principle for finite sets; from it the least number of a set and, through
  finite beginnings that agree, that a function may be defined by recursion
  (`Recursion`), which is what lets the proofs speak of `KeysOf` and `Unlinked`.

Only model-checked:

* Liveness (`ShellWaitReturns`, `ShellPipeCallsReturn`, `CallsLeaveKernel`,
  `LookupEnds`): beyond the prover.
* `FormatsLikeC`. Its numerals are powers of the base and its types powers of two,
  and the prover knows no facts about exponentiation.
* `WaitersAreAnswered` and `TablesReachable` do not hold; their runs show it.

## Not modelled

Calls that only report (stat, access, readlink, getcwd, uname and the like),
the parsing of ELF and cpio headers, multiboot tags and format strings, colours
and the hardware cursor, register contents (a blocked call that is resumed in user
mode sees its own number as the result; here it is an abandoned call), signals
(calls that answer with a constant), overruns of fixed buffers (`kbuf` in a pipe
read, `kprintf_num_buf`), mmap at addresses outside the user areas, widths of
`kprintf` that are negative.

## Plan

Done: `Tasks` first, since everything hangs on the scheduler; then `Pipes`,
`PipeRing`, `Heap`, `Keyboard`, `Vfs`, `Memory`; `Kernel`, which composes the
scheduler with what tasks wait for; `Files`; `Console` and `Kprintf`; the proofs
of all of them but `Kprintf`, with the refinements of `Processes`, `Tasks`,
`ByteQueue`, `KeyQueue` and `Paper`.

Next: execve as one operation over descriptors, address space and image, with what
a failed one leaves behind.

------------------------------- MODULE Files -------------------------------
(***************************************************************************)
(* The file calls of core/syscall.c on the tree of core/fs/vfs.c: open,    *)
(* read, lseek, getdents64, chdir and mount, with the calls that copy and  *)
(* drop descriptors.                                                       *)
(*                                                                         *)
(* A descriptor is an object with a position of its own; dup, dup2 and     *)
(* fork copy it.  Files never change, but mount adds directories to the    *)
(* tree while other tasks read it.  A path is a sequence of names and      *)
(* buffer sizes are counted in names; symbolic links are the business of   *)
(* Vfs, pipes of Pipes.  A byte of a file is known by its place in it.     *)
(* The calls are atomic and any live task may make the next one; calls     *)
(* that fail without changing anything are left out.                       *)
(***************************************************************************)
EXTENDS Integers, Sequences

CONSTANTS
  NTasks,     \* PROC_MAX_TASKS
  NFds,       \* PROC_MAX_FD
  Children0,  \* the directories after boot, each with its names, newest first
  Sizes,      \* the files, each with its size
  Devices,    \* /dev/console, /dev/tty and /dev/null
  Args,       \* paths programs give: [abs : BOOLEAN, path : names]
  Mounts,     \* paths programs give mount
  Offsets,    \* offsets programs give lseek
  Counts,     \* byte counts programs give read
  Rooms,      \* how many records fit the buffers programs give getdents64
  ReadBuf,    \* sizeof kbuf in sys_read (256)
  MaxDents,   \* entries getdents64 looks at (32)
  PathBuf,    \* sizeof resolved (256)
  PosMod      \* 2^64: positions are of type size_t

Names(seq) == {seq[i] : i \in DOMAIN seq}

\* The paths and the lists of names that are given from outside.
Given == DOMAIN Children0 \cup Mounts \cup {Children0[d] : d \in DOMAIN Children0}

ASSUME FilesAssumption ==
  /\ NTasks \in Nat \ {0} /\ NFds \in Nat \ {0}
  /\ PathBuf \in Nat /\ PosMod \in Nat \ {0} /\ ReadBuf \in Nat
  /\ MaxDents \in 0 .. PosMod - 1
  /\ \A p \in DOMAIN Sizes : Sizes[p] \in 0 .. PosMod - 1
  /\ <<>> \in DOMAIN Children0
  /\ DOMAIN Children0 \cap DOMAIN Sizes = {}
  /\ \A s \in Given : s \in Seq(Names(s))
  /\ Offsets \subseteq Int /\ Counts \subseteq Nat /\ Rooms \subseteq Nat

Tasks == 0 .. NTasks - 1
Fds   == 0 .. NFds - 1
Root  == <<>>

VARIABLES
  children,   \* dir.children of every directory
  alive,      \* tasks that have not exited
  fds,        \* tasks[t].fds
  cwd,        \* tasks[t].cwd
  got         \* the bytes of a file the last call copied: [file, from, n]

vars == <<children, alive, fds, cwd, got>>

Dirs      == DOMAIN children
FilePaths == DOMAIN Sizes

(***************************************************************************)
(* struct vfs_file: its inode, or a device, or an object vfs_close has     *)
(* cleared, and its position.  For a directory, start records the names it *)
(* had when it was opened and seen the names handed out since; sure turns  *)
(* FALSE when a call failed half way.                                      *)
(***************************************************************************)
Descriptor(kind, path, start) ==
  [kind |-> kind, path |-> path, pos |-> 0, start |-> start, seen |-> <<>>,
   sure |-> TRUE]

NULL   == Descriptor("null", Root, <<>>)
Device == Descriptor("device", Root, <<>>)
Closed == Descriptor("closed", Root, <<>>)

Nothing == [file |-> Root, from |-> 0, n |-> 0]

\* Everything hangs together: positions are sizes, a descriptor's inode
\* exists, and the working directory of every task is a directory, however
\* its path was put together and cut (SYS_chdir, resolve_path).
TypeOK ==
  /\ alive \subseteq Tasks
  /\ \A t \in Tasks : cwd[t] \in Dirs
  /\ \A t \in Tasks, f \in Fds :
       LET d == fds[t][f] IN
       /\ d.kind \in {"null", "device", "closed", "file", "dir"}
       /\ d.pos \in 0 .. PosMod - 1
       /\ d.kind = "file" => d.path \in FilePaths
       /\ d.kind = "dir" => d.path \in Dirs /\ d.pos <= MaxDents

\* proc_init, when the tree has been built.
Init ==
  /\ children = Children0
  /\ alive = {0}
  /\ fds = [t \in Tasks |-> [f \in Fds |-> IF t = 0 /\ f = 0 THEN Device ELSE NULL]]
  /\ cwd = [t \in Tasks |-> Root]
  /\ got = Nothing

-----------------------------------------------------------------------------
(***************************************************************************)
(* Paths.                                                                  *)
(***************************************************************************)
Cut(p, n) == SubSeq(p, 1, IF Len(p) <= n THEN Len(p) ELSE n)

\* A relative path is put behind the working directory; what does not fit
\* the buffer is cut off without an error.
resolve_path(t, arg) ==
  IF arg.abs THEN arg.path ELSE Cut(cwd[t] \o arg.path, PathBuf)

FirstFree(t, f) == fds[t][f] = NULL /\ \A g \in Fds : g < f => fds[t][g] # NULL

\* sys_open_path: a device is known by its path, everything else is looked up.
Opened(p) ==
  IF p \in Devices THEN {Device}
  ELSE IF p \in Dirs THEN {Descriptor("dir", p, children[p])}
  ELSE IF p \in FilePaths THEN {Descriptor("file", p, <<>>)}
  ELSE {}

sys_open_path(t) ==
  \E f \in Fds, arg \in Args :
    /\ FirstFree(t, f)
    /\ \E d \in Opened(resolve_path(t, arg)) : fds' = [fds EXCEPT ![t][f] = d]
    /\ UNCHANGED <<children, alive, cwd>> /\ got' = Nothing

\* Faulty variant, for mutation testing.
sys_chdir_anywhere(t) ==
  \E arg \in Args :
    /\ resolve_path(t, arg) \in Dirs \cup FilePaths
    /\ cwd' = [cwd EXCEPT ![t] = resolve_path(t, arg)]
    /\ UNCHANGED <<children, alive, fds>> /\ got' = Nothing

sys_chdir(t) ==
  \E arg \in Args :
    /\ resolve_path(t, arg) \in Dirs
    /\ cwd' = [cwd EXCEPT ![t] = resolve_path(t, arg)]
    /\ UNCHANGED <<children, alive, fds>> /\ got' = Nothing

\* mount only makes the directory it is given, with the ones on the way;
\* vfs_dir_add puts a new name in front of the others.  When memory runs out
\* after k of them, those stay.
NewDirs(p, k) == {Cut(p, i) : i \in 1 .. k} \ Dirs

Through(p) == \A i \in 1 .. Len(p) - 1 : Cut(p, i) \notin FilePaths

vfs_mkdir(p, k) ==
  children' = [d \in Dirs \cup NewDirs(p, k) |->
    LET old == IF d \in Dirs THEN children[d] ELSE <<>>
        i   == Len(d) + 1
    IN  IF i <= k /\ d = Cut(p, i - 1) /\ Cut(p, i) \in NewDirs(p, k)
          THEN <<p[i]>> \o old ELSE old]

sys_mount(t) ==
  \E p \in Mounts :
    /\ p \notin FilePaths
    /\ Through(p)
    /\ \E k \in 1 .. Len(p) : vfs_mkdir(p, k)
    /\ UNCHANGED <<alive, fds, cwd>> /\ got' = Nothing

-----------------------------------------------------------------------------
(***************************************************************************)
(* Reading.                                                                *)
(***************************************************************************)
Least(a, b) == IF a <= b THEN a ELSE b

\* Faulty variant, for mutation testing.
Available_signed(d) ==
  IF d.pos > PosMod \div 2 THEN Sizes[d.path] + PosMod - d.pos
  ELSE IF d.pos >= Sizes[d.path] THEN 0 ELSE Sizes[d.path] - d.pos

\* vfs_read compares the unsigned position with the size first.
Available(d) == IF d.pos >= Sizes[d.path] THEN 0 ELSE Sizes[d.path] - d.pos

\* read of a file.  Descriptor 0 always means the keyboard.  A bad buffer is
\* noticed after the position has moved.
sys_read(t) ==
  \E f \in Fds \ {0}, count \in Counts, fault \in BOOLEAN :
    LET d == fds[t][f]
        n == Least(Least(count, ReadBuf), Available(d))
    IN  /\ d.kind = "file"
        /\ fds' = [fds EXCEPT ![t][f].pos = (@ + n) % PosMod]
        /\ got' = IF fault \/ n = 0 THEN Nothing ELSE [file |-> d.path, from |-> d.pos, n |-> n]
        /\ UNCHANGED <<children, alive, cwd>>

\* lseek moves the position of a file anywhere and leaves directories alone.
sys_lseek(t) ==
  \E f \in Fds, offset \in Offsets :
    LET d == fds[t][f] IN
    /\ d.kind = "file"
    /\ \E base \in {0, d.pos, Sizes[d.path]} :
         fds' = [fds EXCEPT ![t][f].pos = (base + offset) % PosMod]
    /\ UNCHANGED <<children, alive, cwd>> /\ got' = Nothing

\* Faulty variant, for mutation testing.
Moved_past(pos, m, n) == Least(pos + m + 1, n)

\* file->pos = i + 1 for every record copied
Moved(pos, m, n) == pos + m

\* Of a listing of which records were lost only the position is kept.
Unsure(d, pos) == [Descriptor("dir", d.path, <<>>) EXCEPT !.pos = pos, !.sure = FALSE]

\* getdents64 takes the first MaxDents names of the directory as it is now
\* and goes on at the index it had reached.  Copying to the caller may fail
\* after m records: the position has moved past them.
sys_getdents64(t) ==
  \E f \in Fds, room \in Rooms, fault \in BOOLEAN :
    LET d    == fds[t][f]
        list == Cut(children[d.path], MaxDents)
        left == IF d.pos <= Len(list) THEN Len(list) - d.pos ELSE 0
        fit  == Least(room, left)
    IN  /\ d.kind = "dir"
        /\ \E m \in 0 .. fit :
             /\ IF fault THEN m < fit ELSE m = fit
             /\ fds' = [fds EXCEPT ![t][f] =
                  IF (fault /\ m > 0) \/ ~d.sure THEN Unsure(d, Moved(d.pos, m, Len(list)))
                  ELSE [d EXCEPT !.pos  = Moved(d.pos, m, Len(list)),
                                 !.seen = d.seen \o SubSeq(list, d.pos + 1, d.pos + m)]]
        /\ UNCHANGED <<children, alive, cwd>> /\ got' = Nothing

-----------------------------------------------------------------------------
(***************************************************************************)
(* Copying and dropping descriptors.                                       *)
(***************************************************************************)

\* What is left of an object after vfs_close and kfree: no inode, and maybe no
\* path that makes it a device, as the heap may have written over it.
AfterFree(d) == IF d.kind = "device" THEN {Device, Closed} ELSE {Closed}

\* dup and fcntl take a free descriptor, dup2 any.  Onto itself, dup2 copies
\* the object after it has closed and freed it.
fd_dup_to(t) ==
  \E old, new \in Fds :
    LET d == fds[t][old] IN
    /\ d # NULL
    /\ \E copy \in IF new = old THEN AfterFree(d) ELSE {d} :
         fds' = [fds EXCEPT ![t][new] = copy]
    /\ UNCHANGED <<children, alive, cwd>> /\ got' = Nothing

sys_close(t) ==
  \E f \in Fds :
    /\ fds[t][f] # NULL
    /\ fds' = [fds EXCEPT ![t][f] = NULL]
    /\ UNCHANGED <<children, alive, cwd>> /\ got' = Nothing

proc_fork(t) ==
  \E c \in Tasks \ alive :
    /\ alive' = alive \cup {c}
    /\ fds' = [fds EXCEPT ![c] = fds[t]]
    /\ cwd' = [cwd EXCEPT ![c] = cwd[t]]
    /\ UNCHANGED children /\ got' = Nothing

\* The slot is wiped when it is used again.  When the last task exits, the
\* kernel halts.
proc_exit(t) ==
  /\ alive # {t}
  /\ alive' = alive \ {t}
  /\ fds' = [fds EXCEPT ![t] = [f \in Fds |-> NULL]]
  /\ cwd' = [cwd EXCEPT ![t] = Root]
  /\ UNCHANGED children /\ got' = Nothing

Next ==
  \E t \in alive :
    \/ sys_open_path(t) \/ sys_chdir(t) \/ sys_mount(t)
    \/ sys_read(t) \/ sys_lseek(t) \/ sys_getdents64(t)
    \/ fd_dup_to(t) \/ sys_close(t) \/ proc_fork(t) \/ proc_exit(t)

Spec == Init /\ [][Next]_vars

-----------------------------------------------------------------------------
(***************************************************************************)
(* Properties.                                                             *)
(***************************************************************************)

\* Whatever seeks came before, also ones before the start of the file that
\* wrap the unsigned position, a read copies only bytes of the file
\* (sys_lseek, vfs_read).
ReadInside == got.n > 0 => got.from + got.n <= Sizes[got.file]

\* A listing gives the names in their order, each once, as long as the
\* directory is left alone; and one that is at its end has given every name
\* the directory had when it was opened, although mount may have moved all of
\* them meanwhile and copies of the descriptor go their own way
\* (sys_getdents64, vfs_readdir, vfs_dir_add).  A directory of more than
\* MaxDents names is cut off.
ListingFaithful ==
  \A t \in Tasks, f \in Fds :
    LET d == fds[t][f] IN
    d.kind = "dir" /\ d.sure =>
      /\ children[d.path] = d.start => d.seen = Cut(d.start, Len(d.seen))
      /\ Len(children[d.path]) \in 0 .. Least(d.pos, MaxDents) => Names(d.start) \subseteq Names(d.seen)
=============================================================================

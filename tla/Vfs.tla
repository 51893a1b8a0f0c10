--------------------------------- MODULE Vfs ---------------------------------
(***************************************************************************)
(* The root file system: how boot fills it from the cpio archive           *)
(* (core/fs/cpio.c, core/fs/initramfs.c, core/kernel.c) and how paths are  *)
(* looked up in it afterwards (core/fs/vfs.c).                             *)
(*                                                                         *)
(* A path is a sequence of names, the root the empty one; "." and ".." are *)
(* names like any other, as vfs_dir_find takes them.  Whether a slash      *)
(* follows the last name matters to links only and is kept with lookups    *)
(* and with the targets of links.  Inodes have one name each, so the tree  *)
(* is a function from the paths that exist to their inodes.  Buffer sizes  *)
(* are counted in names.  Any archive and running out of memory at any     *)
(* point are possible.                                                     *)
(***************************************************************************)
EXTENDS Integers, Sequences

CONSTANTS
  Names,        \* names of files
  MaxPath,      \* length of a path given by the archive or by a program
  Targets,      \* targets of symbolic links: absolute or not, names, last slash
  Devices,      \* files initramfs_load adds (/dev/console, /dev/null)
  SystemDirs,   \* directories the kernel adds (/proc, /sys)
  PathBuf,      \* sizeof curpath and linkbuf (512)
  RestBuf,      \* sizeof rest (256)
  MaxDepth,     \* links followed in a row (8)
  MaxEntries    \* bound: entries of the archive

ASSUME VfsAssumption ==
  /\ MaxPath \in Nat /\ PathBuf \in Nat /\ RestBuf \in Nat /\ MaxPath <= PathBuf
  /\ MaxDepth \in Nat \ {0} /\ MaxEntries \in Nat
  /\ \A t \in Targets : t.path \in Seq(Names) /\ t.slash \in BOOLEAN
  /\ \A t \in Targets : ~t.abs /\ t.path = <<>> => t.slash   \* "" leaves "dir/"
  /\ Devices \in Seq(Seq(Names)) /\ SystemDirs \in Seq(Seq(Names))

Root     == <<>>
Nowhere  == <<"NULL">>
NoTarget == [abs |-> TRUE, path |-> Root, slash |-> FALSE]
Dir      == [type |-> "dir", target |-> NoTarget]
File     == [type |-> "file", target |-> NoTarget]
Link(t)  == [type |-> "symlink", target |-> t]
Inodes   == {Dir, File} \cup {Link(t) : t \in Targets}

PathsUpTo(n) == UNION {[1 .. k -> Names] : k \in 1 .. n}

VARIABLES
  tree,      \* the inodes, by path
  phase,     \* "unpack", then "up"
  left,      \* entries the archive may still have
  late,      \* what boot adds to the tree after unpacking
  taken,     \* the archive's entries that were installed without complaint
  look       \* the lookup in progress, or the last one

vars == <<tree, phase, left, late, taken, look>>

Paths == DOMAIN tree

Upto(p, i)  == SubSeq(p, 1, i)
After(p, i) == SubSeq(p, i + 1, Len(p))
IsDir(p)    == tree[p].type = "dir"
IsLink(p)   == tree[p].type = "symlink"

(***************************************************************************)
(* A lookup: what was asked for, the path being walked (curpath), how many *)
(* of its names have been passed, whether it ends in a slash, and the      *)
(* result.  bent records that a relative link was followed where a slash   *)
(* comes after it, or that what a link stands for did not fit the buffers. *)
(***************************************************************************)
NoLookup ==
  [ask |-> Root, follow |-> TRUE, path |-> Root, pos |-> 0, slash |-> FALSE, depth |-> 0,
   bent |-> FALSE, state |-> "idle", res |-> Nowhere]

Parent(p) == Upto(p, Len(p) - 1)

\* Everything is what it is declared as, and the tree is a tree: all inodes
\* hang below directories, also after calls that failed half way
\* (vfs_lookup_parent with create, vfs_dir_add).
TypeOK ==
  /\ Root \in Paths /\ \A p \in Paths : tree[p] \in Inodes
  /\ \A p \in Paths : p # Root => Parent(p) \in Paths /\ IsDir(Parent(p))
  /\ phase \in {"unpack", "up"}
  /\ left \in 0 .. MaxEntries
  /\ look.state \in {"idle", "walk", "done"}
  /\ look.pos \in 0 .. Len(look.path)
  /\ Len(look.path) <= PathBuf
  /\ look.depth \in 0 .. MaxDepth /\ look.slash \in BOOLEAN

\* vfs_init
Init ==
  /\ tree = [p \in {Root} |-> Dir]
  /\ phase = "unpack"
  /\ left = MaxEntries
  /\ late = <<>>
  /\ taken = {}
  /\ look = NoLookup

-----------------------------------------------------------------------------
(***************************************************************************)
(* Adding to the tree.                                                     *)
(***************************************************************************)
Entry(path, inode) == [path |-> path, inode |-> inode]

\* The directories vfs_lookup_parent makes on the way to p, up to name k.
MissingDirs(p, k) == {Upto(p, i) : i \in 1 .. k} \ Paths

\* Faulty variant, for mutation testing.
Blocked_but_parent(p) ==
  \E i \in 1 .. Len(p) - 2 : Upto(p, i) \in Paths /\ ~IsDir(Upto(p, i))

\* A component on the way is no directory.
Blocked(p) == \E i \in 1 .. Len(p) - 1 : Upto(p, i) \in Paths /\ ~IsDir(Upto(p, i))

Grown(dirs) == [p \in Paths \cup dirs |-> IF p \in dirs THEN Dir ELSE tree[p]]

\* Faulty variant, for mutation testing.
Installed_over(e) ==
  /\ ~Blocked(e.path)
  /\ IF e.path \in Paths /\ IsDir(e.path) THEN e.inode = Dir ELSE TRUE
  /\ tree' = [p \in Paths \cup {Upto(e.path, i) : i \in 1 .. Len(e.path)} |->
                IF p = e.path THEN e.inode ELSE IF p \in Paths THEN tree[p] ELSE Dir]

\* vfs_mkdir, vfs_create and vfs_symlink when they return 0.  Only mkdir
\* takes what already exists for success, whatever it is.
Installed(e) ==
  /\ ~Blocked(e.path)
  /\ \/ /\ e.path \notin Paths
        /\ tree' = [p \in Paths \cup {Upto(e.path, i) : i \in 1 .. Len(e.path)} |->
                      IF p = e.path THEN e.inode ELSE IF p \in Paths THEN tree[p] ELSE Dir]
     \/ /\ e.path \in Paths /\ e.inode = Dir
        /\ UNCHANGED tree

\* When they fail: something is in the way, or memory runs out and the
\* directories made so far stay.
Refused(e) ==
  \/ /\ Blocked(e.path) \/ (e.path \in Paths /\ e.inode # Dir)
     /\ UNCHANGED tree
  \/ /\ ~Blocked(e.path) /\ e.path \notin Paths
     /\ \E k \in 0 .. Len(e.path) - 1 : tree' = Grown(MissingDirs(e.path, k))

LateDevices == [i \in DOMAIN Devices |-> Entry(Devices[i], File)]
LateDirs    == [i \in DOMAIN SystemDirs |-> Entry(SystemDirs[i], Dir)]

-----------------------------------------------------------------------------
(***************************************************************************)
(* Boot: cpio_populate_vfs_phys, the rest of initramfs_load, kernel_main.  *)
(***************************************************************************)
cpio_install_entry(e) ==
  /\ phase = "unpack" /\ left > 0
  /\ left' = left - 1
  /\ \/ Installed(e) /\ taken' = taken \cup {e} /\ UNCHANGED <<phase, late>>
     \/ Refused(e) /\ phase' = "up" /\ late' = LateDirs /\ UNCHANGED taken
  /\ UNCHANGED look

\* "." and the like, a type the kernel does not know, or no memory for the
\* path: the entry is passed over without an error.
cpio_skip_entry ==
  /\ phase = "unpack" /\ left > 0
  /\ left' = left - 1
  /\ UNCHANGED <<tree, phase, late, taken, look>>

\* The trailer ends the archive; a bad header, a bad size or the end of the
\* module before the trailer make the unpacking fail.  Boot goes on.
cpio_ends ==
  /\ phase = "unpack"
  /\ phase' = "up"
  /\ late' \in {LateDevices \o LateDirs, LateDirs}
  /\ UNCHANGED <<tree, left, taken, look>>

\* Failures are reported, not acted on.
boot_entry ==
  /\ phase = "up" /\ late # <<>>
  /\ Installed(Head(late)) \/ Refused(Head(late))
  /\ late' = Tail(late)
  /\ UNCHANGED <<phase, left, taken, look>>

-----------------------------------------------------------------------------
(***************************************************************************)
(* vfs_lookup_path, one name at a time.                                    *)
(***************************************************************************)
lookup(p, slash, follow) ==
  /\ phase = "up" /\ late = <<>> /\ look.state # "walk"
  /\ look' = [NoLookup EXCEPT !.ask = p, !.path = p, !.slash = slash,
                            !.follow = follow, !.state = "walk"]
  /\ UNCHANGED <<tree, phase, left, late, taken>>

Here == Upto(look.path, look.pos)
Step == Upto(look.path, look.pos + 1)

Walking == look.state = "walk"

Answer(res) == look' = [look EXCEPT !.state = "done", !.res = res]

lookup_found ==
  /\ Walking /\ look.pos = Len(look.path)
  /\ Answer(Here)
  /\ UNCHANGED <<tree, phase, left, late, taken>>

\* Not a directory, or no such name.
lookup_missing ==
  /\ Walking /\ look.pos < Len(look.path)
  /\ ~IsDir(Here) \/ Step \notin Paths
  /\ Answer(Nowhere)
  /\ UNCHANGED <<tree, phase, left, late, taken>>

AtLink == /\ Walking /\ look.pos < Len(look.path)
          /\ IsDir(Here) /\ Step \in Paths
          /\ IsLink(Step) /\ look.follow

lookup_name ==
  /\ Walking /\ look.pos < Len(look.path)
  /\ IsDir(Here) /\ Step \in Paths
  /\ ~(IsLink(Step) /\ look.follow)
  /\ look' = [look EXCEPT !.pos = @ + 1]
  /\ UNCHANGED <<tree, phase, left, late, taken>>

\* After the link's name comes a slash, with names or alone.
SlashFollows == look.pos + 1 < Len(look.path) \/ look.slash

\* Faulty variant, for mutation testing.
vfs_symlink_resolve_from_root(target, more) == target.path

\* strncpy into a buffer.
Cut(p, n) == IF Len(p) > n THEN Upto(p, n) ELSE p

\* vfs_symlink_resolve is given the part of curpath up to the cursor, which is
\* past the slashes after the link's name.  If there are any, the last one is
\* taken for the end of the directory: the link itself becomes the base.
vfs_symlink_resolve(target, more) ==
  LET base == IF more THEN Step ELSE Here IN
  IF target.abs THEN Cut(target.path, PathBuf)
  ELSE IF Len(base) + Len(target.path) > PathBuf THEN Root
  ELSE base \o target.path

\* Faulty variant, for mutation testing.
lookup_link_in_place ==
  /\ AtLink
  /\ look' = [look EXCEPT !.pos = 0]
  /\ UNCHANGED <<tree, phase, left, late, taken>>

\* The path does not become what the link stands for.
Bends(target, more, all) ==
  \/ target.abs /\ Len(target.path) > PathBuf
  \/ ~target.abs /\ (more \/ Len(Here) + Len(target.path) > PathBuf)
  \/ Len(all) > RestBuf

\* Whether the path still ends in a slash: as the names left did, or as the target
\* does if there are none.  A path that was cut may end anywhere.
SlashLeft(target, all) ==
  IF Len(all) > RestBuf \/ (target.abs /\ Len(target.path) > PathBuf) THEN BOOLEAN
  ELSE {IF all = <<>> THEN target.slash ELSE look.slash}

\* What does not fit a buffer is cut off; depth starts again.
lookup_link ==
  LET more    == SlashFollows
      all     == After(look.path, look.pos + 1)
      rest    == Cut(all, RestBuf)
      target  == tree[Step].target
      linkbuf == vfs_symlink_resolve(target, more)
  IN  /\ AtLink
      /\ IF look.depth + 1 > MaxDepth THEN Answer(Nowhere)
         ELSE IF Len(linkbuf) + Len(rest) > PathBuf
           THEN look' = [look EXCEPT !.state = "done", !.res = Nowhere, !.bent = TRUE]
           ELSE \E slash \in SlashLeft(target, all) :
                  look' = [look EXCEPT !.path = linkbuf \o rest, !.pos = 0, !.depth = 0,
                                       !.slash = slash,
                                       !.bent = @ \/ Bends(target, more, all)]
      /\ UNCHANGED <<tree, phase, left, late, taken>>

LookupStep == lookup_found \/ lookup_missing \/ lookup_name \/ lookup_link

Next ==
  \/ \E p \in PathsUpTo(MaxPath), i \in Inodes : cpio_install_entry(Entry(p, i))
  \/ cpio_skip_entry \/ cpio_ends \/ boot_entry
  \/ \E p \in PathsUpTo(MaxPath), slash, follow \in BOOLEAN : lookup(p, slash, follow)
  \/ LookupStep

Spec == Init /\ [][Next]_vars

\* The kernel goes on with a lookup it has begun.
FairSpec == Spec /\ WF_vars(LookupStep)

-----------------------------------------------------------------------------
(***************************************************************************)
(* Properties.                                                             *)
(***************************************************************************)

\* What the archive put in place stays as the archive has it, whatever later
\* entries, failures and boot itself add (vfs_create and vfs_symlink refuse
\* to replace, vfs_mkdir leaves alone).
TakenStays ==
  \A e \in taken : e.path \in Paths /\ (e.inode # Dir => tree[e.path] = e.inode)

-----------------------------------------------------------------------------
\* What p means, one link after the other, a relative link standing for its
\* target in the directory it is in: Unlinked is the path without links that
\* p stands for, or one that still has a link when there were more than fuel.
\* "." and ".." are plain names and a slash at the end says nothing, as in
\* vfs_dir_find and vfs_skip_slash (POSIX has both otherwise).
LinkAt(p, i) == Upto(p, i) \in Paths /\ IsLink(Upto(p, i))
Linked(p)    == \E i \in 1 .. Len(p) : LinkAt(p, i)

\* With its first link replaced by what it stands for.
Once(p) ==
  LET i == CHOOSE i \in 1 .. Len(p) : LinkAt(p, i) /\ \A j \in 1 .. i - 1 : ~LinkAt(p, j)
      t == tree[Upto(p, i)].target
      base == IF t.abs THEN Root ELSE Upto(p, i - 1)
  IN  base \o t.path \o After(p, i)

Unlinked[fuel \in Nat] ==
  [p \in Seq(Names) |->
     IF fuel = 0 \/ ~Linked(p) THEN p ELSE Unlinked[fuel - 1][Once(p)]]

Fuel == MaxEntries + MaxPath

Loops(p)   == Linked(Unlinked[Fuel][p])
Resolve(p) == LET q == Unlinked[Fuel][p] IN
              IF q \in Paths /\ ~Linked(q) THEN q ELSE Nowhere

\* A lookup that ends, ends at the inode the path means, or at none if there
\* is none, through absolute links anywhere and relative links at the very end
\* of a path, with no slash after them, links to links included.  Relative
\* links elsewhere go wrong and are marked bent, and paths cut to fit a buffer
\* are too (vfs_lookup_path, vfs_symlink_resolve).
LookupRight ==
  look.state = "done" /\ look.follow /\ ~look.bent /\ ~Loops(look.ask)
    => look.res = Resolve(look.ask)

\* Every step of a lookup that goes on passes a name or leaves fewer links to
\* follow: although it begins again at the root and forgets how many links it
\* followed, it turns in no circle but those of the archive's own links
\* (~Loops) and those of a relative link with a slash after it, which is taken
\* for a directory again and again (bent; the restart and the reset of depth
\* in vfs_lookup_path).
Ends(p, links) == ~Linked(Unlinked[links][p])

LookupDescends ==
  [][Walking /\ Walking' /\ look.follow /\ ~look'.bent /\ ~Loops(look.ask) =>
       \/ look'.path = look.path /\ look'.pos > look.pos
       \/ \E n \in 0 .. Fuel : Ends(look'.path, n) /\ ~Ends(look.path, n)]_look

\* A lookup ends if its path has no endless chain of links, does not come to a
\* relative link with a slash after it, be it the last one of the path, and is
\* not cut short.  The lookups left out may turn for ever: nothing but the
\* links themselves sets a limit, as the count of links starts again with
\* every link (depth in vfs_lookup_path).
LookupEnds == (Walking /\ ~Loops(look.ask)) ~> (~Walking \/ look.bent)
=============================================================================

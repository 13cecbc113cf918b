------------------------------- MODULE ExtTree -------------------------------
(* The directory tree of an ext volume that rufux-mountd serves over NFS     *)
(* (macos/src/mountd_nfs.c, the ext_op_* operations).  The server is a       *)
(* single thread: one request is answered before the next is read, so one    *)
(* action is one whole request.  What is not atomic is a request that fails  *)
(* half way: every call into libext2fs can fail, and the code undoes some    *)
(* of the earlier calls, reports others and ignores the rest.                *)
(*                                                                           *)
(* Kept: the inode bitmap, the kind and the link count of every inode, every *)
(* directory entry and the ".." of every directory.  Left out: file data,    *)
(* attributes and times, requests that change no entry (GETATTR, SETATTR,    *)
(* READ, WRITE, CREATE of a name that exists) and requests refused before    *)
(* they change anything.                                                     *)
EXTENDS Naturals, FiniteSets

CONSTANTS
    Inodes,     \* inode numbers of the volume
    Root,       \* EXT2_ROOT_INO
    Names,      \* leaf names that valid_leaf_name accepts
    Word,       \* i_links_count is a uint16_t: 2^16 in the code
    DirMax,     \* links of a directory RENAME still counts: 65000
    MaxFaults   \* bound: calls into libext2fs that fail

ASSUME TreeAssumption ==
    /\ Root \in Inodes
    /\ IsFiniteSet(Inodes)
    /\ Word \in Nat /\ DirMax \in Nat /\ MaxFaults \in Nat
    /\ 2 < DirMax /\ DirMax < Word

VARIABLES
    fs,         \* the volume, see FsType
    faults,     \* calls that failed so far
    damaged,    \* history: a request left behind what it cannot repair
    looped      \* history: a directory was moved below itself

vars == <<fs, faults, damaged, looped>>

\* An entry is <<directory, name, inode>>; up is the inode of "..".
FsType ==
    [kind  : [Inodes -> {"free", "file", "dir"}],
     links : [Inodes -> 0 .. Word - 1],
     ent   : SUBSET (Inodes \X Names \X Inodes),
     up    : [Inodes -> Inodes]]

Init ==
    /\ fs = [kind  |-> [i \in Inodes |-> IF i = Root THEN "dir" ELSE "free"],
             links |-> [i \in Inodes |-> IF i = Root THEN 2 ELSE 0],
             ent   |-> {},
             up    |-> [i \in Inodes |-> Root]]
    /\ faults = 0
    /\ damaged = FALSE
    /\ looped = FALSE

-----------------------------------------------------------------------------
(* What the requests are made of *)

\* ext_read_valid_inode: allocated, and a link count that is not zero.
Valid(i) == fs.kind[i] # "free" /\ fs.links[i] # 0

ValidDir(d) == Valid(d) /\ fs.kind[d] = "dir"

\* ext2fs_lookup: the inodes a name leads to.
Lookup(d, n) == {i \in Inodes : <<d, n, i>> \in fs.ent}

Entered(f, d, n, i) == [f EXCEPT !.ent = @ \cup {<<d, n, i>>}]

Unlinked(f, d, n, i) == [f EXCEPT !.ent = @ \ {<<d, n, i>>}]

Freed(f, i) == [f EXCEPT !.kind[i] = "free", !.links[i] = 0]

\* ext_check_empty_cb: no entry but "." and "..".
Empty(d) == \A e \in fs.ent : e[1] # d

\* A parent loses a subdirectory; a count of 2 or less is left alone.
Lessened(f, d) == [f EXCEPT !.links[d] = IF @ > 2 THEN @ - 1 ELSE @]

\* i is d, or is reached from d along the entries.
Below(f, d, i) ==
    \A S \in SUBSET Inodes :
        (d \in S /\ \A e \in f.ent : e[1] \in S => e[3] \in S) => i \in S

NoFault == UNCHANGED faults

Fault == faults < MaxFaults /\ faults' = faults + 1

-----------------------------------------------------------------------------
(* New names *)

\* ext_op_create.  The link count is 1 before the name is entered; when the
\* name cannot be entered the inode is given back.  A lookup that fails for
\* another reason than a missing name is taken for a missing name, and
\* ext2fs_link does not look for the name itself.
Create(d, n) ==
    /\ ValidDir(d)
    /\ \E i \in Inodes :
         /\ fs.kind[i] = "free"
         /\ LET new == [fs EXCEPT !.kind[i] = "file", !.links[i] = 1]
            IN  \/ /\ Lookup(d, n) = {} /\ NoFault
                   /\ fs' = Entered(new, d, n, i)
                   /\ UNCHANGED damaged
                \/ /\ Lookup(d, n) = {} /\ Fault
                   /\ fs' = Freed(new, i)
                   /\ UNCHANGED damaged
                \/ /\ Lookup(d, n) # {} /\ Fault
                   /\ fs' = Entered(new, d, n, i)
                   /\ damaged' = TRUE
    /\ UNCHANGED looped

\* ext_op_symlink: a name for a new inode that is no directory.  libext2fs
\* does the whole of it, looks for the name itself and gives back the inode.
Symlink(d, n) ==
    /\ ValidDir(d) /\ Lookup(d, n) = {}
    /\ \E i \in Inodes :
         /\ fs.kind[i] = "free"
         /\ fs' = Entered([fs EXCEPT !.kind[i] = "file", !.links[i] = 1], d, n, i)
    /\ UNCHANGED <<faults, damaged, looped>>

\* ext_op_mkdir: ext2fs_mkdir2 sets "..", the two links of the new directory
\* and counts it in its parent.
Mkdir(d, n) ==
    /\ ValidDir(d) /\ Lookup(d, n) = {}
    /\ \E i \in Inodes :
         /\ fs.kind[i] = "free"
         /\ fs' = Entered([fs EXCEPT !.kind[i] = "dir", !.up[i] = d, !.links[i] = 2,
                                     !.links[d] = (fs.links[d] + 1) % Word], d, n, i)
    /\ damaged' = (damaged \/ fs.links[d] + 1 = Word)
    /\ UNCHANGED <<faults, looped>>

\* ext_op_link.  The count is a uint16_t that nothing bounds: at the last
\* value it becomes 0 and the inode is stale under all its names.  A failure
\* to write it is ignored.  As in CREATE, a lookup that fails counts as "no
\* such name".
Link(i, d, n) ==
    /\ ValidDir(d) /\ Valid(i) /\ fs.kind[i] # "dir"
    /\ \/ /\ Lookup(d, n) = {} /\ NoFault
          /\ fs' = Entered([fs EXCEPT !.links[i] = (@ + 1) % Word], d, n, i)
          /\ damaged' = (damaged \/ fs.links[i] + 1 = Word)
       \/ /\ Lookup(d, n) = {} /\ Fault
          /\ fs' = Entered(fs, d, n, i)
          /\ damaged' = TRUE
       \/ /\ Lookup(d, n) # {} /\ Fault
          /\ fs' = Entered([fs EXCEPT !.links[i] = (@ + 1) % Word], d, n, i)
          /\ damaged' = TRUE
    /\ UNCHANGED looped

-----------------------------------------------------------------------------
(* Names that go *)

\* ext_op_remove behind its checks: the last name takes the inode with it.
RemovedFile(f, d, n, i) ==
    IF f.links[i] > 1
    THEN [Unlinked(f, d, n, i) EXCEPT !.links[i] = @ - 1]
    ELSE Freed(Unlinked(f, d, n, i), i)

\* ext_op_rmdir behind its checks.
RemovedDir(f, d, n, i) == Lessened(Freed(Unlinked(f, d, n, i), i), d)

\* ext_op_remove.  When the inode cannot be written its old count stays.
Remove(d, n) ==
    /\ ValidDir(d)
    /\ \E i \in Lookup(d, n) :
         /\ Valid(i) /\ fs.kind[i] # "dir"
         /\ \/ /\ NoFault
               /\ fs' = RemovedFile(fs, d, n, i)
               /\ UNCHANGED damaged
            \/ /\ Fault /\ fs.links[i] > 1
               /\ fs' = Unlinked(fs, d, n, i)
               /\ damaged' = TRUE
    /\ UNCHANGED looped

\* ext_op_rmdir.  The parent's count is not written when its inode fails.
Rmdir(d, n) ==
    /\ ValidDir(d)
    /\ \E i \in Lookup(d, n) :
         /\ i # Root /\ Valid(i) /\ fs.kind[i] = "dir" /\ Empty(i)
         /\ \/ /\ NoFault
               /\ fs' = RemovedDir(fs, d, n, i)
               /\ UNCHANGED damaged
            \/ /\ Fault
               /\ fs' = Freed(Unlinked(fs, d, n, i), i)
               /\ damaged' = TRUE
    /\ UNCHANGED looped

-----------------------------------------------------------------------------
(* RENAME *)

\* What ext_op_rename makes of the name it moves onto: nothing when there is
\* none, else the old target is removed as REMOVE or RMDIR would.  The empty
\* set stands for a refusal, or for a target that is the source.  The failures
\* of that removal are those of REMOVE and RMDIR above.
Cleared(i, td, tn) ==
    IF Lookup(td, tn) = {} THEN {fs}
    ELSE {RemovedFile(fs, td, tn, t) :
              t \in {x \in Lookup(td, tn) \ {i} :
                         Valid(x) /\ fs.kind[i] # "dir" /\ fs.kind[x] # "dir"}}
         \cup
         {RemovedDir(fs, td, tn, t) :
              t \in {x \in Lookup(td, tn) \ {i, Root} :
                         Valid(x) /\ fs.kind[i] = "dir" /\ fs.kind[x] = "dir"
                         /\ Empty(x)}}

Reparented_only_dotdot(f, i, fd, td) ==
    IF f.kind[i] # "dir" \/ fd = td THEN f ELSE [f EXCEPT !.up[i] = td]

\* A directory under another parent: "..", and the counts of both parents.
Reparented(f, i, fd, td) ==
    IF f.kind[i] # "dir" \/ fd = td THEN f
    ELSE [Lessened(f, fd) EXCEPT
            !.up[i] = td,
            !.links[td] = IF @ >= 2 /\ @ < DirMax THEN @ + 1 ELSE @]

Rename_unlink_first(fd, fn, td, tn) ==
    /\ ValidDir(fd) /\ ValidDir(td)
    /\ \E i \in Lookup(fd, fn) :
         /\ Valid(i)
         /\ \E c \in Cleared(i, td, tn) :
              LET gone == Unlinked(c, fd, fn, i)
              IN  \/ /\ NoFault
                     /\ fs' = Reparented(Entered(gone, td, tn, i), i, fd, td)
                  \/ /\ Fault
                     /\ fs' = gone
         /\ looped' = (looped \/ (fs.kind[i] = "dir" /\ Below(fs, i, td)))
    /\ UNCHANGED damaged

\* ext_op_rename: remove the target, enter the new name, unlink the old one,
\* then mend the directory that moved.  A failure to enter the new name has
\* cost the target; a failure to unlink leaves two names and one count; the
\* later ones are ignored.  Nothing asks whether the new parent lies below
\* the directory that is moved.
Rename(fd, fn, td, tn) ==
    /\ ValidDir(fd) /\ ValidDir(td)
    /\ \E i \in Lookup(fd, fn) :
         /\ Valid(i)
         /\ \E c \in Cleared(i, td, tn) :
              LET across == fs.kind[i] = "dir" /\ fd # td
                  both   == Entered(c, td, tn, i)
                  moved  == Unlinked(both, fd, fn, i)
                  within == looped \/ (fs.kind[i] = "dir" /\ Below(fs, i, td))
              IN  \/ /\ NoFault
                     /\ fs' = Reparented(moved, i, fd, td)
                     /\ damaged' = (damaged \/ (across /\ c.links[td] >= DirMax))
                     /\ looped' = within
                  \/ /\ Fault
                     /\ fs' = c
                     /\ UNCHANGED <<damaged, looped>>
                  \/ /\ Fault
                     /\ fs' = both
                     /\ damaged' = TRUE /\ looped' = within
                  \/ /\ Fault /\ across
                     /\ fs' \in {moved, [moved EXCEPT !.up[i] = td]}
                     /\ damaged' = TRUE /\ looped' = within

-----------------------------------------------------------------------------
\* The daemon keeps serving a damaged volume; the model does not follow it:
\* what the requests promise rests on a sound tree, and the repair is e2fsck's.
Unfollowed == damaged /\ UNCHANGED vars

Next ==
    \/ Unfollowed
    \/ /\ ~damaged
       /\ \E d \in Inodes, n \in Names :
            \/ Create(d, n)
            \/ Symlink(d, n)
            \/ Mkdir(d, n)
            \/ Remove(d, n)
            \/ Rmdir(d, n)
            \/ \E i \in Inodes : Link(i, d, n)
            \/ \E td \in Inodes, tn \in Names : Rename(d, n, td, tn)

Spec == Init /\ [][Next]_vars

-----------------------------------------------------------------------------
(* Properties *)

\* Kinds, counts, ".." and entries are those of an ext file system.
TypeOK ==
    /\ fs \in FsType
    /\ faults \in 0 .. MaxFaults
    /\ damaged \in BOOLEAN /\ looped \in BOOLEAN

NamesOf(i) == {e \in fs.ent : e[3] = i}

SubdirsOf(d) == {e \in fs.ent : e[1] = d /\ fs.kind[e[3]] = "dir"}

\* What e2fsck -fn of the tests looks for, after any sequence of requests
\* and of failures the code undoes or reports before it goes on: a name
\* leads to one inode, which is allocated; a file has as many links as
\* names; a directory but the root has one name, its ".." is where that
\* name stands, and its count is two and its subdirectories.  Damaged or
\* not, every field keeps its type and every count its width.
Consistent ==
    /\ TypeOK
    /\ ~damaged =>
        /\ \A e, g \in fs.ent : (e[1] = g[1] /\ e[2] = g[2]) => e = g
        /\ \A e \in fs.ent : fs.kind[e[1]] = "dir" /\ fs.kind[e[3]] # "free"
        /\ \A i \in Inodes :
             /\ fs.kind[i] = "file" => Cardinality(NamesOf(i)) = fs.links[i]
             /\ fs.kind[i] = "dir"  => fs.links[i] = 2 + Cardinality(SubdirsOf(i))
             /\ (fs.kind[i] = "dir" /\ i # Root) =>
                    \E e \in fs.ent : NamesOf(i) = {e} /\ fs.up[i] = e[1]

\* No request, and no failure half way through one, cuts a file or a
\* directory off: whatever is allocated is reached from the root.  The
\* exception is a directory moved below itself, which ext_op_rename allows.
Connected ==
    ~damaged /\ ~looped =>
        \A i \in Inodes : fs.kind[i] # "free" => Below(fs, Root, i)
=============================================================================

-------------------------------- MODULE Vfs --------------------------------
(***************************************************************************)
(* The virtual filesystem core and tmpfs: inodes, the dentry cache, mounts,*)
(* path resolution, the namespace operations, open, and a tmpfs file's     *)
(* pages.  Everything below runs under the big kernel lock and tmpfs never *)
(* sleeps, so a system call is one step; what is hard is that each of them *)
(* takes and drops a dozen references on its way through success and every *)
(* error return.                                                           *)
(*                                                                         *)
(* A path is a sequence of components, "/" first when it is absolute.  The *)
(* caller is root.  Running out of inodes or dentries is a failing kzalloc.*)
(***************************************************************************)
EXTENDS Integers, Sequences, FiniteSets, FiniteSetsExt

CONSTANTS
    Inodes, Dentries,   \* pools, 1 being the root's in both
    Mounts,             \* mounts, 0 being the root mount
    Files,              \* file descriptors
    VPaths,             \* VPaths[l]: the paths load l uses
    VOps,               \* VOps[l]: the system calls load l makes
    MAX_SYMLINKS, PAGE, max_pages,
    VLens               \* byte counts and file sizes of the "data" load

VARIABLES
    fs,       \* [ino, dent, mnt, used]: see NoInode, NoDentry, NoMount
    files,    \* files[f]: the open file, or NoFile
    cwd,      \* the working directory [m, d]
    vload     \* which load runs; fixed

vfs_vars == <<fs, files, cwd, vload>>

NoInode == [kind |-> "free", ref |-> 0, nlink |-> 0, ents |-> <<>>, up |-> 0,
            sb |-> 0, size |-> 0, pages |-> <<>>, to |-> <<>>, want |-> <<>>]
NoDentry == [ref |-> 0, name |-> "", up |-> 0, ino |-> 0, dead |-> FALSE,
             hashed |-> FALSE, mounted |-> 0]
NoMount == [root |-> 0, at |-> 0, up |-> 0, ro |-> FALSE]
NoFile == [m |-> 0, d |-> 0, i |-> 0, pos |-> 0, append |-> FALSE]

Without(f, x) == [y \in DOMAIN f \ {x} |-> f[y]]
With(f, x, v) == [y \in DOMAIN f \cup {x} |-> IF y = x THEN v ELSE f[y]]
KindOf(S, d) == S.ino[S.dent[d].ino].kind

(***************************************************************************)
(* Inodes and dentries                                                     *)
(***************************************************************************)
inode_get(S, i) == [S EXCEPT !.ino[i].ref = @ + 1]

\* The last reference evicts the inode: a file's pages go back to the quota
\* of its superblock, a directory's entries drop what they refer to.
RECURSIVE inode_put(_, _)
inode_put(S, i) ==
    IF S.ino[i].ref > 1 THEN [S EXCEPT !.ino[i].ref = @ - 1]
    ELSE LET gone == S.ino[i]
             T == [S EXCEPT !.ino[i] = NoInode,
                            !.used[gone.sb] = @ - Cardinality(DOMAIN gone.pages)]
         IN FoldSet(LAMBDA n, U : inode_put(U, gone.ents[n]), T, DOMAIN gone.ents)

\* new_inode and tmpfs_new_inode: [s, i], i = 0 when there is no memory.
tmpfs_new_inode(S, sb, kind) ==
    LET free == {i \in Inodes : S.ino[i].kind = "free"}
        i == IF free = {} THEN 0 ELSE Min(free)
    IN [i |-> i,
        s |-> IF i = 0 THEN S
              ELSE [S EXCEPT !.ino[i] = [NoInode EXCEPT !.kind = kind, !.ref = 1, !.sb = sb,
                                                        !.nlink = IF kind = "dir" THEN 2 ELSE 1]]]

d_get(S, d) == [S EXCEPT !.dent[d].ref = @ + 1]

\* A dentry holds its parent: the last reference may free a chain of them.
RECURSIVE d_put(_, _)
d_put(S, d) ==
    IF S.dent[d].ref > 1 THEN [S EXCEPT !.dent[d].ref = @ - 1]
    ELSE LET gone == S.dent[d]
             T == inode_put([S EXCEPT !.dent[d] = NoDentry], gone.ino)
         IN IF gone.up = 0 THEN T ELSE d_put(T, gone.up)

\* Consumes the caller's inode reference.
d_alloc(S, up, name, i) ==
    LET free == {d \in Dentries : S.dent[d].ref = 0}
        d == IF free = {} THEN 0 ELSE Min(free)
        T == [S EXCEPT !.dent[d] = [NoDentry EXCEPT !.ref = 1, !.name = name, !.up = up,
                                                    !.ino = i, !.hashed = (up # 0)]]
    IN [d |-> d,
        s |-> IF d = 0 THEN S ELSE IF up = 0 THEN T ELSE d_get(T, up)]

d_drop(S, d) == [S EXCEPT !.dent[d].hashed = FALSE, !.dent[d].dead = TRUE]

d_cached(S, dir, n) ==
    {c \in Dentries : S.dent[c].hashed /\ S.dent[c].up = dir /\ S.dent[c].name = n}

\* tmpfs_lookup and the dentry made for what it finds.
Instantiated(new, i) ==
    IF new.d = 0 THEN [r |-> "ENOMEM", s |-> inode_put(new.s, i), d |-> 0]
    ELSE [r |-> "ok", s |-> new.s, d |-> new.d]

d_lookup(S, dir, n) ==
    LET cached == d_cached(S, dir, n)
        ents == S.ino[S.dent[dir].ino].ents
    IN IF cached # {} THEN [r |-> "ok", s |-> d_get(S, Min(cached)), d |-> Min(cached)]
       ELSE IF n \notin DOMAIN ents THEN [r |-> "ENOENT", s |-> S, d |-> 0]
       ELSE Instantiated(d_alloc(inode_get(S, ents[n]), dir, n, ents[n]), ents[n])

(***************************************************************************)
(* Path resolution.  A walk returns [s, r, p, last, depth]; p stays        *)
(* referenced whatever r is.                                               *)
(***************************************************************************)
RECURSIVE follow_mounts(_, _)
follow_mounts(S, p) ==
    LET m == S.dent[p.d].mounted
        root == S.mnt[m].root
    IN IF m = 0 THEN [s |-> S, p |-> p]
       ELSE follow_mounts(d_put(d_get(S, root), p.d), [m |-> m, d |-> root])

RootPath(S) == [m |-> 0, d |-> S.mnt[0].root]

RECURSIVE follow_dotdot(_, _)
follow_dotdot(S, p) ==
    IF p = RootPath(S) THEN [s |-> S, p |-> p]
    ELSE IF p.d # S.mnt[p.m].root
    THEN [s |-> d_put(d_get(S, S.dent[p.d].up), p.d), p |-> [p EXCEPT !.d = S.dent[p.d].up]]
    ELSE follow_dotdot(d_put(d_get(S, S.mnt[p.m].at), p.d), [m |-> S.mnt[p.m].up, d |-> S.mnt[p.m].at])

Walked(S, r, p, last, depth) == [s |-> S, r |-> r, p |-> p, last |-> last, depth |-> depth]

RECURSIVE walk(_, _, _, _, _, _)

\* After the target of a symbolic link.
WalkOn(t, rest, follow, parent) ==
    IF t.r # "ok" THEN t ELSE walk(t.s, t.p, rest, follow, parent, t.depth)

\* At the component's own dentry, or the root mounted on it.
WalkFrom(c, p, rest, follow, parent, depth) ==
    LET ci == c.s.ino[c.s.dent[c.p.d].ino]
    IN IF ~(ci.kind = "lnk" /\ (rest # <<>> \/ follow))
       THEN walk(d_put(c.s, p.d), c.p, rest, follow, parent, depth)
       ELSE IF depth = MAX_SYMLINKS THEN Walked(d_put(c.s, c.p.d), "ELOOP", p, "", depth)
       ELSE WalkOn(walk(d_put(c.s, c.p.d), p, ci.to, TRUE, FALSE, depth + 1), rest, follow, parent)

WalkInto(c, p, rest, follow, parent, depth) ==
    IF c.r # "ok" THEN Walked(c.s, c.r, p, "", depth)
    ELSE WalkFrom(follow_mounts(c.s, [m |-> p.m, d |-> c.d]), p, rest, follow, parent, depth)

WalkUp(up, rest, follow, parent, depth) ==
    IF parent /\ rest = <<>> THEN Walked(up.s, "ok", up.p, ".", depth)
    ELSE walk(up.s, up.p, rest, follow, parent, depth)

walk(S, p, name, follow, parent, depth) ==
    IF name = <<>> THEN Walked(S, "ok", p, ".", depth)
    ELSE LET comp == Head(name)
             rest == Tail(name)
         IN IF comp = "/"
            THEN walk(d_get(d_put(S, p.d), S.mnt[0].root), RootPath(S), rest, follow, parent, depth)
            ELSE IF KindOf(S, p.d) # "dir" THEN Walked(S, "ENOTDIR", p, "", depth)
            ELSE IF comp = ".." THEN WalkUp(follow_dotdot(S, p), rest, follow, parent, depth)
            ELSE IF parent /\ rest = <<>> THEN Walked(S, "ok", p, comp, depth)
            ELSE IF comp = "." THEN walk(S, p, rest, follow, parent, depth)
            ELSE WalkInto(d_lookup(S, p.d, comp), p, rest, follow, parent, depth)

\* start_path: an absolute name starts at the root, another at cwd.
start_path(S, name) == IF Head(name) = "/" THEN RootPath(S) ELSE cwd

WalkPath(S, p, name, follow, parent) == walk(d_get(S, p.d), p, name, follow, parent, 0)

\* On an error the path is put.
Found(w) == IF w.r = "ok" THEN w ELSE [w EXCEPT !.s = d_put(w.s, w.p.d)]
FoundDir(w) == Found(IF w.r = "ok" /\ KindOf(w.s, w.p.d) # "dir" THEN [w EXCEPT !.r = "ENOTDIR"] ELSE w)

path_lookupat(S, name, follow) == Found(WalkPath(S, start_path(S, name), name, follow, FALSE))
path_parentat(S, name) == FoundDir(WalkPath(S, start_path(S, name), name, TRUE, TRUE))

(***************************************************************************)
(* tmpfs directories                                                       *)
(***************************************************************************)
add_entry(S, dir, n, i) == [inode_get(S, i) EXCEPT !.ino[dir].ents = With(@, n, i)]

remove_entry(S, dir, n) ==
    inode_put([S EXCEPT !.ino[dir].ents = Without(@, n)], S.ino[dir].ents[n])

\* tmpfs_create, tmpfs_mkdir and tmpfs_symlink; the caller's reference of the
\* new inode is dropped by the VFS at once.
Entered(S, i, dir, n, kind, to) ==
    inode_put(IF kind = "dir" THEN [add_entry(S, dir, n, i) EXCEPT !.ino[i].up = dir, !.ino[dir].nlink = @ + 1]
              ELSE [add_entry(S, dir, n, i) EXCEPT !.ino[i].to = to], i)

tmpfs_create(S, dir, n, kind, to) ==
    LET new == tmpfs_new_inode(S, S.ino[dir].sb, kind)
    IN IF new.i = 0 THEN S ELSE Entered(new.s, new.i, dir, n, kind, to)

tmpfs_unlink(S, dir, n, victim) == remove_entry([S EXCEPT !.ino[victim].nlink = @ - 1], dir, n)

tmpfs_rmdir(S, dir, n, victim) ==
    remove_entry([S EXCEPT !.ino[victim].nlink = 0, !.ino[dir].nlink = @ - 1], dir, n)

\* Mutant: the directory's own idea of its parent is not moved with it.
ReparentCounts(S, victim, od, nd) == [S EXCEPT !.ino[od].nlink = @ - 1, !.ino[nd].nlink = @ + 1]

\* A directory that changes parents moves a link count and its "..".
Reparent(S, victim, od, nd) ==
    [S EXCEPT !.ino[od].nlink = @ - 1, !.ino[nd].nlink = @ + 1, !.ino[victim].up = nd]

tmpfs_rename(S, od, on, nd, nn, victim, target) ==
    LET T == IF target = 0 THEN S
             ELSE IF S.ino[target].kind = "dir" THEN tmpfs_rmdir(S, nd, nn, target)
             ELSE tmpfs_unlink(S, nd, nn, target)
        U == add_entry(T, nd, nn, victim)
    IN remove_entry(IF S.ino[victim].kind = "dir" /\ od # nd THEN Reparent(U, victim, od, nd) ELSE U,
                    od, on)

tmpfs_link(S, dir, n, i) == [add_entry(S, dir, n, i) EXCEPT !.ino[i].nlink = @ + 1]

(***************************************************************************)
(* Namespace operations: what each leaves behind, error returns included   *)
(***************************************************************************)
may_create(S, p) == ~S.mnt[p.m].ro /\ ~S.dent[p.d].dead

\* vfs_mknod, vfs_mkdir and vfs_symlink, from the last component's lookup on.
MakeAt(l, q, kind, to) ==
    LET dir == l.s.dent[q.p.d].ino
    IN d_put(IF l.r = "ok" THEN d_put(l.s, l.d)
             ELSE IF ~may_create(l.s, q.p) \/ q.last \in DOMAIN l.s.ino[dir].ents THEN l.s
             ELSE tmpfs_create(l.s, dir, q.last, kind, to), q.p.d)

MakeIn(q, kind, to) ==
    IF q.r # "ok" THEN q.s
    ELSE IF q.last = "." THEN d_put(q.s, q.p.d)
    ELSE MakeAt(d_lookup(q.s, q.p.d, q.last), q, kind, to)

vfs_make(S, name, kind, to) == MakeIn(path_parentat(S, name), kind, to)

\* vfs_unlink (dir false) and vfs_rmdir (dir true).
RemoveTarget(l, q, dir) ==
    LET vi == l.s.dent[l.d].ino
        allowed == /\ (l.s.ino[vi].kind = "dir") = dir
                   /\ dir => l.s.dent[l.d].mounted = 0 /\ l.s.ino[vi].ents = <<>>
                   /\ may_create(l.s, q.p)
    IN IF ~allowed THEN l.s
       ELSE d_drop(IF dir THEN tmpfs_rmdir(l.s, l.s.dent[q.p.d].ino, q.last, vi)
                   ELSE tmpfs_unlink(l.s, l.s.dent[q.p.d].ino, q.last, vi), l.d)

RemoveAtName(l, q, dir) ==
    d_put(IF l.r # "ok" THEN l.s ELSE d_put(RemoveTarget(l, q, dir), l.d), q.p.d)

RemoveIn(q, dir) ==
    IF q.r # "ok" THEN q.s
    ELSE IF q.last = "." THEN d_put(q.s, q.p.d)
    ELSE RemoveAtName(d_lookup(q.s, q.p.d, q.last), q, dir)

vfs_remove(S, name, dir) == RemoveIn(path_parentat(S, name), dir)

RECURSIVE is_ancestor(_, _, _)
is_ancestor(S, a, d) == d # 0 /\ (d = a \/ is_ancestor(S, a, S.dent[d].up))

\* The dentry moves to its new place once the filesystem has renamed it.
MoveDentry(S, od, np, nlast) ==
    d_put(d_get([S EXCEPT !.dent[od].up = np, !.dent[od].name = nlast], np), S.dent[od].up)

\* Mutant: the name renamed over stays in the dentry cache.
RenameUndropped(S, od, nd, op, on, np, nn) ==
    MoveDentry(tmpfs_rename(S, S.dent[op].ino, on, S.dent[np].ino, nn, S.dent[od].ino,
                            IF nd = 0 THEN 0 ELSE S.dent[nd].ino), od, np, nn)

\* The rename itself, every check passed.
Rename(S, od, nd, op, on, np, nn) ==
    LET T == tmpfs_rename(S, S.dent[op].ino, on, S.dent[np].ino, nn, S.dent[od].ino,
                          IF nd = 0 THEN 0 ELSE S.dent[nd].ino)
    IN MoveDentry(IF nd = 0 THEN T ELSE d_drop(T, nd), od, np, nn)

\* Both names looked up: o the old one's dentry, n the new one's or 0.
RenameOver(n, o, op, np) ==
    LET OldDir == KindOf(n.s, o) = "dir"
        allowed == /\ n.r # "ENOMEM" /\ n.d # o
                   /\ ~(OldDir /\ is_ancestor(n.s, o, np.p.d))
                   /\ n.d # 0 => /\ OldDir = (KindOf(n.s, n.d) = "dir")
                                 /\ n.s.dent[n.d].mounted = 0
                                 /\ n.s.ino[n.s.dent[n.d].ino].ents = <<>>
    IN IF allowed THEN Rename(n.s, o, n.d, op.p.d, op.last, np.p.d, np.last) ELSE n.s

PutUnless0(S, d) == IF d = 0 THEN S ELSE d_put(S, d)
RenameTarget(n, o, op, np) == PutUnless0(d_put(RenameOver(n, o, op, np), o), n.d)

RenameSource(o, op, np) ==
    IF o.r # "ok" THEN o.s
    ELSE IF ~may_create(o.s, op.p) \/ ~may_create(o.s, np.p) THEN d_put(o.s, o.d)
    ELSE RenameTarget(d_lookup(o.s, np.p.d, np.last), o.d, op, np)

RenameBetween(np, op) ==
    IF np.r # "ok" THEN d_put(np.s, op.p.d)
    ELSE d_put(d_put(IF op.last = "." \/ np.last = "." \/ op.p.m # np.p.m THEN np.s
                     ELSE RenameSource(d_lookup(np.s, op.p.d, op.last), op, np), op.p.d), np.p.d)

RenameFrom(op, new) == IF op.r # "ok" THEN op.s ELSE RenameBetween(path_parentat(op.s, new), op)
vfs_rename(S, old, new) == RenameFrom(path_parentat(S, old), new)

LinkAt(l, t, q) ==
    IF l.r = "ok" THEN d_put(l.s, l.d)
    ELSE IF ~may_create(l.s, q.p) THEN l.s
    ELSE tmpfs_link(l.s, l.s.dent[q.p.d].ino, q.last, l.s.dent[t.p.d].ino)

LinkIn(q, t) ==
    IF q.r # "ok" THEN d_put(q.s, t.p.d)
    ELSE d_put(d_put(IF KindOf(q.s, t.p.d) = "dir" \/ t.p.m # q.p.m THEN q.s
                     ELSE LinkAt(d_lookup(q.s, q.p.d, q.last), t, q), t.p.d), q.p.d)

LinkTo(t, new) == IF t.r # "ok" THEN t.s ELSE LinkIn(path_parentat(t.s, new), t)
vfs_link(S, old, new) == LinkTo(path_lookupat(S, old, FALSE), new)

(***************************************************************************)
(* tmpfs files.  pages maps page indices to PAGE bytes; a missing page     *)
(* reads as zeros.  want is the content POSIX asks for: the specification. *)
(***************************************************************************)
ZeroBytes(n) == [k \in 1..n |-> 0]
Padded(w, n) == IF Len(w) >= n THEN w ELSE w \o ZeroBytes(n - Len(w))

\* Mutant: the tail of the last page keeps what was cut off.
truncate_pages_short(node, size) ==
    [node EXCEPT !.size = size,
                 !.pages = [p \in {q \in DOMAIN @ : q * PAGE < size} |-> @[p]]]

truncate_pages(node, size) ==
    [node EXCEPT !.size = size,
                 !.pages = [p \in {q \in DOMAIN @ : q * PAGE < size} |->
                               [k \in 1..PAGE |-> IF p * PAGE + k > size THEN 0 ELSE @[p][k]]]]

\* tmpfs_setattr with ATTR_SIZE: shrinking frees pages, growing is sparse.
tmpfs_truncate(S, i, len) ==
    LET old == S.ino[i]
        new == IF len < old.size THEN truncate_pages(old, len) ELSE [old EXCEPT !.size = len]
    IN [S EXCEPT !.ino[i] = [new EXCEPT !.want = SubSeq(Padded(old.want, len), 1, len)],
                 !.used[old.sb] = @ - Cardinality(DOMAIN old.pages) + Cardinality(DOMAIN new.pages)]

\* How many of n bytes fit: the first missing page beyond the quota stops it.
WriteRoom(S, i, pos, n) ==
    LET node == S.ino[i]
        missing == {p \in (pos \div PAGE)..((pos + n - 1) \div PAGE) : p \notin DOMAIN node.pages}
        room == max_pages - S.used[node.sb]
        over == {p \in missing : Cardinality({q \in missing : q < p}) >= room}
    IN IF over = {} THEN n ELSE Max({0, Min(over) * PAGE - pos})

\* Mutant: the size is set to where the write was meant to end.
SizeAsked(size, pos, n, done) == Max({size, pos + n})

SizeAfter(size, pos, n, done) == IF done = 0 THEN size ELSE Max({size, pos + done})

tmpfs_write(S, i, pos, n) ==
    LET done == WriteRoom(S, i, pos, n)
        node == S.ino[i]
        touched == IF done = 0 THEN {} ELSE (pos \div PAGE)..((pos + done - 1) \div PAGE)
        Byte(p, k) == IF pos < p * PAGE + k /\ p * PAGE + k <= pos + done THEN 1
                      ELSE IF p \in DOMAIN node.pages THEN node.pages[p][k] ELSE 0
    IN [S EXCEPT !.ino[i].pages = [p \in DOMAIN @ \cup touched |-> [k \in 1..PAGE |-> Byte(p, k)]],
                 !.ino[i].size = SizeAfter(@, pos, n, done),
                 !.ino[i].want = IF done = 0 THEN @ ELSE [k \in DOMAIN Padded(@, pos + done) |->
                     IF pos < k /\ k <= pos + done THEN 1 ELSE Padded(@, pos + done)[k]],
                 !.used[node.sb] = @ + Cardinality(touched \ DOMAIN node.pages)]

\* What a read of the whole file returns.
tmpfs_read(node) ==
    [k \in 1..node.size |-> LET p == (k - 1) \div PAGE
                            IN IF p \in DOMAIN node.pages THEN node.pages[p][k - p * PAGE] ELSE 0]

(***************************************************************************)
(* Open files and mounts                                                   *)
(***************************************************************************)
\* Resolve name for vfs_open: [r, s, p, created].  With O_CREAT through the
\* parent, where a missing file is made and a symbolic link walked again.
Resolved(S, r, p, created) == [r |-> r, s |-> S, p |-> p, created |-> created]

OpenMade(c, q) ==
    Resolved(d_put(c.s, q.p.d), c.r, [m |-> q.p.m, d |-> c.d], TRUE)

OpenThrough(w, q) ==
    Resolved(d_put(IF w.r = "ok" THEN w.s ELSE d_put(w.s, w.p.d), q.p.d), w.r, w.p, FALSE)

OpenExisting(f, q) ==
    IF KindOf(f.s, f.p.d) # "lnk" THEN Resolved(d_put(f.s, q.p.d), "ok", f.p, FALSE)
    ELSE OpenThrough(walk(d_get(d_put(f.s, f.p.d), q.p.d), q.p, <<q.last>>, TRUE, FALSE, 0), q)

OpenAt(l, q, excl) ==
    IF l.r = "ENOENT" /\ may_create(l.s, q.p)
    THEN OpenMade(d_lookup(tmpfs_create(l.s, l.s.dent[q.p.d].ino, q.last, "file", <<>>), q.p.d, q.last), q)
    ELSE IF l.r # "ok" THEN Resolved(d_put(l.s, q.p.d), "err", q.p, FALSE)
    ELSE IF excl THEN Resolved(d_put(d_put(l.s, l.d), q.p.d), "err", q.p, FALSE)
    ELSE OpenExisting(follow_mounts(l.s, [m |-> q.p.m, d |-> l.d]), q)

OpenIn(q, excl) ==
    IF q.r # "ok" THEN Resolved(q.s, "err", q.p, FALSE)
    ELSE IF q.last = "." THEN Resolved(d_put(q.s, q.p.d), "err", q.p, FALSE)
    ELSE OpenAt(d_lookup(q.s, q.p.d, q.last), q, excl)

OpenPlain(w) == Resolved(w.s, w.r, w.p, FALSE)

ResolveOpen(S, name, creat, excl) ==
    IF creat THEN OpenIn(path_parentat(S, name), excl) ELSE OpenPlain(path_lookupat(S, name, TRUE))

\* open_path: [s, f], f = NoFile on error; fl is a set of flags.
OpenPath(o, fl) ==
    LET i == o.s.dent[o.p.d].ino
        refused == \/ KindOf(o.s, o.p.d) = "dir" /\ "write" \in fl
                   \/ "write" \in fl /\ ~o.created /\ o.s.mnt[o.p.m].ro
        T == IF "trunc" \in fl /\ ~o.created THEN tmpfs_truncate(o.s, i, 0) ELSE o.s
    IN IF o.r # "ok" THEN [s |-> o.s, f |-> NoFile]
       ELSE IF refused THEN [s |-> d_put(o.s, o.p.d), f |-> NoFile]
       ELSE [s |-> d_put(d_get(inode_get(T, i), o.p.d), o.p.d),
             f |-> [m |-> o.p.m, d |-> o.p.d, i |-> i, pos |-> 0, append |-> "append" \in fl]]

vfs_open(S, name, fl) == OpenPath(ResolveOpen(S, name, "creat" \in fl, "excl" \in fl), fl)

\* file_put of the last reference: the inode, then the path.
__fput(S, f) == d_put(inode_put(S, f.i), f.d)

\* The new filesystem's root; the lookup's reference of the mount point is
\* kept by the mount.
MountAt(w, m, ro) ==
    LET i == tmpfs_new_inode(w.s, m, "dir")
        d == d_alloc(i.s, 0, "/", i.i)
    IN IF w.r # "ok" THEN w.s
       ELSE IF KindOf(w.s, w.p.d) # "dir" \/ i.i = 0 THEN d_put(w.s, w.p.d)
       ELSE [d.s EXCEPT !.mnt[m] = [root |-> d.d, at |-> w.p.d, up |-> w.p.m, ro |-> ro],
                        !.dent[w.p.d].mounted = m]
do_mount(S, name, m, ro) == MountAt(path_lookupat(S, name, TRUE), m, ro)

\* Mutant: a mount is busy only when a mount inside it is.
RootBusyMounts(S, m) == FALSE

\* Busy if anything besides the mount itself references the root.
RootBusy(S, m) == S.dent[S.mnt[m].root].ref > 1

Unmounted(S, m) ==
    [d_put(d_put([S EXCEPT !.dent[S.mnt[m].at].mounted = 0], S.mnt[m].at), S.mnt[m].root)
        EXCEPT !.mnt[m] = NoMount]

UmountAt(S, m, d) ==
    IF \/ m = 0 \/ d # S.mnt[m].root \/ RootBusy(S, m)
       \/ \E c \in Mounts \ {0} : S.mnt[c].root # 0 /\ S.mnt[c].up = m
    THEN S ELSE Unmounted(S, m)

UmountOf(w) == IF w.r # "ok" THEN w.s ELSE UmountAt(d_put(w.s, w.p.d), w.p.m, w.p.d)
do_umount(S, name) == UmountOf(path_lookupat(S, name, TRUE))

(***************************************************************************)
(* The system calls                                                        *)
(***************************************************************************)
Calls(op) == op \in VOps[vload]
Names == VPaths[vload]

VfsInit ==
    /\ vload \in DOMAIN VOps
    /\ fs = [ino |-> [i \in Inodes |-> IF i = 1 THEN [NoInode EXCEPT !.kind = "dir", !.ref = 1, !.nlink = 2]
                                      ELSE NoInode],
             dent |-> [d \in Dentries |-> IF d = 1 THEN [NoDentry EXCEPT !.ref = 2, !.name = "/", !.ino = 1]
                                         ELSE NoDentry],
             mnt |-> [m \in Mounts |-> IF m = 0 THEN [NoMount EXCEPT !.root = 1] ELSE NoMount],
             used |-> [m \in Mounts |-> 0]]
    /\ files = [f \in Files |-> NoFile]
    /\ cwd = [m |-> 0, d |-> 1]

sys_mknodat == \E n \in Names, k \in {"file", "dir"} :
    Calls("make") /\ fs' = vfs_make(fs, n, k, <<>>) /\ UNCHANGED <<files, cwd>>
sys_symlinkat == \E n, to \in Names :
    Calls("symlink") /\ fs' = vfs_make(fs, n, "lnk", to) /\ UNCHANGED <<files, cwd>>
sys_unlinkat == \E n \in Names, dir \in BOOLEAN :
    Calls("remove") /\ fs' = vfs_remove(fs, n, dir) /\ UNCHANGED <<files, cwd>>
sys_renameat2 == \E old, new \in Names :
    Calls("rename") /\ fs' = vfs_rename(fs, old, new) /\ UNCHANGED <<files, cwd>>
sys_linkat == \E old, new \in Names :
    Calls("link") /\ fs' = vfs_link(fs, old, new) /\ UNCHANGED <<files, cwd>>

OpenFlags == {{}, {"creat", "write", "append"}, {"creat", "excl", "write"}, {"write", "trunc"}}
sys_openat(f) == \E n \in Names, fl \in OpenFlags :
    /\ Calls("open") /\ files[f] = NoFile
    /\ \E o \in {vfs_open(fs, n, fl)} : fs' = o.s /\ files' = [files EXCEPT ![f] = o.f]
    /\ UNCHANGED cwd
sys_close(f) ==
    /\ files[f] # NoFile
    /\ fs' = __fput(fs, files[f]) /\ files' = [files EXCEPT ![f] = NoFile]
    /\ UNCHANGED cwd

sys_chdir == \E n \in Names :
    /\ Calls("chdir")
    /\ \E w \in {path_lookupat(fs, n, TRUE)} :
          IF w.r = "ok" /\ KindOf(w.s, w.p.d) = "dir"
          THEN fs' = d_put(w.s, cwd.d) /\ cwd' = w.p
          ELSE fs' = (IF w.r = "ok" THEN d_put(w.s, w.p.d) ELSE w.s) /\ UNCHANGED cwd
    /\ UNCHANGED files

sys_write(f) == \E n \in VLens \ {0} :
    /\ Calls("data") /\ files[f] # NoFile /\ fs.ino[files[f].i].kind = "file"
    /\ LET pos == IF files[f].append THEN fs.ino[files[f].i].size ELSE files[f].pos
       IN /\ pos + n <= Max(VLens) + 1
          /\ fs' = tmpfs_write(fs, files[f].i, pos, n)
          /\ files' = IF WriteRoom(fs, files[f].i, pos, n) = 0 THEN files
                      ELSE [files EXCEPT ![f].pos = pos + WriteRoom(fs, files[f].i, pos, n)]
    /\ UNCHANGED cwd
sys_ftruncate(f) == \E n \in VLens :
    /\ Calls("data") /\ files[f] # NoFile /\ fs.ino[files[f].i].kind = "file"
    /\ fs' = tmpfs_truncate(fs, files[f].i, n) /\ UNCHANGED <<files, cwd>>
generic_llseek(f) == \E n \in VLens :
    /\ Calls("data") /\ files[f] # NoFile
    /\ files' = [files EXCEPT ![f].pos = n] /\ UNCHANGED <<fs, cwd>>

sys_mount == \E n \in Names, ro \in BOOLEAN :
    /\ Calls("mount")
    /\ \E m \in {m \in Mounts : fs.mnt[m].root = 0} :
          m = Min({k \in Mounts : fs.mnt[k].root = 0}) /\ fs' = do_mount(fs, n, m, ro)
    /\ UNCHANGED <<files, cwd>>
sys_umount2 == \E n \in Names :
    Calls("mount") /\ fs' = do_umount(fs, n) /\ UNCHANGED <<files, cwd>>

VfsNext ==
    /\ UNCHANGED vload
    /\ \/ sys_mknodat \/ sys_symlinkat \/ sys_unlinkat \/ sys_renameat2 \/ sys_linkat \/ sys_chdir \/ sys_mount \/ sys_umount2
       \/ \E f \in Files : sys_openat(f) \/ sys_close(f) \/ sys_write(f) \/ sys_ftruncate(f) \/ generic_llseek(f)

(***************************************************************************)
(* Properties                                                              *)
(***************************************************************************)
LiveI == {i \in Inodes : fs.ino[i].kind # "free"}
LiveD == {d \in Dentries : fs.dent[d].ref # 0}
LiveM == {m \in Mounts : fs.mnt[m].root # 0}
Opened == {f \in Files : files[f] # NoFile}
Count(S) == Cardinality(S)
EntriesOf(i) == {e \in LiveI \X {n[Len(n)] : n \in Names} :
                    e[2] \in DOMAIN fs.ino[e[1]].ents /\ fs.ino[e[1]].ents[e[2]] = i}

\* Every reference count is the number of holders: an inode's its directory
\* entries, dentries and open files; a dentry's its children, open files,
\* the working directory, and the mounts on it and rooted at it.  Link counts
\* are the entries (and sub-directories) there are, "used" the pages there
\* are, and every holder refers to something that is alive (inode_put, d_put
\* and every error return of the namespace operations and of vfs_open).
VfsExact ==
    /\ \A i \in LiveI :
          /\ fs.ino[i].ref = Count(EntriesOf(i)) + Count({d \in LiveD : fs.dent[d].ino = i})
                             + Count({f \in Opened : files[f].i = i})
          /\ fs.ino[i].kind # "dir" => fs.ino[i].nlink = Count(EntriesOf(i))
          /\ fs.ino[i].kind = "dir" /\ fs.ino[i].nlink # 0 =>
                fs.ino[i].nlink = 2 + Count({j \in LiveI : fs.ino[j].kind = "dir" /\ \E e \in EntriesOf(j) : e[1] = i})
          /\ \A n \in DOMAIN fs.ino[i].ents : fs.ino[i].ents[n] \in LiveI
    /\ \A d \in LiveD :
          /\ fs.dent[d].ref = Count({c \in LiveD : fs.dent[c].up = d}) + Count({f \in Opened : files[f].d = d})
                             + (IF cwd.d = d THEN 1 ELSE 0)
                             + Count({m \in LiveM : fs.mnt[m].at = d}) + Count({m \in LiveM : fs.mnt[m].root = d})
          /\ fs.dent[d].ino \in LiveI /\ fs.dent[d].up \in LiveD \cup {0}
          /\ fs.ino[fs.dent[d].ino].sb \in LiveM
    /\ \A f \in Opened : files[f].d \in LiveD /\ files[f].i \in LiveI
    /\ cwd.d \in LiveD
    /\ \A m \in LiveM : /\ fs.mnt[m].root \in LiveD /\ m # 0 => fs.mnt[m].at \in LiveD
                         /\ fs.used[m] <= max_pages
                         /\ fs.used[m] = MapThenSumSet(LAMBDA i : IF fs.ino[i].sb = m THEN Count(DOMAIN fs.ino[i].pages) ELSE 0, LiveI)

\* A cached dentry agrees with the directory: one dentry per name, naming what
\* the entry names, below a directory that is not dead; a dead dentry's inode
\* has no entry under its name; a directory's ".." is the directory that
\* holds it, still alive even when the directory itself was removed; every
\* mount point knows its mount (d_lookup, d_drop, the move in vfs_rename).
CacheCoherent ==
    /\ \A d \in LiveD : fs.dent[d].up # 0 =>
          LET up == fs.dent[fs.dent[d].up]
              dir == fs.ino[up.ino]
          IN /\ fs.dent[d].hashed = ~fs.dent[d].dead
             /\ fs.dent[d].hashed => /\ ~up.dead
                                     /\ fs.dent[d].name \in DOMAIN dir.ents
                                     /\ dir.ents[fs.dent[d].name] = fs.dent[d].ino
                                     /\ d_cached(fs, fs.dent[d].up, fs.dent[d].name) = {d}
             /\ fs.ino[fs.dent[d].ino].kind = "dir" => fs.ino[fs.dent[d].ino].up = up.ino
    /\ \A d \in LiveD : fs.dent[d].mounted # 0 => fs.mnt[fs.dent[d].mounted].at = d
    /\ \A m \in LiveM \ {0} : fs.dent[fs.mnt[m].at].mounted = m

\* A read returns what was written, zeros where nothing was: partial writes at
\* the quota, truncation inside a page and sparse growth included (tmpfs_read,
\* tmpfs_write, truncate_pages).
ContentExact == \A i \in LiveI : fs.ino[i].kind = "file" => tmpfs_read(fs.ino[i]) = fs.ino[i].want

=============================================================================

------------------------------- MODULE Files -------------------------------
(***************************************************************************)
(* The parts behind a file descriptor side by side: the tree of files with *)
(* its cache, mounts and tmpfs; the FAT server; terminals.  scope is fixed *)
(* and says which; each part has loads of its own.                         *)
(***************************************************************************)
EXTENDS Vfs, Fat, Tty

VARIABLE scope

FilesPaths ==
    [names  |-> {<<"/", "a">>, <<"/", "b">>, <<"/", "a", "b">>, <<"b">>},
     mounts |-> {<<"/", "a">>, <<"/", "a", "a">>, <<"a">>, <<"..", "a">>},
     links  |-> {<<"/", "a">>, <<"b">>, <<"/", "b", "a">>},
     data   |-> {<<"/", "a">>, <<"b">>}]

FilesCalls ==
    [names  |-> {"make", "remove", "rename", "link", "chdir"},
     mounts |-> {"make", "remove", "mount", "chdir", "open"},
     links  |-> {"make", "symlink", "remove", "open"},
     data   |-> {"open", "remove", "data"}]

FatSpans == {<<0, 1>>, <<1, 2>>, <<3, 1>>}
FatCalls == [tree |-> {"mkdir", "rename"}, data |-> {"write", "setattr"},
             open |-> {"lookup", "write", "rename"}]
FatMkdirCalls == [tree |-> {"mkdir"}]

TtyKeys ==
    [line |-> {"a", "sp", "nl", "eof", "int", "erase", "kill", "werase", "lnext"},
     poll |-> {"a", "nl", "int"},
     pty  |-> {"a", "int"},
     jobs |-> {"a"}]

files_vars == <<vfs_vars, fat_vars, tty_vars, scope>>

\* A part that is not used has its first load.
FilesInit ==
    /\ VfsInit /\ FatInit /\ TtyInit
    /\ \/ scope = "vfs" /\ fload = "tree" /\ tload = "jobs"
       \/ scope = "fat" /\ vload = "names" /\ tload = "jobs"
       \/ scope = "tty" /\ vload = "names" /\ fload = "tree"

FilesNext ==
    /\ UNCHANGED scope
    /\ \/ scope = "vfs" /\ VfsNext /\ UNCHANGED <<fat_vars, tty_vars>>
       \/ scope = "fat" /\ FatNext /\ UNCHANGED <<vfs_vars, tty_vars>>
       \/ scope = "tty" /\ TtyNext /\ UNCHANGED <<vfs_vars, fat_vars>>

FilesSpec == FilesInit /\ [][FilesNext]_files_vars

(***************************************************************************)
(* The tree of files is kept: counts, cache and contents (vfs.c, tmpfs.c;  *)
(* VfsExact, CacheCoherent and ContentExact of Vfs).                       *)
(***************************************************************************)
TreeKept == VfsExact /\ CacheCoherent /\ ContentExact

(***************************************************************************)
(* The FAT volume is kept, wherever the server is killed: clusters, files  *)
(* of finished requests, numbers held by open files (fatfsd.c; FatSound,   *)
(* FilesKept and NumbersLead of Fat).                                      *)
(***************************************************************************)
FatKept == FatSound /\ FilesKept /\ NumbersLead

(***************************************************************************)
(* Terminals: buffers and sessions are consistent, and nobody sleeps on a  *)
(* terminal that has something for them (tty.c, pty.c; TtyExact and        *)
(* TtySleepersBlocked of Tty).                                             *)
(***************************************************************************)
TerminalsExact == TtyExact /\ TtySleepersBlocked
=============================================================================

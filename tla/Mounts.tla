------------------------------- MODULE Mounts -------------------------------
(***************************************************************************)
(* Mounted partitions: the commands hdop -m and hdop -s of io/hd.c and cd  *)
(* of fs/fs.c, with what ext2.c keeps for a partition in two pages: the    *)
(* stack of directories down to the current one.  A directory is listed as *)
(* a sequence of names with the directories they lead to.                  *)
(***************************************************************************)
EXTENDS Integers, Sequences, FiniteSets, SequencesExt

CONSTANTS
    Partitions, NoPart,
    FsPages, NoFsPage,      \* where page_alloc(BUDDY_RANK_8K) finds room
    Dirs, RootDir,
    Listing,                \* the subdirectories of each directory
    PrefixNames,            \* pairs of names, the first a prefix of the second
    Paths,                  \* the arguments of cd: absolute or not, and names
    MaxDepth                \* bound on the stack

ASSUME MountsAssumption ==
    /\ RootDir \in Dirs /\ NoPart \notin Partitions /\ NoFsPage \notin FsPages
    /\ MaxDepth \in Nat \ {0}

VARIABLES
    partFs, partParam,      \* fs and param of each hdpart_desc
    cursel,                 \* cursel_partition
    fsAlloc,                \* the pages in use
    curdir,                 \* dentry_buf up to curdir_idx, in each page
    remountFailed           \* history: a mounted partition failed to mount again

mountVars == <<partFs, partParam, cursel, fsAlloc, curdir, remountFailed>>

\* Mutant: a superblock that is not right keeps the pages.
FreedOnErrorNot(q, in_use) == in_use \union {q}

\* ext2_load_sb() frees its pages when the superblock is not ext2's.
FreedOnError(q, in_use) == in_use \ {q}

\* ext2_unmount() leaves fs and param as they are.
Unmounted(p) == IF partFs[p] THEN fsAlloc \ {partParam[p]} ELSE fsAlloc

MountSucceeds(p, q) ==
    /\ q \in FsPages \ Unmounted(p)
    /\ fsAlloc' = Unmounted(p) \union {q}
    /\ partParam' = [partParam EXCEPT ![p] = q]
    /\ partFs' = [partFs EXCEPT ![p] = TRUE]
    /\ curdir' = [curdir EXCEPT ![q] = <<RootDir>>]
    /\ cursel' = p
    /\ UNCHANGED remountFailed

\* No room, or no ext2 there.
MountFails(p) ==
    /\ \/ FsPages \subseteq Unmounted(p) /\ fsAlloc' = Unmounted(p)
       \/ \E q \in FsPages \ Unmounted(p) : fsAlloc' = FreedOnError(q, Unmounted(p))
    /\ remountFailed' = (remountFailed \/ partFs[p])
    /\ UNCHANGED <<partFs, partParam, cursel, curdir>>

Mount(p) == MountFails(p) \/ \E q \in FsPages : MountSucceeds(p, q)

\* hdop -s
Select(p) ==
    /\ partFs[p]
    /\ cursel' = p
    /\ UNCHANGED <<partFs, partParam, fsAlloc, curdir, remountFailed>>
-----------------------------------------------------------------------------
\* A listed name that is a prefix of the one looked for is taken for it.
NameMatches(listed, name) == listed = name \/ <<listed, name>> \in PrefixNames

\* One name of the path, all looked for in the directory that was read first.
Stepped(at, name, entries) ==
    LET found == {i \in 1 .. Len(entries) : NameMatches(entries[i][1], name)}
    IN  IF ~at.ok \/ name = "." THEN at
        ELSE IF name = ".."
        THEN [at EXCEPT !.stack = IF Len(@) > 1 THEN Front(@) ELSE @]
        ELSE IF found = {} THEN [at EXCEPT !.ok = FALSE]
        ELSE [at EXCEPT !.stack = Append(@, entries[CHOOSE i \in found :
                                                 \A j \in found : i <= j][2])]

\* ext2_changecurdir()
Cd(path) ==
    /\ cursel # NoPart
    /\ LET q     == partParam[cursel]
           start == [ok |-> TRUE,
                     stack |-> IF path.absolute THEN <<RootDir>> ELSE curdir[q]]
           end   == FoldLeft(LAMBDA at, name : Stepped(at, name, Listing[Last(curdir[q])]),
                             start, path.names)
       IN  /\ Len(end.stack) <= MaxDepth
           /\ curdir' = [curdir EXCEPT ![q] = end.stack]
    /\ UNCHANGED <<partFs, partParam, cursel, fsAlloc, remountFailed>>
-----------------------------------------------------------------------------
MountsInit ==
    /\ partFs = [p \in Partitions |-> FALSE]
    /\ partParam = [p \in Partitions |-> NoFsPage]
    /\ cursel = NoPart
    /\ fsAlloc = {}
    /\ curdir = [q \in FsPages |-> <<RootDir>>]
    /\ remountFailed = FALSE

MountsNext == (\E p \in Partitions : Mount(p) \/ Select(p)) \/ \E path \in Paths : Cd(path)

MountsSpec == MountsInit /\ [][MountsNext]_mountVars
-----------------------------------------------------------------------------
\* However often partitions are mounted, mounted again and refused: the pages
\* in use are those of the mounted partitions, one each, and the selected
\* partition is one of these, until a mounted partition fails to mount again,
\* which leaves it with pages that are free.
MountsOwnPages ==
    LET mounted == {p \in Partitions : partFs[p]}
    IN  ~remountFailed =>
          /\ fsAlloc = {partParam[p] : p \in mounted}
          /\ Cardinality(fsAlloc) = Cardinality(mounted)
          /\ cursel # NoPart => cursel \in mounted
=============================================================================

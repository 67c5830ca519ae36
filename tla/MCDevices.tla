------------------------------ MODULE MCDevices ------------------------------
(***************************************************************************)
(* The devices, the network and the file systems side by side.  What they  *)
(* share are frames, blocks and characters whose content no property tells *)
(* apart, so each behaviour exercises the component named by part.         *)
(***************************************************************************)
EXTENDS Kbd, NetStack, E1000Rx, E1000Link, Rtl8139, Upload, HdTransfer, Mounts,
        Ext2File, LineEditor, Library, Modules, TLC

VARIABLE part

\* sem_init(&kbd_sem, 0)
MCMaxTicket == [s \in WaitQueues |-> 0]

\* Two directories in the root, the name of one a prefix of the other's, and a
\* third in the first of them.
MCListing == [d \in Dirs |-> CASE d = "root" -> << <<"a", "A">>, <<"ab", "B">> >>
                                [] d = "A"    -> << <<"b", "AB">> >>
                                [] OTHER      -> <<>>]
MCPrefix  == {<<"a", "ab">>}
MCPaths   == [absolute : BOOLEAN,
              names : {<<n>> : n \in {"a", "ab", "b", "..", "."}}
                      \union {<<"a", "b">>, <<"a", "..">>, <<"..", "a">>}]

\* "acc" has the beginning of no other command; "ca" is completed by "c".
MCCommands == << <<"c", "a">>, <<"a", "c", "c">> >>

MCFile == [header |-> TRUE, syms |-> <<"export", "weak", "own">>,
           symInfo |-> "none", name |-> "m", funcs |-> {"init", "uninit"}]

\* Two modules, and files with one flaw each.
MCModFiles ==
    {[MCFile EXCEPT !.name = n] : n \in {"m", "n"}}
    \union {[MCFile EXCEPT !.header = FALSE], [MCFile EXCEPT !.syms = <<"own", "missing">>],
            [MCFile EXCEPT !.symInfo = "alloc"], [MCFile EXCEPT !.name = NoName],
            [MCFile EXCEPT !.funcs = {}], [MCFile EXCEPT !.funcs = {"init"}],
            [MCFile EXCEPT !.funcs = {"uninit"}]}

DevicesInit ==
    /\ part \in {"kbd", "stack", "rx", "link", "rtl", "upload", "hd", "mounts", "file",
                 "editor", "library", "modules"}
    /\ KbdInit /\ StackInit /\ RxRingInit /\ LinkInit /\ RtlInit /\ HdInit
    /\ MountsInit /\ EditorInit /\ ModulesInit
    /\ IF part = "upload" THEN TRUE ELSE mode = "hdwrite"
    /\ UploadInit
    /\ IF part = "file" THEN TRUE ELSE fileBlocks = 1
    /\ FileInit
    /\ IF part = "library" THEN TRUE ELSE array = [i \in {0} |-> 1] /\ call = "bsearch" /\ key = 1
    /\ LibraryInit

KbdPart ==
    /\ part = "kbd" /\ KbdNext
    /\ UNCHANGED <<stackVars, rxRingVars, linkVars, rtlVars, uploadVars, hdVars,
                   mountVars, fileVars, editorVars, libraryVars, moduleVars>>

StackPart ==
    /\ part = "stack" /\ StackNext
    /\ UNCHANGED <<allVars, rxRingVars, linkVars, rtlVars, uploadVars, hdVars,
                   mountVars, fileVars, editorVars, libraryVars, moduleVars>>

RxRingPart ==
    /\ part = "rx" /\ RxRingNext
    /\ UNCHANGED <<allVars, stackVars, linkVars, rtlVars, uploadVars, hdVars,
                   mountVars, fileVars, editorVars, libraryVars, moduleVars>>

LinkPart ==
    /\ part = "link" /\ LinkNext
    /\ UNCHANGED <<allVars, stackVars, rxRingVars, rtlVars, uploadVars, hdVars,
                   mountVars, fileVars, editorVars, libraryVars, moduleVars>>

RtlPart ==
    /\ part = "rtl" /\ RtlNext
    /\ UNCHANGED <<allVars, stackVars, rxRingVars, linkVars, uploadVars, hdVars,
                   mountVars, fileVars, editorVars, libraryVars, moduleVars>>

UploadPart ==
    /\ part = "upload" /\ UploadNext
    /\ UNCHANGED <<allVars, stackVars, rxRingVars, linkVars, rtlVars, hdVars,
                   mountVars, fileVars, editorVars, libraryVars, moduleVars>>

HdPart ==
    /\ part = "hd" /\ HdNext
    /\ UNCHANGED <<allVars, stackVars, rxRingVars, linkVars, rtlVars, uploadVars,
                   mountVars, fileVars, editorVars, libraryVars, moduleVars>>

MountsPart ==
    /\ part = "mounts" /\ MountsNext
    /\ UNCHANGED <<allVars, stackVars, rxRingVars, linkVars, rtlVars, uploadVars,
                   hdVars, fileVars, editorVars, libraryVars, moduleVars>>

FilePart ==
    /\ part = "file" /\ FileNext
    /\ UNCHANGED <<allVars, stackVars, rxRingVars, linkVars, rtlVars, uploadVars,
                   hdVars, mountVars, editorVars, libraryVars, moduleVars>>

EditorPart ==
    /\ part = "editor" /\ EditorNext
    /\ UNCHANGED <<allVars, stackVars, rxRingVars, linkVars, rtlVars, uploadVars,
                   hdVars, mountVars, fileVars, libraryVars, moduleVars>>

LibraryPart ==
    /\ part = "library" /\ LibraryNext
    /\ UNCHANGED <<allVars, stackVars, rxRingVars, linkVars, rtlVars, uploadVars,
                   hdVars, mountVars, fileVars, editorVars, moduleVars>>

ModulesPart ==
    /\ part = "modules" /\ ModulesNext
    /\ UNCHANGED <<allVars, stackVars, rxRingVars, linkVars, rtlVars, uploadVars,
                   hdVars, mountVars, fileVars, editorVars, libraryVars>>

DevicesNext ==
    /\ UNCHANGED part
    /\ \/ KbdPart \/ StackPart \/ RxRingPart \/ LinkPart \/ RtlPart \/ UploadPart
       \/ HdPart \/ MountsPart \/ FilePart \/ EditorPart \/ LibraryPart \/ ModulesPart

DevicesSpec ==
    /\ DevicesInit
    /\ [][DevicesNext]_<<part, allVars, stackVars, rxRingVars, linkVars, rtlVars, uploadVars,
                        hdVars, mountVars, fileVars, editorVars, libraryVars, moduleVars>>
=============================================================================

------------------------------- MODULE Modules -------------------------------
(***************************************************************************)
(* Loading and removing modules (core/module.c): insmod allocates a        *)
(* descriptor and pages, resolves the symbols of the file, relocates it,   *)
(* looks for its name and its functions and calls the first of these;      *)
(* rmmod undoes that.  Only the thread of the command line does either.    *)
(* A file is what the loader looks at:                                     *)
(*   header    the ELF header is that of a relocatable file                *)
(*   syms      for each symbol: "export" (of the kernel), "weak" or        *)
(*             "missing" if undefined and not exported, "own"              *)
(*   symInfo   what the sh_info of the symbol table, taken for a section,  *)
(*             points to: "none" or a section that is loaded, "alloc"      *)
(*   name      NoName if there is no section .modname                      *)
(*   funcs     the functions in .modfunc, {} if there is no such section   *)
(***************************************************************************)
EXTENDS Integers, Sequences, FiniteSets, SequencesExt

CONSTANTS
    ModFiles,           \* the files on the disk
    ModBuffs,           \* where page_alloc() finds room
    NoName

ASSUME ModulesAssumption ==
    \A f \in ModFiles :
        /\ ToSet(f.syms) \subseteq {"export", "weak", "missing", "own"}
        /\ f.symInfo \in {"none", "alloc"}
        /\ f.funcs \subseteq {"init", "uninit"}

VARIABLES
    kmodlist,           \* the descriptors in the list, the last one first
    buffsUsed,          \* the pages allocated for modules
    descsUsed,          \* how many descriptors modcache has given out
    modFate             \* "ok", "assert", or "zero": a call of address 0

moduleVars == <<kmodlist, buffsUsed, descsUsed, modFate>>

\* resolve_symb(): an undefined symbol is exported by the kernel, or weak.
\* What other modules export is not looked at.
Resolved(f) == "missing" \notin ToSet(f.syms)

\* do_relocate() meets a section with an sh_info that is not of relocations.
RelocAsserts(f) == f.header /\ Resolved(f) /\ f.symInfo = "alloc"

\* modfile_load().  That relocate_sym_32() stops at a relocation of a type it
\* does not know keeps no file from loading: its result is not looked at, and
\* the relocations are left out here.
Loads(f) == f.header /\ Resolved(f) /\ f.name # NoName /\ f.funcs # {}

NoPages == ModBuffs \subseteq buffsUsed

\* Mutant: insmod_faild only frees the descriptor.
FreedOnFailureNot(used, b) == used \union {b}

\* insmod_faild: page_free().
FreedOnFailure(used, b) == used \ {b}

\* Without pages, or when the file does not load, everything is given back.
InsmodFails(f) ==
    /\ \/ NoPages /\ UNCHANGED buffsUsed
       \/ /\ ~Loads(f) /\ ~RelocAsserts(f)
          /\ \E b \in ModBuffs \ buffsUsed : buffsUsed' = FreedOnFailure(buffsUsed, b)
    /\ UNCHANGED <<kmodlist, descsUsed, modFate>>

InsmodAsserts(f) ==
    /\ RelocAsserts(f) /\ ~NoPages
    /\ modFate' = "assert"
    /\ UNCHANGED <<kmodlist, buffsUsed, descsUsed>>

\* The value of the init function is only reported.
InsmodLoads(f) ==
    \E b \in ModBuffs \ buffsUsed :
        /\ Loads(f) /\ ~RelocAsserts(f)
        /\ buffsUsed' = buffsUsed \union {b}
        /\ descsUsed' = descsUsed + 1
        /\ IF "init" \in f.funcs
           THEN /\ kmodlist' = <<[name |-> f.name, file |-> f, modbuff |-> b]>> \o kmodlist
                /\ UNCHANGED modFate
           ELSE modFate' = "zero" /\ UNCHANGED kmodlist

Insmod(f) == InsmodFails(f) \/ InsmodAsserts(f) \/ InsmodLoads(f)

Named(n) == {i \in DOMAIN kmodlist : kmodlist[i].name = n}

\* rmmod: the first module of that name; its uninit function is called.
Rmmod(n) ==
    /\ Named(n) # {}
    /\ LET i == CHOOSE k \in Named(n) : \A j \in Named(n) : k <= j
       IN  IF "uninit" \notin kmodlist[i].file.funcs
           THEN modFate' = "zero" /\ UNCHANGED <<kmodlist, buffsUsed, descsUsed>>
           ELSE /\ kmodlist' = RemoveAt(kmodlist, i)
                /\ buffsUsed' = buffsUsed \ {kmodlist[i].modbuff}
                /\ descsUsed' = descsUsed - 1
                /\ UNCHANGED modFate

ModulesInit == kmodlist = <<>> /\ buffsUsed = {} /\ descsUsed = 0 /\ modFate = "ok"

ModulesNext ==
    /\ modFate = "ok"
    /\ \E f \in ModFiles : Insmod(f) \/ Rmmod(f.name)

ModulesSpec == ModulesInit /\ [][ModulesNext]_moduleVars
-----------------------------------------------------------------------------
\* Whatever is loaded, refused, loaded twice and removed in whatever order,
\* while no call of address 0 and no assertion has stopped the machine: pages
\* and descriptors in use are those of the listed modules, one each.
ModulesAccounted ==
    modFate = "ok" =>
        /\ buffsUsed = {m.modbuff : m \in ToSet(kmodlist)}
        /\ Cardinality(buffsUsed) = Len(kmodlist) /\ descsUsed = Len(kmodlist)
=============================================================================

------------------------------- MODULE Link -------------------------------
(***************************************************************************)
(* The manifests of create_manifest_file and the linker, link_program, of  *)
(* verifast.ml. A verified source file has a manifest: the functions it    *)
(* requires and provides, the structures and predicates it gives a body,   *)
(* the modules it imports and the module it produces. The linker reads the *)
(* manifests of the files given, in order; it may write the manifest of a  *)
(* DLL, which a later link reads. A symbol stands for a rebased path with  *)
(* a name; the search for a manifest file is whether there is one.         *)
(***************************************************************************)
EXTENDS Naturals, FiniteSets, Sequences

CONSTANTS
  Source,    \* verified source files
  Unit,      \* [Source -> what the verifier collected for the file]
  Dll,       \* names of DLLs (paths that end in .dll.vfmanifest)
  Export,    \* export manifests, sequences of lines
  MainTypes, \* [Source -> the symbols main() and main_full(its module name)]
  LocalDecl, \* structure and predicate declarations in a .c file
  Arguments, \* sequences of source files and DLLs that are linked
  MaxLinks   \* bound: calls of link_program

(* The .structure or .predicate lines of a source file, by their command. *)
Bodies(command, s) ==
  IF command = ".structure" THEN Unit[s].structures_defined
  ELSE Unit[s].nonabstract_predicates

Delayable == {".structure", ".predicate"}

(* A path names a source file or a DLL. What the verifier collects of a     *)
(* file is finite, and a file gives a declaration one body ("Duplicate      *)
(* struct name", "Duplicate predicate name"); what is declared in a .c file *)
(* has its body in that file.                                               *)
ASSUME LinkAssumption ==
  /\ Source \intersect Dll = {} /\ "none" \notin Dll
  /\ Arguments \subseteq Seq(Source \union Dll)
  /\ Export \subseteq Seq(UNION {{e[k] : k \in DOMAIN e} : e \in Export})
  /\ \A s \in Source :
       /\ \A S \in {Unit[s].prototypes_used, Unit[s].prototypes_implemented,
                    Unit[s].functypes_implemented, Unit[s].modules_imported,
                    Bodies(".structure", s), Bodies(".predicate", s)} : IsFiniteSet(S)
       /\ \A c \in Delayable : \A d, e \in Bodies(c, s) : d[1] = e[1] => d[2] = e[2]
  /\ \A c \in Delayable : \A s, t \in Source :
       \A d \in Bodies(c, s), e \in Bodies(c, t) :
         d[1] = e[1] /\ d[1] \in LocalDecl => d[2] = e[2]

(* The members of a finite set, in some order. *)
Listed(S) ==
  CHOOSE f \in [1..Cardinality(S) -> S] : \A x \in S : \E k \in DOMAIN f : f[k] = x

Final(s) == s[Len(s)]
Reversed(s) == [k \in 1..Len(s) |-> s[Len(s) + 1 - k]]
Members(s) == {s[k] : k \in 1..Len(s)}

(* A line, with the file of the definition for a structure or a predicate. *)
NoDef == ""
Line(command, symbol, def) == [command |-> command, symbol |-> symbol, def |-> def]

LinesOf(command, symbols) ==
  Listed({Line(command, s, NoDef) : s \in symbols})

DefLinesOf(command, defs) ==
  Listed({Line(command, d[1], d[2]) : d \in defs})

create_manifest_file(u) ==
  LinesOf(".requires", u.prototypes_used) \o LinesOf(".provides", u.prototypes_implemented)
  \o DefLinesOf(".structure", u.structures_defined)
  \o DefLinesOf(".predicate", u.nonabstract_predicates)
  \o LinesOf(".provides", u.functypes_implemented)
  \o LinesOf(".imports", u.modules_imported) \o <<Line(".produces", u.module_name, NoDef)>>

VARIABLES
  dlls,         \* the DLL manifests on disk: [a subset of Dll -> lines]
  contents,     \* ghost: the source files each DLL was made of
  cmd,          \* the arguments of the link in progress
  phase,        \* "idle", "modules", "lines", "exports", "emit"
  modulepaths,  \* files still to read
  manifest_path, lines,         \* manifest being read, lines still to read
  impls, structs, preds, mods,  \* association lists, head first
  structs0, preds0,             \* structs and preds when the manifest was begun
  errors,       \* whether link_error was called
  result,       \* of the last link: "none", "linked" or "failed"
  links         \* number of links so far

tables == <<impls, structs, preds, mods>>
vars == <<dlls, contents, cmd, phase, modulepaths, manifest_path, lines, tables,
          structs0, preds0, errors, result, links>>

NoCmd == [paths |-> <<>>, isLibrary |-> TRUE, dllManifest |-> "none", exports |-> <<>>]

Init ==
  /\ dlls = <<>> /\ contents = <<>>
  /\ cmd = NoCmd /\ phase = "idle" /\ modulepaths = <<>>
  /\ manifest_path = "" /\ lines = <<>>
  /\ impls = <<>> /\ structs = <<>> /\ preds = <<>> /\ mods = <<>>
  /\ structs0 = <<>> /\ preds0 = <<>>
  /\ errors = FALSE /\ result = "none" /\ links = 0

Keys(s) == {s[k][1] : k \in DOMAIN s}
Assoc(s, x) == s[CHOOSE k \in DOMAIN s : s[k][1] = x /\ \A j \in 1..(k - 1) : s[j][1] # x]

(* Mutant: the module stays available. *)
ConsumeKeeps(s, x) == s

(* consume: without the first binding of x. *)
Consume(s, x) ==
  LET k == CHOOSE k \in DOMAIN s : s[k][1] = x /\ \A j \in 1..(k - 1) : s[j][1] # x
  IN  IF x \in Keys(s) THEN Reversed(SubSeq(s, 1, k - 1)) \o SubSeq(s, k + 1, Len(s))
      ELSE Reversed(s)

Fail == phase' = "idle" /\ result' = "failed"

-----------------------------------------------------------------------------
(* verifast [-shared] [-emit_dll_vfmanifest_as out] [-export e] paths *)
StartLink(paths, isLibrary, out, exports) ==
  /\ phase = "idle" /\ links < MaxLinks
  /\ out \notin DOMAIN dlls
  /\ cmd' = [paths |-> paths, isLibrary |-> isLibrary, dllManifest |-> out, exports |-> exports]
  /\ phase' = "modules" /\ modulepaths' = paths
  /\ impls' = <<>> /\ structs' = <<>> /\ preds' = <<>> /\ mods' = <<>>
  /\ errors' = FALSE /\ result' = "none" /\ links' = links + 1
  /\ UNCHANGED <<dlls, contents, manifest_path, lines, structs0, preds0>>

(* The manifest generated in this run, or read from disk. *)
ReadManifest ==
  /\ phase = "modules" /\ modulepaths # <<>>
  /\ manifest_path' = Head(modulepaths) /\ modulepaths' = Tail(modulepaths)
  /\ structs0' = structs /\ preds0' = preds
  /\ IF manifest_path' \in Source
       THEN /\ lines' = create_manifest_file(Unit[manifest_path'])
            /\ phase' = "lines" /\ UNCHANGED result
       ELSE IF manifest_path' \in DOMAIN dlls
       THEN /\ lines' = dlls[manifest_path']
            /\ phase' = "lines" /\ UNCHANGED result
       ELSE Fail /\ UNCHANGED lines
  /\ UNCHANGED <<dlls, contents, cmd, tables, errors, links>>

(* Mutant: a body given twice is accepted. *)
DelayedUnchecked(table, table0, l) ==
  IF l.symbol \in Keys(table0)
    THEN [table |-> table, error |-> FALSE]
    ELSE [table |-> <<<<l.symbol, l.def, manifest_path>>>> \o table, error |-> FALSE]

(* A .structure or .predicate line: a second body is an error, unless it is *)
(* the one of the same file.                                                *)
Delayed(table, table0, l) ==
  IF l.symbol \in Keys(table0)
    THEN [table |-> table, error |-> Assoc(table0, l.symbol)[2] # l.def]
    ELSE [table |-> <<<<l.symbol, l.def, manifest_path>>>> \o table, error |-> FALSE]

Provides(l) ==
  /\ impls' = <<<<l.symbol, manifest_path>>>> \o impls
  /\ errors' = (errors \/ l.symbol \in Keys(impls))
  /\ UNCHANGED <<structs, preds, mods>>

ManifestLine(l) ==
  CASE l.command = ".structure" ->
         LET r == Delayed(structs, structs0, l) IN
         /\ structs' = r.table /\ errors' = (errors \/ r.error)
         /\ UNCHANGED <<impls, preds, mods>>
    [] l.command = ".predicate" ->
         LET r == Delayed(preds, preds0, l) IN
         /\ preds' = r.table /\ errors' = (errors \/ r.error)
         /\ UNCHANGED <<impls, structs, mods>>
    [] l.command = ".provides" -> Provides(l)
    [] l.command = ".requires" ->
         /\ errors' = (errors \/ l.symbol \notin Keys(impls))
         /\ UNCHANGED tables
    [] l.command = ".produces" ->
         /\ mods' = <<<<l.symbol, manifest_path>>>> \o mods
         /\ UNCHANGED <<errors, impls, structs, preds>>
    [] l.command = ".imports" ->
         /\ mods' = Consume(mods, l.symbol)
         /\ errors' = (errors \/ l.symbol \notin Keys(mods))
         /\ UNCHANGED <<impls, structs, preds>>

LinkLine ==
  /\ phase = "lines" /\ lines # <<>>
  /\ ManifestLine(Head(lines))
  /\ lines' = Tail(lines)
  /\ UNCHANGED <<dlls, contents, cmd, phase, modulepaths, manifest_path,
                 structs0, preds0, result, links>>

EndManifest ==
  /\ phase = "lines" /\ lines = <<>>
  /\ phase' = "modules"
  /\ UNCHANGED <<dlls, contents, cmd, modulepaths, manifest_path, lines, tables,
                 structs0, preds0, errors, result, links>>

CheckMain ==
  LET main == Unit[Final(cmd.paths)].module_name IN
  /\ errors' = (errors \/ MainTypes[Final(cmd.paths)] \intersect Keys(impls) = {} \/ main \notin Keys(mods))
  /\ mods' = Consume(mods, main)

(* The check for main, check_errors, and on to the export manifests. *)
CheckProgram ==
  /\ phase = "modules" /\ modulepaths = <<>>
  /\ IF cmd.isLibrary THEN UNCHANGED <<errors, mods>> ELSE CheckMain
  /\ IF errors' THEN Fail /\ UNCHANGED lines
     ELSE phase' = "exports" /\ lines' = cmd.exports /\ UNCHANGED result
  /\ UNCHANGED <<dlls, contents, cmd, modulepaths, manifest_path, impls, structs,
                 preds, structs0, preds0, links>>

(* A line of an export manifest. An unsatisfied .produces calls link_error, *)
(* but check_errors has been called already.                                *)
ExportLine ==
  /\ phase = "exports" /\ lines # <<>>
  /\ LET l == Head(lines) IN
     IF l.command = ".provides"
       THEN /\ UNCHANGED <<errors, mods>>
            /\ IF l.symbol \in Keys(impls) THEN UNCHANGED <<phase, result>> ELSE Fail
       ELSE /\ errors' = (errors \/ l.symbol \notin Keys(mods))
            /\ mods' = Consume(mods, l.symbol)
            /\ UNCHANGED <<phase, result>>
  /\ lines' = Tail(lines)
  /\ UNCHANGED <<dlls, contents, cmd, modulepaths, manifest_path, impls, structs,
                 preds, structs0, preds0, links>>

EndExports ==
  /\ phase = "exports" /\ lines = <<>>
  /\ IF cmd.dllManifest = "none" THEN phase' = "idle" /\ result' = "linked"
     ELSE phase' = "emit" /\ UNCHANGED result
  /\ UNCHANGED <<dlls, contents, cmd, modulepaths, manifest_path, lines, tables,
                 structs0, preds0, errors, links>>

(* Mutant: functions of other DLLs are listed as the DLL's own. *)
print_as_provides(e) == Line(".provides", e[1], NoDef)

print_requires_or_provides(e) ==
  Line(IF e[2] \in Dll THEN ".requires" ELSE ".provides", e[1], NoDef)

(* The order of these lines makes no difference to a link that reads them:  *)
(* Delayed looks in the table as it was before the manifest.                *)
print_if_necesarry(label, table) ==
  LET necessary(e) == e[3] \notin Dll \/ e[1] \notin LocalDecl IN
  DefLinesOf(label, {e \in Members(table) : necessary(e)})

print_module(e) == Line(IF e[2] \in Dll THEN ".imports" ELSE ".produces", e[1], NoDef)

EmitDllManifest ==
  /\ phase = "emit"
  /\ LET ls == [k \in DOMAIN impls |-> print_requires_or_provides(impls[k])]
               \o print_if_necesarry(".structure", structs)
               \o print_if_necesarry(".predicate", preds)
               \o [k \in DOMAIN mods |-> print_module(mods[k])]
         own == Members(cmd.paths) \intersect Source
     IN /\ dlls' = [d \in DOMAIN dlls \union {cmd.dllManifest} |->
                      IF d = cmd.dllManifest THEN ls ELSE dlls[d]]
        /\ contents' = [d \in DOMAIN dlls' |->
                      IF d = cmd.dllManifest THEN own ELSE contents[d]]
  /\ phase' = "idle" /\ result' = "linked"
  /\ UNCHANGED <<cmd, modulepaths, manifest_path, lines, tables, structs0, preds0,
                 errors, links>>

Commands ==
  {[paths |-> p, isLibrary |-> i, dllManifest |-> d, exports |-> e] :
     p \in Arguments, i \in BOOLEAN, d \in Dll \union {"none"}, e \in Export \union {<<>>}}

(* The main file of a program is a source file; a link that writes no DLL   *)
(* manifest builds a program.                                               *)
Next ==
  \/ \E c \in Commands :
       /\ c.isLibrary <=> c.dllManifest # "none"
       /\ ~c.isLibrary => Final(c.paths) \in Source
       /\ StartLink(c.paths, c.isLibrary, c.dllManifest, c.exports)
  \/ ReadManifest \/ LinkLine \/ EndManifest
  \/ CheckProgram \/ ExportLine \/ EndExports \/ EmitDllManifest

Spec == Init /\ [][Next]_vars

-----------------------------------------------------------------------------
(* Properties of a program, by the source files in it. *)

Contents(path) == IF path \in Source THEN {path} ELSE contents[path]
Program == UNION {Contents(p) : p \in Members(cmd.paths)}
LinkedProgram == result = "linked" /\ ~cmd.isLibrary
Implements(f, s) == f \in Unit[s].prototypes_implemented \union Unit[s].functypes_implemented
Position(s) == CHOOSE k \in DOMAIN cmd.paths : s \in Contents(cmd.paths[k])

(* .requires and .provides: in a program that links, also one that links    *)
(* DLLs and DLLs made with other DLLs, every function a source file uses is *)
(* implemented by exactly one source file of the program, which does not    *)
(* come after it: calls across files cannot be circular.                    *)
RequirementsMet ==
  LinkedProgram =>
    \A s \in Program, f \in UNION {Unit[t].prototypes_used : t \in Source} :
      f \in Unit[s].prototypes_used =>
        \E t \in Program : /\ Implements(f, t) /\ Position(t) <= Position(s)
                           /\ \A u \in Program : Implements(f, u) => u = t

(* .structure and .predicate: in a program that links, no declaration is    *)
(* given a body by two definitions in different files.                      *)
OneBody ==
  LinkedProgram =>
    \A c \in Delayable : \A s, t \in Program :
      \A d \in Bodies(c, s), e \in Bodies(c, t) : d[1] = e[1] => d[2] = e[2]

(* .produces and .imports: the initial state of a module is owned once. In  *)
(* a program that links, a module that is imported is imported by one file  *)
(* only and comes from one in the program, and nobody imports the main      *)
(* module.                                                                  *)
ImportedOnce ==
  LinkedProgram =>
    \A s \in Program : \A m \in Unit[s].modules_imported :
      /\ \A t \in Program : m \in Unit[t].modules_imported => t = s
      /\ \E t \in Program : Unit[t].module_name = m
      /\ m # Unit[Final(cmd.paths)].module_name

(* The same for the programs that use no DLL.                               *)
SourcesImportedOnce == Members(cmd.paths) \subseteq Source => ImportedOnce
=============================================================================

------------------------------ MODULE MCLink ------------------------------
(* A sub-module, a module that imports it, two clients, the second of which  *)
(* imports the sub-module too, and a file that clashes with the modules.     *)
EXTENDS Link, SequencesExt

(* The DLLs are interchangeable. *)
DllSymmetry == Permutations(Dll)

U(used, implemented, functypes, structures, predicates, imported, name) ==
  [prototypes_used |-> used, prototypes_implemented |-> implemented,
   functypes_implemented |-> functypes, structures_defined |-> structures,
   nonabstract_predicates |-> predicates, modules_imported |-> imported,
   module_name |-> name]

MCUnit ==
  [sub |-> U({}, {"f"}, {}, {<<"s.h#s", "sub.c">>}, {<<"p.h#p", "p.h">>}, {}, "sub"),
   my |-> U({"f"}, {"g"}, {}, {}, {<<"p.h#p", "p.h">>, <<"my.c#q", "my.c">>}, {"sub"}, "my"),
   twin |-> U({}, {"g"}, {}, {<<"s.h#s", "twin.c">>}, {<<"p.h#p", "twin.c">>}, {}, "my"),
   client |-> U({"g"}, {}, {"main_full(client)"}, {}, {}, {"my"}, "client"),
   fail |-> U({"f", "g"}, {}, {"main"}, {}, {}, {"my", "sub"}, "fail")]
MCSource == DOMAIN MCUnit

Lists(S) == {s \in SeqOf(S, 3) : s # <<>> /\ IsInjective(s)}
MCArguments ==
  {s \in Lists((MCSource \ {"fail"}) \union Dll) : "client" \notin Range(Front(s))}
  \union {<<"sub", "my", "fail">>}

(* The files of examples/module_imports: fail_client imports both modules. *)
MCFailUnit ==
  [mysubmodule |-> U({}, {"f"}, {}, {}, {}, {}, "mysubmodule"),
   mymodule |-> U({"f"}, {"g"}, {}, {}, {}, {"mysubmodule"}, "mymodule"),
   fail_client |-> U({"f", "g"}, {}, {"main"}, {}, {}, {"mymodule", "mysubmodule"},
                     "fail_client")]
MCFailSource == DOMAIN MCFailUnit
MCFailArguments == Lists(MCFailSource \union Dll)

MCMainTypes == [s \in MCSource |-> {"main"} \union (IF s = "client" THEN {"main_full(client)"} ELSE {})]
MCFailMainTypes == [s \in MCFailSource |-> {"main"}]

MCExport == {<<Line(".provides", "g", NoDef), Line(".produces", "my", NoDef)>>}
MCNoExport == {}
=============================================================================

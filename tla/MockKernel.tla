----------------------------- MODULE MockKernel -----------------------------
(* examples/MockKernel: a server whose connections load modules (DLLs), use   *)
(* their devices and unload them.  kernelLock guards the lists of modules and *)
(* devices; libraries.c has a critical section of its own, which the thread   *)
(* that owns it may enter again.  A module registers one device, as           *)
(* AdderModule.c does.  Not modelled: abort() for want of memory or of a DLL  *)
(* of that name, and what the menus print.                                    *)
EXTENDS Naturals, FiniteSets

CONSTANTS Connections, Libraries, Modules, \* Modules: addresses of struct module
          None

VARIABLES
  kernelLock,           \* the connection that holds it, or None
  loaderLock,           \* whether the critical section exists
  owner, leaked,        \* who is in it; whether the owner can ever leave it
  references, fresh,    \* the loader's: count of a DLL, initial values in its globals
  loadedLibs,
  modules, library,     \* the list of modules, and m->library
  ref_count, allocated,
  directory,            \* the owners of the registered devices
  device,               \* the static variable adderDevice of a DLL
  name, m, pc           \* of a connection: its argument and its module

vars == <<kernelLock, loaderLock, owner, leaked, references, fresh, loadedLibs,
          modules, library, ref_count, allocated, directory, device, name, m, pc>>
loader == <<loaderLock, owner, leaked, references, fresh, loadedLibs>>
kernel == <<modules, library, ref_count, allocated, directory, device>>

Init ==
  /\ kernelLock = None /\ loaderLock = FALSE
  /\ owner = None /\ leaked = FALSE
  /\ references = [l \in Libraries |-> 0] /\ fresh = [l \in Libraries |-> FALSE]
  /\ loadedLibs = {} /\ modules = {} /\ library = [x \in Modules |-> None]
  /\ ref_count = [x \in Modules |-> 0] /\ allocated = {} /\ directory = {}
  /\ device = [l \in Libraries |-> None]
  /\ name = [c \in Connections |-> None] /\ m = [c \in Connections |-> None]
  /\ pc = [c \in Connections |-> "closed"]

Goto(c, from, to) == pc[c] = from /\ pc' = [pc EXCEPT ![c] = to]

\* back to the menu: the locals are gone
Back(c, from) == /\ Goto(c, from, "menu")
                 /\ name' = [name EXCEPT ![c] = None]
                 /\ m' = [m EXCEPT ![c] = None]

\* server_socket_accept, and choice 0
Accept(c) == /\ \/ Goto(c, "closed", "menu")
                \/ Goto(c, "choose", "closed")
             /\ UNCHANGED <<kernelLock, loader, kernel, name, m>>

\* the lists are shown under kernelLock
Show(c) == /\ Goto(c, "menu", "choose") /\ kernelLock = None
           /\ UNCHANGED <<kernelLock, loader, kernel, name, m>>

----------------------------------------------------------------------------
(* load_library *)

\* LoadLibrary maps a DLL that is not mapped yet
LoadLibrary(c, l) ==
  /\ Goto(c, "choose", "fetch")
  /\ name' = [name EXCEPT ![c] = l]
  /\ references' = [references EXCEPT ![l] = @ + 1]
  /\ fresh' = [fresh EXCEPT ![l] = @ \/ references[l] = 0]
  /\ UNCHANGED <<kernelLock, loaderLock, owner, leaked, loadedLibs, kernel, m>>

\* lock = loaderLock; when it is null the critical section is made
FetchLock(c) ==
  /\ Goto(c, "fetch", IF loaderLock THEN "enter" ELSE "create")
  /\ UNCHANGED <<kernelLock, loader, kernel, name, m>>

\* InterlockedCompareExchangePointer: all threads come to use the same one
CreateLock(c) ==
  /\ Goto(c, "create", "enter")
  /\ loaderLock' = TRUE
  /\ UNCHANGED <<kernelLock, owner, leaked, references, fresh, loadedLibs, kernel, name, m>>

MayEnter(c) == owner \in {None, c}

\* the owner after LeaveCriticalSection
Left == IF leaked THEN owner ELSE None

Search(c) ==
  /\ MayEnter(c)
  /\ \/ /\ name[c] \in loadedLibs
        /\ Goto(c, "enter", "reject") /\ owner' = c
        /\ UNCHANGED loadedLibs
     \/ /\ name[c] \notin loadedLibs
        /\ Goto(c, "enter", "loaded") /\ owner' = Left
        /\ loadedLibs' = loadedLibs \cup {name[c]}
  /\ UNCHANGED <<kernelLock, loaderLock, leaked, references, fresh, kernel, name, m>>

\* FreeLibrary(result); return 0: without LeaveCriticalSection
Reject(c) ==
  /\ Back(c, "reject")
  /\ references' = [references EXCEPT ![name[c]] = @ - 1]
  /\ leaked' = TRUE
  /\ UNCHANGED <<kernelLock, loaderLock, owner, fresh, loadedLibs, kernel>>

\* init(m), which registers the device, and m is put in the list
InitModule(c) ==
  /\ Back(c, "loaded") /\ kernelLock = None
  /\ \E x \in Modules \ allocated :
       /\ allocated' = allocated \cup {x}
       /\ library' = [library EXCEPT ![x] = name[c]]
       /\ ref_count' = [ref_count EXCEPT ![x] = 1]
       /\ device' = [device EXCEPT ![name[c]] = x]
       /\ directory' = directory \cup {x}
       /\ modules' = modules \cup {x}
  /\ fresh' = [fresh EXCEPT ![name[c]] = FALSE]
  /\ UNCHANGED <<kernelLock, loaderLock, owner, leaked, references, loadedLibs>>

----------------------------------------------------------------------------
(* Unloading *)

Named(l) == {x \in modules : library[x] = l}

\* mutant: the references of open devices are not looked at
Unused_unchecked(x) == TRUE
Unused(x) == ref_count[x] = 1

\* no such module, or module is in use
Refuse(c, l) ==
  /\ Goto(c, "choose", "menu") /\ kernelLock = None
  /\ Named(l) = {} \/ \E x \in Named(l) : ~Unused(x)
  /\ UNCHANGED <<kernelLock, loader, kernel, name, m>>

\* dispose(m) unregisters the device; kernelLock stays held
Unload(c, l) ==
  /\ Goto(c, "choose", "unload") /\ kernelLock = None
  /\ \E x \in Named(l) :
       /\ Unused(x)
       /\ m' = [m EXCEPT ![c] = x]
       /\ modules' = modules \ {x}
       /\ directory' = directory \ {device[l]}
  /\ name' = [name EXCEPT ![c] = l]
  /\ kernelLock' = c
  /\ UNCHANGED <<loader, library, ref_count, allocated, device>>

\* library_free: FreeLibrary first, and then the list
FreeLibrary(c) ==
  /\ Goto(c, "unload", "remove")
  /\ references' = [references EXCEPT ![name[c]] = @ - 1]
  /\ UNCHANGED <<kernelLock, loaderLock, owner, leaked, fresh, loadedLibs, kernel, name, m>>

Remove(c) ==
  /\ Back(c, "remove") /\ MayEnter(c)
  /\ loadedLibs' = loadedLibs \ {name[c]}
  /\ owner' = Left
  /\ allocated' = allocated \ {m[c]}
  /\ library' = [library EXCEPT ![m[c]] = None]
  /\ kernelLock' = None
  /\ UNCHANGED <<loaderLock, leaked, references, fresh, modules, ref_count, directory, device>>

----------------------------------------------------------------------------
(* Devices *)

\* "No such device", or d->owner->ref_count is incremented
Open(c, l) ==
  /\ kernelLock = None
  /\ \/ /\ \A d \in directory : library[d] # l
        /\ Goto(c, "choose", "menu") /\ UNCHANGED <<ref_count, m>>
     \/ \E d \in directory :
          /\ library[d] = l
          /\ Goto(c, "choose", "use")
          /\ ref_count' = [ref_count EXCEPT ![d] = @ + 1]
          /\ m' = [m EXCEPT ![c] = d]
  /\ UNCHANGED <<kernelLock, loader, modules, library, allocated, directory, device, name>>

\* use_device has returned
Close(c) ==
  /\ Back(c, "use") /\ kernelLock = None
  /\ ref_count' = [ref_count EXCEPT ![m[c]] = @ - 1]
  /\ UNCHANGED <<kernelLock, loader, modules, library, allocated, directory, device>>

handle_connection(c) ==
  \/ Accept(c) \/ Show(c)
  \/ \E l \in Libraries : LoadLibrary(c, l) \/ Refuse(c, l) \/ Unload(c, l) \/ Open(c, l)
  \/ FetchLock(c) \/ CreateLock(c) \/ Search(c) \/ Reject(c) \/ InitModule(c)
  \/ FreeLibrary(c) \/ Remove(c)
  \/ Close(c)

Next == \E c \in Connections : handle_connection(c)

Spec == Init /\ [][Next]_vars

----------------------------------------------------------------------------
\* every connection waits for a lock
Stuck == \A c \in Connections :
           \/ pc[c] \in {"menu", "loaded", "use"} /\ kernelLock # None
           \/ pc[c] \in {"enter", "remove"} /\ ~MayEnter(c)

\* no code or data that was unloaded or freed is used
Safe ==
  /\ \A x \in modules : /\ x \in allocated /\ references[library[x]] > 0
                        /\ device[library[x]] \in directory
  /\ \A x \in directory : x \in allocated /\ references[library[x]] > 0
  /\ \A c \in Connections :
       /\ pc[c] = "use" => m[c] \in directory
       /\ pc[c] \in {"loaded", "unload"} => references[name[c]] > 0
       /\ pc[c] = "remove" => name[c] \in loadedLibs

(* libraries.h: a module that load_library returns has its global variables   *)
(* at their initial values ("module(mainModule, true)"), on which             *)
(* module_init relies: AdderModule.c does not set acc.                        *)
FreshModules == \A c \in Connections : pc[c] = "loaded" => fresh[name[c]]
=============================================================================

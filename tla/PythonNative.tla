----------------------------- MODULE PythonNative -----------------------------
(***************************************************************************)
(* The calls of the Python binding (pkg/python/src/livekit_server/         *)
(* _native.py): the default library, loaded by the first call that needs   *)
(* it, and invoke.  A call holds a reference to its library, so what       *)
(* HostInvoke calls a lease needs no count of its own.                     *)
(*                                                                         *)
(* A NativeLibrary is named by the call that loaded it.                    *)
(***************************************************************************)
EXTENDS HostInvoke

VARIABLES default_lock, \* the call that holds _default_lock
          default,      \* _default
          library       \* the default library a call was given

libraryVars == <<default_lock, default, library>>
vars == <<callVars, libraryVars>>

LibraryInit == /\ default_lock = None /\ default = None
               /\ library = [c \in Calls |-> None]

Init == CallInit /\ LibraryInit

-------------------------------------------------------------------------------
\* get_native

Invoke(c, p) == Enter(c, p) /\ UNCHANGED libraryVars

\* The application passed a library of its own.
GivenLibrary(c) == TakeLease(c) /\ UNCHANGED libraryVars

Acquire(c) ==
  /\ Goto(c, "entered", "locked")
  /\ default_lock = None /\ default_lock' = c
  /\ UNCHANGED <<parent, failure, result, heap, outcome, default, library>>

\* if _default is None
FindNone(c) ==
  /\ Goto(c, "locked", "loading")
  /\ default = None
  /\ UNCHANGED <<parent, failure, result, heap, outcome, libraryVars>>

\* NativeLibrary() finds and checks the library.
Load(c) ==
  /\ Goto(c, "loading", "loaded")
  /\ default' = c
  /\ UNCHANGED <<parent, failure, result, heap, outcome, default_lock, library>>

\* OSError or ImportError leaves the with statement and the default unset.
LoadFails(c) ==
  /\ Goto(c, "loading", "ended")
  /\ outcome' = [outcome EXCEPT ![c] = "load_error"]
  /\ default_lock' = None
  /\ UNCHANGED <<parent, failure, result, heap, default, library>>

ReturnDefault(c) ==
  /\ Goto(c, "loaded", "leased") \/ (Goto(c, "locked", "leased") /\ default # None)
  /\ library' = [library EXCEPT ![c] = default]
  /\ default_lock' = None
  /\ UNCHANGED <<parent, failure, result, heap, outcome, default>>

\* invoke: the callback catches every BaseException, its first error is raised
\* before the result is looked at, and finally frees the result.
Run(c) == (Work(c) \/ ReturnLease(c)) /\ UNCHANGED libraryVars

Continue(c) == \/ GivenLibrary(c) \/ Acquire(c) \/ FindNone(c) \/ Load(c)
               \/ LoadFails(c) \/ ReturnDefault(c) \/ Run(c)

AllEnded == (\A c \in Calls : pc[c] = "ended") /\ UNCHANGED vars

Next == \/ \E c \in Calls : Continue(c) \/ \E p \in Calls \cup {None} : Invoke(c, p)
        \/ AllEnded

Spec == Init /\ [][Next]_vars

-------------------------------------------------------------------------------
\* All calls without a library of their own use one and the same, whichever
\* threads asked first and however often loading failed before.
OneDefault == \A c \in Calls : library[c] \in {None, default}
================================================================================

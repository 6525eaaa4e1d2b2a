-------------------------- MODULE CallbackDispatch --------------------------
(***************************************************************************)
(* What mpif promises about a user-defined Fortran callback, independently *)
(* of how it keeps the promise.  A program hands MPI a Fortran procedure   *)
(* together with the way it is to be called (its interface: small or large *)
(* count, the kind of object ...) and gets an MPI object back.  For as     *)
(* long as MPI may call back through that object, the call reaches exactly *)
(* that procedure, through that interface.                                 *)
(*                                                                         *)
(* OpPool, ErrhandlerPool, AttrRegistry and CallbackBox each implement     *)
(* this module, with a different mechanism; the refinement mappings are in *)
(* those modules.                                                          *)
(***************************************************************************)

CONSTANTS
  Handles,    \* what MPI identifies a registered callback by
  Procs,      \* Fortran procedures
  Modes,      \* interfaces a procedure may be called through
  Unbound,    \* "no callback registered under this handle"
  NoCall      \* "nothing has been called yet"

VARIABLES
  bound,      \* handle -> the <<procedure, interface>> MPI may call, or Unbound
  called      \* the last call: <<handle, <<procedure, interface>>>>, or NoCall

vars == <<bound, called>>

Registrations == (Procs \X Modes) \union {Unbound}

Init ==
  /\ bound = [h \in Handles |-> Unbound]
  /\ called = NoCall

\* The program registers procedures under handles that had none.
Register ==
  /\ bound' \in [Handles -> Registrations]
  /\ \A h \in Handles : bound[h] # Unbound => bound'[h] = bound[h]
  /\ UNCHANGED called

\* MPI gives objects up: nothing calls through their handles any more.
GiveUp ==
  /\ bound' \in [Handles -> Registrations]
  /\ \A h \in Handles : bound'[h] \in {bound[h], Unbound}

\* MPI calls back through h, perhaps for the last time.
Call(h) ==
  /\ bound[h] # Unbound
  /\ called' = <<h, bound[h]>>
  /\ GiveUp

Next ==
  \/ Register
  \/ GiveUp /\ UNCHANGED called
  \/ \E h \in Handles : Call(h)

Spec == Init /\ [][Next]_vars
=============================================================================

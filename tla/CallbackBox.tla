---------------------------- MODULE CallbackBox -----------------------------
(***************************************************************************)
(* Generalized requests and datareps (src/mpif_callbacks.c, the last two   *)
(* sections; mpi_grequest_start_ and mpi_register_datarep_ with its _c     *)
(* form in gen/mpif_functions.c).                                          *)
(*                                                                         *)
(* Here extra_state is mpif's to choose, so MPI gets the address of a box  *)
(* on the C heap that holds the Fortran procedures and a copy of the       *)
(* caller's extra_state.  A generalized request's box is freed by the free *)
(* trampoline; a datarep's box lives as long as the program.  A freed      *)
(* address can be handed out by malloc again, to either kind of box or to  *)
(* the C copy of a datarep's name, so a box freed too early or twice is    *)
(* somebody else's.                                                        *)
(***************************************************************************)
EXTENDS Naturals, FiniteSets

CONSTANTS
  Threads,      \* threads of the program
  Procs,        \* user-defined Fortran procedures
  Predefined,   \* MPI_CONVERSION_FN_NULL
  Values,       \* values of extra_state
  Extras,       \* those the program passes; callbacks leave any
  GrequestFns,  \* the procedures the program passes, by role, for a request ...
  DatarepFns,   \* ... and for a datarep
  Requests,     \* values of MPI_Request that MPI may return
  Reps,         \* datarep names MPI can register
  Addrs,        \* addresses malloc may return
  NULL,         \* a C null pointer
  FREE,         \* content of an address that is not allocated
  NAME,         \* content of a block that holds a datarep's name
  NoCall        \* no trampoline has been called yet

GrequestRoles == {"query", "free", "cancel"}
DatarepRoles  == {"read", "write", "extent"}
Owners        == Requests \union Reps

\* What the program passes to mpi_grequest_start_ and mpi_register_datarep_;
\* mode tells the small-count from the large-count (_c) form.
GrequestArgs == [fns : GrequestFns, extra : Extras, mode : {"grequest"}]
DatarepArgs  == [fns : DatarepFns, extra : Extras, mode : {"small", "large"}]
Boxes        == [fns : [GrequestRoles -> Procs] \union
                       [DatarepRoles -> Procs \union {Predefined}],
                 extra : Values]

\* The declarations a Fortran callback may have.  A conversion procedure's count
\* is an INTEGER or an INTEGER(MPI_COUNT_KIND); the others have one form each.
Interfaces == {"grequest", "int", "MPI_Count", "extent"}

\* A trampoline calls one procedure of the box, cast to one declaration:
\* [fn |-> "read", as |-> "MPI_Count"] is mpif_datarep_read_trampoline_c.
Trampolines == [fn : GrequestRoles \union DatarepRoles, as : Interfaces]

ASSUME CallbackBoxAssumption ==
  /\ Extras \subseteq Values
  /\ GrequestFns \subseteq [GrequestRoles -> Procs]
  /\ DatarepFns \subseteq {f \in [DatarepRoles -> Procs \union {Predefined}] :
                            f["extent"] # Predefined}
  /\ Predefined \notin Procs \union Trampolines
  /\ NULL \notin Addrs \union (Procs \X Interfaces)
  /\ FREE # NAME
  /\ {FREE, NAME} \intersect Boxes = {}
  /\ Requests \intersect Reps = {}

VARIABLES
  heap,     \* address -> its content: a box, NAME, or FREE
  pc,       \* where each thread is in its wrapper
  args,     \* the wrapper's arguments
  box,      \* the wrapper's local box
  c_name,   \* the wrapper's local c_datarep
  mpi,      \* the requests and datareps MPI holds
  called,   \* the last Fortran call a trampoline made
  fault,    \* a block was used or freed while not allocated
  lost,     \* history: the names leaked when a box could not be allocated
  aborted   \* abort() was called

locals == <<args, box, c_name>>
vars   == <<heap, pc, locals, mpi, called, fault, lost, aborted>>

\* The declaration to which the trampoline that a wrapper names for a role casts
\* the procedure: the wrapper of the _c form names the _c trampolines for the two
\* conversions.
cast_small(a, role) ==   \* mutant: it names the small-count ones
  CASE role \in GrequestRoles -> "grequest"
    [] role = "extent"        -> "extent"
    [] OTHER                  -> "int"
cast(a, role) ==
  CASE role \in GrequestRoles -> "grequest"
    [] role = "extent"        -> "extent"
    [] OTHER -> IF a.mode = "large" THEN "MPI_Count" ELSE "int"

\* The C functions the wrapper gives MPI: a trampoline for each role, or MPI's
\* own sentinel for a predefined procedure.
c_fns(a) ==
  [role \in DOMAIN a.fns |->
     IF a.fns[role] = Predefined THEN Predefined
     ELSE [fn |-> role, as |-> cast(a, role)]]

\* An object as MPI keeps it: the functions and the box it was given and how far
\* it is.  asked and extra are history: what the program passed, and the value
\* its own callbacks last left in extra_state.
Object == [box : Addrs, fns : [GrequestRoles -> Trampolines] \union
                              [DatarepRoles -> Trampolines \union {Predefined}],
           asked : GrequestArgs \union DatarepArgs, extra : Values,
           phase : {"active", "complete", "freeing", "released"}]

ASSUME NullIsNoObject == NULL \notin Object

Exists(o) == mpi[o] # NULL

\* MPI may still call back for o.
Callable(o) == Exists(o) /\ mpi[o].phase \in {"active", "complete"}

Init ==
  /\ heap = [a \in Addrs |-> FREE]
  /\ pc = [t \in Threads |-> "idle"]
  /\ args = [t \in Threads |-> NULL]
  /\ box = [t \in Threads |-> NULL]
  /\ c_name = [t \in Threads |-> NULL]
  /\ mpi = [o \in Owners |-> NULL]
  /\ called = NoCall
  /\ fault = FALSE
  /\ lost = {}
  /\ aborted = FALSE

Goto(t, label) == pc' = [pc EXCEPT ![t] = label]

Return(t) ==
  /\ Goto(t, "idle")
  /\ args' = [args EXCEPT ![t] = NULL]
  /\ box' = [box EXCEPT ![t] = NULL]
  /\ c_name' = [c_name EXCEPT ![t] = NULL]

\* free() of the blocks A.
Free(A) ==
  /\ heap' = [a \in Addrs |-> IF a \in A THEN FREE ELSE heap[a]]
  /\ fault' = (fault \/ \E a \in A : heap[a] = FREE)

-----------------------------------------------------------------------------
(* mpi_grequest_start_                                                     *)

GrequestStart(t, a) ==
  /\ pc[t] = "idle"
  /\ args' = [args EXCEPT ![t] = a]
  /\ Goto(t, "greq_reserve")
  /\ UNCHANGED <<heap, box, c_name, mpi, called, fault, lost, aborted>>

\* mpif_grequest_reserve, mpif_datarep_reserve: malloc the box and fill it.
ReserveBox(t, a) ==
  /\ \/ pc[t] = "greq_reserve" /\ Goto(t, "greq_start")
     \/ pc[t] = "rep_reserve" /\ Goto(t, "rep_register")
  /\ heap[a] = FREE
  /\ heap' = [heap EXCEPT ![a] = [fns |-> args[t].fns, extra |-> args[t].extra]]
  /\ box' = [box EXCEPT ![t] = a]
  /\ UNCHANGED <<args, c_name, mpi, called, fault, lost, aborted>>

\* malloc fails: MPI_ERR_OTHER.  mpi_register_datarep_ returns without freeing
\* the copy of the name it made before.
ReserveFails(t) ==
  /\ pc[t] \in {"greq_reserve", "rep_reserve"}
  /\ lost' = lost \union ({c_name[t]} \ {NULL})
  /\ Return(t)
  /\ UNCHANGED <<heap, mpi, called, fault, aborted>>

\* MPI_Grequest_start succeeds with request r.
StartSucceeds(t, r) ==
  /\ pc[t] = "greq_start"
  /\ ~Exists(r)
  /\ mpi' = [mpi EXCEPT ![r] = [box |-> box[t], fns |-> c_fns(args[t]),
                                asked |-> args[t], extra |-> args[t].extra,
                                phase |-> "active"]]
  /\ Return(t)
  /\ UNCHANGED <<heap, called, fault, lost, aborted>>

\* Mutant of StartFails: mpif_grequest_cancel is forgotten.
StartFailsKeeps(t) ==
  /\ pc[t] = "greq_start"
  /\ Return(t)
  /\ UNCHANGED <<heap, mpi, called, fault, lost, aborted>>

\* MPI_Grequest_start fails, and mpif_grequest_cancel frees the box.
StartFails(t) ==
  /\ pc[t] = "greq_start"
  /\ Free({box[t]})
  /\ Return(t)
  /\ UNCHANGED <<mpi, called, lost, aborted>>

-----------------------------------------------------------------------------
(* mpi_register_datarep_ and mpi_register_datarep_c_                       *)

RegisterDatarep(t, a) ==
  /\ pc[t] = "idle"
  /\ args' = [args EXCEPT ![t] = a]
  /\ Goto(t, "rep_strdup")
  /\ UNCHANGED <<heap, box, c_name, mpi, called, fault, lost, aborted>>

\* mpif_strdup_f2c: the name is copied ...
Strdup(t, a) ==
  /\ pc[t] = "rep_strdup"
  /\ heap[a] = FREE
  /\ heap' = [heap EXCEPT ![a] = NAME]
  /\ c_name' = [c_name EXCEPT ![t] = a]
  /\ Goto(t, "rep_reserve")
  /\ UNCHANGED <<args, box, mpi, called, fault, lost, aborted>>

\* ... or the process ends.
StrdupAborts(t) ==
  /\ pc[t] = "rep_strdup"
  /\ aborted' = TRUE
  /\ UNCHANGED <<heap, pc, locals, mpi, called, fault, lost>>

\* MPI_Register_datarep succeeds under the name d; free(c_datarep) follows.
RegisterSucceeds(t, d) ==
  /\ pc[t] = "rep_register"
  /\ ~Exists(d)
  /\ mpi' = [mpi EXCEPT ![d] = [box |-> box[t], fns |-> c_fns(args[t]),
                                asked |-> args[t], extra |-> args[t].extra,
                                phase |-> "active"]]
  /\ Goto(t, "rep_free_name")
  /\ UNCHANGED <<heap, locals, called, fault, lost, aborted>>

\* Another thread can use the datarep before this one frees its name.
FreeName(t) ==
  /\ pc[t] = "rep_free_name"
  /\ Free({c_name[t]})
  /\ Return(t)
  /\ UNCHANGED <<mpi, called, lost, aborted>>

\* MPI_Register_datarep fails: the name and, by mpif_datarep_cancel, the box go.
RegisterFails(t) ==
  /\ pc[t] = "rep_register"
  /\ Free({c_name[t], box[t]})
  /\ Return(t)
  /\ UNCHANGED <<mpi, called, lost, aborted>>

-----------------------------------------------------------------------------
(* MPI's callbacks                                                         *)

\* MPI calls the function it has for a role of object o: the trampoline takes the
\* Fortran procedure out of the box and calls it, as its own cast says, with the
\* address of the box's extra_state, which the procedure may change to v.
Trampoline(o, role, v) ==
  LET a == mpi[o].box
      f == mpi[o].fns[role]
  IN  IF heap[a] \in {FREE, NAME}
      THEN /\ fault' = TRUE
           /\ UNCHANGED <<heap, called>>
      ELSE /\ called' = <<<<o, role>>, <<heap[a].fns[f.fn], f.as>>>>
           /\ heap' = [heap EXCEPT ![a].extra = v]
           /\ UNCHANGED fault

Others == UNCHANGED <<pc, locals, lost, aborted>>

\* mpi_grequest_complete_.
GrequestComplete(r) ==
  /\ Exists(r)
  /\ mpi[r].phase = "active"
  /\ mpi' = [mpi EXCEPT ![r].phase = "complete"]
  /\ UNCHANGED <<heap, called, fault>> /\ Others

\* Mutant of Query: the box is taken to be finished with after the query.
QueryFrees(r, v) ==
  /\ Exists(r)
  /\ mpi[r].phase = "complete"
  /\ called' = <<<<r, "query">>, <<heap[mpi[r].box].fns["query"], "grequest">>>>
  /\ mpi' = [mpi EXCEPT ![r].extra = v]
  /\ Free({mpi[r].box})
  /\ Others

\* mpif_grequest_query_trampoline, from MPI_Wait, MPI_Test or
\* MPI_Request_get_status: perhaps several times.
Query(r, v) ==
  /\ Exists(r)
  /\ mpi[r].phase = "complete"
  /\ Trampoline(r, "query", v)
  /\ mpi' = [mpi EXCEPT ![r].extra = v]
  /\ Others

\* mpif_grequest_cancel_trampoline, from MPI_Cancel.
Cancel(r, v) ==
  /\ Callable(r)
  /\ Trampoline(r, "cancel", v)
  /\ mpi' = [mpi EXCEPT ![r].extra = v]
  /\ Others

\* mpif_grequest_free_trampoline calls the procedure ...
FreeCall(r, v) ==
  /\ Exists(r)
  /\ mpi[r].phase = "complete"
  /\ Trampoline(r, "free", v)
  /\ mpi' = [mpi EXCEPT ![r].extra = v, ![r].phase = "freeing"]
  /\ Others

\* ... and frees the box; MPI still has the request.
FreeBox(r) ==
  /\ Exists(r)
  /\ mpi[r].phase = "freeing"
  /\ Free({mpi[r].box})
  /\ mpi' = [mpi EXCEPT ![r].phase = "released"]
  /\ UNCHANGED called /\ Others

\* MPI deallocates the request.
Deallocate(r) ==
  /\ Exists(r)
  /\ mpi[r].phase = "released"
  /\ mpi' = [mpi EXCEPT ![r] = NULL]
  /\ UNCHANGED <<heap, called, fault>> /\ Others

\* mpif_datarep_{read,write,extent}_trampoline, while a file is accessed; MPI has
\* its own sentinel for a predefined conversion.
Convert(d, role, v) ==
  /\ Exists(d)
  /\ mpi[d].fns[role] # Predefined
  /\ Trampoline(d, role, v)
  /\ mpi' = [mpi EXCEPT ![d].extra = v]
  /\ Others

-----------------------------------------------------------------------------

ThreadStep(t) ==
  \/ \E a \in GrequestArgs : GrequestStart(t, a)
  \/ \E a \in DatarepArgs : RegisterDatarep(t, a)
  \/ \E a \in Addrs : ReserveBox(t, a) \/ Strdup(t, a)
  \/ ReserveFails(t)
  \/ StrdupAborts(t)
  \/ \E r \in Requests : StartSucceeds(t, r)
  \/ StartFails(t)
  \/ \E d \in Reps : RegisterSucceeds(t, d)
  \/ FreeName(t)
  \/ RegisterFails(t)

MpiStep ==
  \/ \E r \in Requests :
       \/ GrequestComplete(r)
       \/ \E v \in Values : Query(r, v) \/ Cancel(r, v) \/ FreeCall(r, v)
       \/ FreeBox(r)
       \/ Deallocate(r)
  \/ \E d \in Reps, role \in DatarepRoles, v \in Values : Convert(d, role, v)

Next == ~aborted /\ (MpiStep \/ \E t \in Threads : ThreadStep(t))

Spec == Init /\ [][Next]_vars

-----------------------------------------------------------------------------
(* Properties                                                              *)

\* The shape of the heap, of each thread's locals and of MPI's objects.
TypeOK ==
  /\ heap \in [Addrs -> Boxes \union {FREE, NAME}]
  /\ pc \in [Threads -> {"idle", "greq_reserve", "greq_start", "rep_strdup",
                         "rep_reserve", "rep_register", "rep_free_name"}]
  /\ args \in [Threads -> GrequestArgs \union DatarepArgs \union {NULL}]
  /\ box \in [Threads -> Addrs \union {NULL}]
  /\ c_name \in [Threads -> Addrs \union {NULL}]
  /\ mpi \in [Owners -> Object \union {NULL}]
  /\ fault \in BOOLEAN
  /\ lost \in SUBSET Addrs
  /\ aborted \in BOOLEAN

\* While MPI can call back for an object, its box is allocated, belongs to it
\* alone, holds the procedures the program passed, and its extra_state is the
\* one the object's own callbacks left there, untouched by any other request,
\* datarep or reuse of a freed address.
BoxesIntact ==
  \A o \in Owners : Callable(o) =>
    /\ heap[mpi[o].box] = [fns |-> mpi[o].asked.fns, extra |-> mpi[o].extra]
    /\ \A p \in Owners \ {o} : Callable(p) => mpi[p].box # mpi[o].box

\* The variables keep their types; no trampoline and no wrapper ever uses or
\* frees a block that is not allocated ("nothing can reach the box
\* afterwards"); and the boxes MPI may still use are intact.
MemorySafe == TypeOK /\ ~fault /\ BoxesIntact

\* Every block is accounted for: it is the box of a live object, it belongs to
\* a wrapper that has not returned, or it is a datarep name that was leaked on
\* the out-of-memory path.  No failed start or registration leaks a box.
NoBlockLost ==
  {a \in Addrs : heap[a] # FREE} =
    {mpi[o].box : o \in {p \in Owners : Exists(p) /\ mpi[p].phase # "released"}}
      \union ({box[t] : t \in Threads} \ {NULL})
      \union ({c_name[t] : t \in Threads} \ {NULL})
      \union lost

\* How MPI-5.0 (sections 13.2 and 15.5.3) declares the procedure a program passes
\* in a role: the count of a conversion follows the routine it was passed to.
Declared(a, role) ==
  CASE role \in GrequestRoles -> "grequest"
    [] role = "extent"        -> "extent"
    [] OTHER -> IF a.mode = "large" THEN "MPI_Count" ELSE "int"

\* The boxes implement CallbackDispatch.
Callbacks == (Requests \X GrequestRoles) \union (Reps \X DatarepRoles)

Dispatch ==
  INSTANCE CallbackDispatch WITH
    Handles <- Callbacks,
    Modes   <- Interfaces,
    Unbound <- NULL,
    bound   <- [h \in Callbacks |->
                  IF Callable(h[1]) /\ mpi[h[1]].asked.fns[h[2]] # Predefined
                  THEN <<mpi[h[1]].asked.fns[h[2]], Declared(mpi[h[1]].asked, h[2])>>
                  ELSE NULL]

\* From the start of a request to the call of its free_fn, and from the
\* registration of a datarep on, each of its callbacks reaches the procedure the
\* program passed for that very object in that role, called as it is declared.
Refinement == Dispatch!Spec
=============================================================================

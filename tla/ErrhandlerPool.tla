--------------------------- MODULE ErrhandlerPool ---------------------------
(***************************************************************************)
(* The pool of trampolines behind user-defined error handlers              *)
(* (src/mpif_callbacks.c, "User-defined error handlers") and its users:    *)
(* mpi_{comm,win,file,session}_create_errhandler_ and the MPI-1            *)
(* mpi_errhandler_create_ of src/mpif_removed.c, which shares the pool;    *)
(* mpi_*_set_errhandler_, mpi_*_get_errhandler_ and mpi_errhandler_free_.  *)
(*                                                                         *)
(* One pool serves the four kinds of object: a slot has one trampoline of  *)
(* each kind, and the create decides which of them MPI gets.  A handler    *)
(* stays in use by every object it is attached to after the program freed  *)
(* it, and is called long after.                                           *)
(*                                                                         *)
(* The branch of mpif_errhandler_reserve for an out-of-range kind is left  *)
(* out: every caller passes one of the four enumerators.                   *)
(***************************************************************************)
EXTENDS Naturals, FiniteSets

CONSTANTS
  Threads,                \* threads of the program
  Procs,                  \* user-defined Fortran procedures
  Kinds,                  \* "comm", "win", "file", "session"
  Ids,                    \* distinguishes the objects of one kind
  Handles,                \* values of MPI_Errhandler that MPI may return
  MPIF_ERRHANDLER_SLOTS,  \* size of the pool (64 in the code)
  MaxRefs,                \* bound: references the program holds to a handler
  NULL,                   \* a C null pointer
  ERRHANDLER_NULL,        \* MPI_ERRHANDLER_NULL; also: MPI's default handler
  NoCall                  \* no trampoline has been called yet

Slots   == 0 .. MPIF_ERRHANDLER_SLOTS - 1
Objects == Kinds \X Ids

ASSUME ErrhandlerPoolAssumption ==
  /\ IsFiniteSet(Threads)
  /\ MPIF_ERRHANDLER_SLOTS \in Nat \ {0}
  /\ MaxRefs \in Nat \ {0}
  /\ NULL \notin Procs \union (Procs \X Kinds)
  /\ ERRHANDLER_NULL \notin Handles

VARIABLES
  in_use,      \* errhandler_slots[i].in_use
  fn,          \* errhandler_slots[i].fn
  pc,          \* where each thread is in mpi_*_create_errhandler_
  args,        \* its arguments: the procedure, the kind and the wrapper
  slot,        \* the scan index of mpif_errhandler_reserve, then *slot
  errhandler,  \* the caller's INTEGER errhandler
  mpi_eh,      \* the error handlers MPI holds
  attached,    \* object -> the handler it uses
  called,      \* the last Fortran call a trampoline made
  retired      \* history: slots whose trampolines were given to MPI for good

vars == <<in_use, fn, pc, args, slot, errhandler, mpi_eh, attached,
          called, retired>>
pool == <<in_use, fn>>
mpi  == <<mpi_eh, attached>>

\* wrapper: "gen" is a generated wrapper, "mpi1" is mpi_errhandler_create_,
\* which exists for communicators only.
Arguments == {a \in [fn : Procs, kind : Kinds, wrapper : {"gen", "mpi1"}] :
                a.wrapper = "mpi1" => a.kind = "comm"}

\* A handler as MPI keeps it: the trampoline, and the references the program
\* holds to it.  asked is a history field: the procedure and kind the program
\* asked for.
Handler == [tramp : [slot : Slots, kind : Kinds], refs : Nat,
            asked : Procs \X Kinds]

ASSUME NullIsNoHandler == NULL \notin Handler

Exists(h) == mpi_eh[h] # NULL
SlotOf(h) == mpi_eh[h].tramp.slot

Init ==
  /\ in_use = [s \in Slots |-> FALSE]
  /\ fn = [s \in Slots |-> NULL]
  /\ pc = [t \in Threads |-> "idle"]
  /\ args = [t \in Threads |-> NULL]
  /\ slot = [t \in Threads |-> 0]
  /\ errhandler = [t \in Threads |-> ERRHANDLER_NULL]
  /\ mpi_eh = [h \in Handles |-> NULL]
  /\ attached = [o \in Objects |-> ERRHANDLER_NULL]
  /\ called = NoCall
  /\ retired = {}

Goto(t, label) == pc' = [pc EXCEPT ![t] = label]

\* The wrapper returns with *errhandler = h.
Return(t, h) ==
  /\ Goto(t, "idle")
  /\ errhandler' = [errhandler EXCEPT ![t] = h]
  /\ args' = [args EXCEPT ![t] = NULL]
  /\ slot' = [slot EXCEPT ![t] = 0]

\* What *errhandler holds after MPI_*_create_errhandler failed: the generated
\* wrapper stores MPI_ERRHANDLER_NULL, the MPI-1 one stores nothing.
AfterFailure(t) ==
  IF args[t].wrapper = "gen" THEN ERRHANDLER_NULL ELSE errhandler[t]

-----------------------------------------------------------------------------
(* mpi_*_create_errhandler_                                                *)

\* The scan: for (int i = 0; i < MPIF_ERRHANDLER_SLOTS; ++i).
AtEnd(i) == i + 1 = MPIF_ERRHANDLER_SLOTS

\* The C function handed to MPI: <kind>_errhandler_trampolines[i].
TrampolineComm(i, k) == [slot |-> i, kind |-> "comm"]   \* mutant: one table
Trampoline(i, k) == [slot |-> i, kind |-> k]

CreateErrhandler(t, a) ==
  /\ pc[t] = "idle"
  /\ args' = [args EXCEPT ![t] = a]
  /\ Goto(t, "scan")
  /\ UNCHANGED <<pool, slot, errhandler, mpi, called, retired>>

\* mpif_errhandler_reserve: the compare-and-exchange takes slot i.
Claim(t) ==
  /\ pc[t] = "scan"
  /\ ~in_use[slot[t]]
  /\ in_use' = [in_use EXCEPT ![slot[t]] = TRUE]
  /\ Goto(t, "set_fn")
  /\ UNCHANGED <<fn, args, slot, errhandler, mpi, called, retired>>

\* Slot i is taken and is not the last one.
Skip(t) ==
  /\ pc[t] = "scan"
  /\ in_use[slot[t]]
  /\ ~AtEnd(slot[t])
  /\ slot' = [slot EXCEPT ![t] = @ + 1]
  /\ UNCHANGED <<pool, pc, args, errhandler, mpi, called, retired>>

\* Every slot is taken: MPI_ERR_OTHER, and *errhandler is not written.
Exhausted(t) ==
  /\ pc[t] = "scan"
  /\ in_use[slot[t]]
  /\ AtEnd(slot[t])
  /\ Return(t, errhandler[t])
  /\ UNCHANGED <<pool, mpi, called, retired>>

\* The procedure is stored; the trampoline of the kind is returned.
SetFn(t) ==
  /\ pc[t] = "set_fn"
  /\ fn' = [fn EXCEPT ![slot[t]] = args[t].fn]
  /\ Goto(t, "mpi_create")
  /\ UNCHANGED <<in_use, args, slot, errhandler, mpi, called, retired>>

\* MPI_*_create_errhandler succeeds with a handle no handler has.
CreateSucceeds(t, h) ==
  /\ pc[t] = "mpi_create"
  /\ ~Exists(h)
  /\ mpi_eh' = [mpi_eh EXCEPT ![h] = [tramp |-> Trampoline(slot[t], args[t].kind),
                                      refs |-> 1,
                                      asked |-> <<args[t].fn, args[t].kind>>]]
  /\ retired' = retired \union {slot[t]}
  /\ Return(t, h)
  /\ UNCHANGED <<pool, attached, called>>

\* It fails: the wrapper goes on to mpif_errhandler_cancel.
CreateFails(t) ==
  /\ pc[t] = "mpi_create"
  /\ Goto(t, "cancel_fn")
  /\ UNCHANGED <<pool, args, slot, errhandler, mpi, called, retired>>

\* mpif_errhandler_cancel: fn = NULL first ...
CancelFn(t) ==
  /\ pc[t] = "cancel_fn"
  /\ fn' = [fn EXCEPT ![slot[t]] = NULL]
  /\ Goto(t, "cancel_in_use")
  /\ UNCHANGED <<in_use, args, slot, errhandler, mpi, called, retired>>

\* Mutants of CancelInUse: the slot is never given back; the caller's variable
\* is not reset by the generated wrapper.
CancelKeepsSlot(t) ==
  /\ pc[t] = "cancel_in_use"
  /\ Return(t, AfterFailure(t))
  /\ UNCHANGED <<pool, mpi, called, retired>>
CancelReturnsGarbage(t) ==
  /\ pc[t] = "cancel_in_use"
  /\ in_use' = [in_use EXCEPT ![slot[t]] = FALSE]
  /\ \E h \in Handles : Return(t, h)   \* c_errhandler not initialised
  /\ UNCHANGED <<fn, mpi, called, retired>>

\* ... then the release store of in_use, and the wrapper returns the error.
CancelInUse(t) ==
  /\ pc[t] = "cancel_in_use"
  /\ in_use' = [in_use EXCEPT ![slot[t]] = FALSE]
  /\ Return(t, AfterFailure(t))
  /\ UNCHANGED <<fn, mpi, called, retired>>

-----------------------------------------------------------------------------
(* The use of a handler                                                    *)

\* MPI drops a handler that neither the program nor an object refers to.
Collect(eh, att) ==
  [h \in Handles |-> IF /\ eh[h] # NULL
                        /\ eh[h].refs = 0
                        /\ \A o \in Objects : att[o] # h
                     THEN NULL ELSE eh[h]]

Unchanged == UNCHANGED <<pool, pc, args, slot, retired>>

\* mpi_*_set_errhandler_ with a handler made for this kind of object.
SetErrhandler(t, o) ==
  LET h == errhandler[t]
      att == [attached EXCEPT ![o] = h]
  IN  /\ pc[t] = "idle"
      /\ h # ERRHANDLER_NULL
      /\ mpi_eh[h].asked[2] = o[1]
      /\ attached' = att
      /\ mpi_eh' = Collect(mpi_eh, att)
      /\ Unchanged /\ UNCHANGED <<errhandler, called>>

\* mpi_*_get_errhandler_: the caller gets a reference of its own.
GetErrhandler(t, o) ==
  LET h == attached[o]
  IN  /\ pc[t] = "idle"
      /\ h # ERRHANDLER_NULL
      /\ mpi_eh[h].refs < MaxRefs
      /\ errhandler' = [errhandler EXCEPT ![t] = h]
      /\ mpi_eh' = [mpi_eh EXCEPT ![h].refs = @ + 1]
      /\ Unchanged /\ UNCHANGED <<attached, called>>

\* The call fails, or the object has a predefined handler: *errhandler no longer
\* names any handler of the program's.
GetNothing(t) ==
  /\ pc[t] = "idle"
  /\ errhandler' = [errhandler EXCEPT ![t] = ERRHANDLER_NULL]
  /\ Unchanged /\ UNCHANGED <<mpi, called>>

\* Mutant of ErrhandlerFree: the slot is given back with the reference.
ErrhandlerFreeReleases(t) ==
  LET h == errhandler[t]
  IN  /\ pc[t] = "idle"
      /\ h # ERRHANDLER_NULL
      /\ in_use' = [in_use EXCEPT ![SlotOf(h)] = FALSE]
      /\ errhandler' = [errhandler EXCEPT ![t] = ERRHANDLER_NULL]
      /\ mpi_eh' = Collect([mpi_eh EXCEPT ![h].refs = @ - 1], attached)
      /\ UNCHANGED <<fn, pc, args, slot, retired, attached, called>>

\* mpi_errhandler_free_: one reference is given up, mpif's slot stays.
ErrhandlerFree(t) ==
  LET h == errhandler[t]
  IN  /\ pc[t] = "idle"
      /\ h # ERRHANDLER_NULL
      /\ errhandler' = [errhandler EXCEPT ![t] = ERRHANDLER_NULL]
      /\ mpi_eh' = Collect([mpi_eh EXCEPT ![h].refs = @ - 1], attached)
      /\ Unchanged /\ UNCHANGED <<attached, called>>

\* The object is freed, or gets a predefined handler.
Detach(o) ==
  LET att == [attached EXCEPT ![o] = ERRHANDLER_NULL]
  IN  /\ attached[o] # ERRHANDLER_NULL
      /\ attached' = att
      /\ mpi_eh' = Collect(mpi_eh, att)
      /\ Unchanged /\ UNCHANGED <<errhandler, called>>

\* call_{comm,win,file,session}_errhandler: the fn of the trampoline's slot, with
\* the handle converted as the trampoline's kind says.
call_errhandler(tramp) == <<fn[tramp.slot], tramp.kind>>

\* MPI raises an error on object o, at any time until o is gone.
Raise(o) ==
  LET h == attached[o]
  IN  /\ h # ERRHANDLER_NULL
      /\ called' = <<h, call_errhandler(mpi_eh[h].tramp)>>
      /\ Unchanged /\ UNCHANGED <<errhandler, mpi>>

-----------------------------------------------------------------------------

Next ==
  \/ \E t \in Threads :
       \/ \E a \in Arguments : CreateErrhandler(t, a)
       \/ Claim(t)
       \/ Skip(t)
       \/ Exhausted(t)
       \/ SetFn(t)
       \/ \E h \in Handles : CreateSucceeds(t, h)
       \/ CreateFails(t)
       \/ CancelFn(t)
       \/ CancelInUse(t)
       \/ \E o \in Objects : SetErrhandler(t, o) \/ GetErrhandler(t, o)
       \/ GetNothing(t)
       \/ ErrhandlerFree(t)
  \/ \E o \in Objects : Detach(o) \/ Raise(o)

Spec == Init /\ [][Next]_vars

-----------------------------------------------------------------------------
(* Properties                                                              *)

\* The shape of the pool, of each thread's locals and of MPI's handlers.
TypeOK ==
  /\ in_use \in [Slots -> BOOLEAN]
  /\ fn \in [Slots -> Procs \union {NULL}]
  /\ pc \in [Threads -> {"idle", "scan", "set_fn", "mpi_create", "cancel_fn",
                         "cancel_in_use"}]
  /\ args \in [Threads -> Arguments \union {NULL}]
  /\ slot \in [Threads -> Slots]
  /\ errhandler \in [Threads -> Handles \union {ERRHANDLER_NULL}]
  /\ mpi_eh \in [Handles -> Handler \union {NULL}]
  /\ attached \in [Objects -> Handles \union {ERRHANDLER_NULL}]
  /\ retired \in SUBSET Slots

Owns(t) == pc[t] \in {"set_fn", "mpi_create", "cancel_fn", "cancel_in_use"}

\* The variables keep their types, and an error raised on any object, however
\* long after MPI_Errhandler_free, finds in the handler's slot the procedure
\* the handler was created with; no two handlers share a slot and no create or
\* cancel is under way on it.
SlotOwnership ==
  /\ TypeOK
  /\ \A h \in Handles : Exists(h) =>
       /\ in_use[SlotOf(h)]
       /\ fn[SlotOf(h)] = mpi_eh[h].asked[1]
       /\ \A g \in Handles \ {h} : Exists(g) => SlotOf(g) # SlotOf(h)
       /\ \A t \in Threads : Owns(t) => slot[t] # SlotOf(h)

\* A handler the program can still name, in a variable or through an object, is
\* one MPI still holds: no create that fails leaves *errhandler naming a
\* handler the caller has no reference to.
NamedHandlersExist ==
  /\ \A h \in Handles : {t \in Threads : errhandler[t] = h} # {} =>
       /\ Exists(h)
       /\ Cardinality({t \in Threads : errhandler[t] = h}) <= mpi_eh[h].refs
  /\ \A o \in Objects : attached[o] # ERRHANDLER_NULL =>
       /\ Exists(attached[o])
       /\ mpi_eh[attached[o]].tramp.kind = o[1]

\* A failed create costs nothing: while no thread is inside a create, the slots
\* in use are those MPI was given.
NoSlotLost ==
  (\A t \in Threads : pc[t] = "idle") => {s \in Slots : in_use[s]} = retired

\* The pool implements CallbackDispatch: an error reaches the procedure its
\* handler was created with, through the trampoline of the handler's kind.
Dispatch ==
  INSTANCE CallbackDispatch WITH
    Modes   <- Kinds,
    Unbound <- NULL,
    bound   <- [h \in Handles |-> IF Exists(h) THEN mpi_eh[h].asked ELSE NULL]

Refinement == Dispatch!Spec
=============================================================================

------------------------------- MODULE OpPool -------------------------------
(***************************************************************************)
(* The pool of pre-generated trampolines behind MPI_Op_create              *)
(* (src/mpif_callbacks.c, "User-defined reduction operators") and the      *)
(* wrappers that use it (mpi_op_create_, mpi_op_create_c_, mpi_op_free_    *)
(* and their pmpi_ copies in gen/mpif_functions.c, which share the pool).  *)
(*                                                                         *)
(* MPI_User_function is not told which operator is being applied, so every *)
(* created operator owns a trampoline that knows its slot at compile time, *)
(* and the slot holds the Fortran procedure.  Several threads create and   *)
(* free operators; MPI calls a trampoline whenever a pending reduction     *)
(* makes progress, also after the program freed the operator.              *)
(*                                                                         *)
(* One action per atomic access to the pool: the compare-and-exchange on   *)
(* in_use, the plain write of fn, the call into MPI, and the two writes of *)
(* mpif_op_cancel.                                                         *)
(***************************************************************************)
EXTENDS Naturals

CONSTANTS
  Threads,        \* threads of the program (MPI_THREAD_MULTIPLE)
  Procs,          \* user-defined Fortran procedures
  Handles,        \* values of MPI_Op that MPI may return
  MPIF_OP_SLOTS,  \* size of the pool (128 in the code)
  MaxPending,     \* bound: reductions in flight per operator
  NULL,           \* a C null pointer
  OP_NULL,        \* MPI_OP_NULL
  NoCall          \* no trampoline has been called yet

Slots == 0 .. MPIF_OP_SLOTS - 1

ASSUME OpPoolAssumption ==
  /\ MPIF_OP_SLOTS \in Nat \ {0}
  /\ MaxPending \in Nat
  /\ NULL \notin Procs \union (Procs \X {0, 1})
  /\ OP_NULL \notin Handles

VARIABLES
  in_use,   \* op_slots[i].in_use
  fn,       \* op_slots[i].fn
  pc,       \* where each thread is in mpi_op_create_
  user_fn,  \* its argument user_fn
  large,    \* 1 in mpi_op_create_c_, 0 in mpi_op_create_
  slot,     \* the scan index i of mpif_op_reserve, then *slot
  op,       \* the caller's INTEGER op: output of create, in/out of free
  ierror,   \* TRUE when the last create returned MPI_SUCCESS
  mpi_op,   \* the operators MPI holds, freed ones with work pending included
  called,   \* the last Fortran call a trampoline made
  retired,  \* history: slots whose trampoline was given to MPI for good
  released  \* history: slots cancelled during this thread's scan

vars == <<in_use, fn, pc, user_fn, large, slot, op, ierror, mpi_op, called,
          retired, released>>

pool    == <<in_use, fn>>
locals  == <<user_fn, large>>
history == <<retired, released>>

\* An operator as MPI keeps it: the trampoline it was created with, whether
\* MPI_Op_free was called on it, and how many reductions still use it.  asked is a history field: the procedure
\* the program passed to MPI_Op_create, and the flavour it called.
Operator == [tramp : [slot : Slots, large : {0, 1}], freed : BOOLEAN,
             pending : Nat, asked : Procs \X {0, 1}]

ASSUME NullIsNoOperator == NULL \notin Operator

Exists(h) == mpi_op[h] # NULL

SlotOf(h) == mpi_op[h].tramp.slot

Idle == "idle"
PCs  == {Idle, "scan", "set_fn", "mpi_create", "cancel_fn", "cancel_in_use"}

Init ==
  /\ in_use = [s \in Slots |-> FALSE]
  /\ fn = [s \in Slots |-> NULL]
  /\ pc = [t \in Threads |-> Idle]
  /\ user_fn = [t \in Threads |-> NULL]
  /\ large = [t \in Threads |-> 0]
  /\ slot = [t \in Threads |-> 0]
  /\ op = [t \in Threads |-> OP_NULL]
  /\ ierror = [t \in Threads |-> TRUE]
  /\ mpi_op = [h \in Handles |-> NULL]
  /\ called = NoCall
  /\ retired = {}
  /\ released = [t \in Threads |-> {}]

Goto(t, label) == pc' = [pc EXCEPT ![t] = label]

\* The wrapper returns: *op and *ierror are written, its locals are gone.
Return(t, h, ok) ==
  /\ Goto(t, Idle)
  /\ op' = [op EXCEPT ![t] = h]
  /\ ierror' = [ierror EXCEPT ![t] = ok]
  /\ user_fn' = [user_fn EXCEPT ![t] = NULL]
  /\ large' = [large EXCEPT ![t] = 0]
  /\ slot' = [slot EXCEPT ![t] = 0]

-----------------------------------------------------------------------------
(* mpi_op_create_ and mpi_op_create_c_                                     *)

\* The scan of mpif_op_reserve: for (int i = 0; i < MPIF_OP_SLOTS; ++i).
AtEndEarly(i) == i + 2 >= MPIF_OP_SLOTS   \* mutant: the last slot is not tried
AtEndLate(i) == i = MPIF_OP_SLOTS         \* mutant: i <= MPIF_OP_SLOTS
AtEnd(i) == i + 1 = MPIF_OP_SLOTS
NextSlot(i) == i + 1

\* The C function handed to MPI: op_trampolines[i] or op_trampolines_c[i].
TrampolineSmall(i, l) == [slot |-> i, large |-> 0]   \* mutant: one table
Trampoline(i, l) == [slot |-> i, large |-> l]

\* A thread calls mpi_op_create_ (l = 0) or mpi_op_create_c_ (l = 1).
OpCreate(t, p, l) ==
  /\ pc[t] = Idle
  /\ user_fn' = [user_fn EXCEPT ![t] = p]
  /\ large' = [large EXCEPT ![t] = l]
  /\ slot' = [slot EXCEPT ![t] = 0]
  /\ Goto(t, "scan")
  /\ UNCHANGED <<pool, op, ierror, mpi_op, called, history>>

\* mpif_op_reserve: the compare-and-exchange finds slot i free and takes it.
Claim(t) ==
  /\ pc[t] = "scan"
  /\ ~in_use[slot[t]]
  /\ in_use' = [in_use EXCEPT ![slot[t]] = TRUE]
  /\ released' = [released EXCEPT ![t] = {}]
  /\ Goto(t, "set_fn")
  /\ UNCHANGED <<fn, locals, slot, op, ierror, mpi_op, called, retired>>

\* mpif_op_reserve: slot i is taken and is not the last one.
Skip(t) ==
  /\ pc[t] = "scan"
  /\ in_use[slot[t]]
  /\ ~AtEnd(slot[t])
  /\ slot' = [slot EXCEPT ![t] = NextSlot(@)]
  /\ UNCHANGED <<pool, pc, locals, op, ierror, mpi_op, called, history>>

\* Mutant of Exhausted: op is left unwritten.
ExhaustedKeepsOp(t) ==
  /\ pc[t] = "scan"
  /\ in_use[slot[t]]
  /\ AtEnd(slot[t])
  /\ Return(t, op[t], FALSE)
  /\ released' = [released EXCEPT ![t] = {}]
  /\ UNCHANGED <<pool, mpi_op, called, retired>>

\* mpif_op_reserve returns NULL; the wrapper reports MPI_ERR_OTHER.
Exhausted(t) ==
  /\ pc[t] = "scan"
  /\ in_use[slot[t]]
  /\ AtEnd(slot[t])
  /\ Return(t, OP_NULL, FALSE)
  /\ released' = [released EXCEPT ![t] = {}]
  /\ UNCHANGED <<pool, mpi_op, called, retired>>

\* mpif_op_reserve: op_slots[i].fn = callback; the trampoline is returned.
SetFn(t) ==
  /\ pc[t] = "set_fn"
  /\ fn' = [fn EXCEPT ![slot[t]] = user_fn[t]]
  /\ Goto(t, "mpi_create")
  /\ UNCHANGED <<in_use, locals, slot, op, ierror, mpi_op, called, history>>

\* MPI_Op_create succeeds with a handle h that no existing operator has.
CreateSucceeds(t, h) ==
  /\ pc[t] = "mpi_create"
  /\ ~Exists(h)
  /\ mpi_op' = [mpi_op EXCEPT ![h] = [tramp |-> Trampoline(slot[t], large[t]),
                                      freed |-> FALSE, pending |-> 0,
                                      asked |-> <<user_fn[t], large[t]>>]]
  /\ retired' = retired \union {slot[t]}
  /\ Return(t, h, TRUE)
  /\ UNCHANGED <<pool, called, released>>

\* MPI_Op_create fails: the wrapper goes on to mpif_op_cancel.
CreateFails(t) ==
  /\ pc[t] = "mpi_create"
  /\ Goto(t, "cancel_fn")
  /\ UNCHANGED <<pool, locals, slot, op, ierror, mpi_op, called, history>>

\* Mutant of CancelFn: in_use is cleared while the slot is still being reset.
CancelReleasesFirst(t) ==
  /\ pc[t] = "cancel_fn"
  /\ in_use' = [in_use EXCEPT ![slot[t]] = FALSE]
  /\ Goto(t, "cancel_in_use")
  /\ UNCHANGED <<fn, locals, slot, op, ierror, mpi_op, called, history>>

\* mpif_op_cancel: fn = NULL first ...
CancelFn(t) ==
  /\ pc[t] = "cancel_fn"
  /\ fn' = [fn EXCEPT ![slot[t]] = NULL]
  /\ Goto(t, "cancel_in_use")
  /\ UNCHANGED <<in_use, locals, slot, op, ierror, mpi_op, called, history>>

\* Mutant of CancelInUse: the slot is never given back.
CancelKeepsSlot(t) ==
  /\ pc[t] = "cancel_in_use"
  /\ Return(t, OP_NULL, FALSE)
  /\ UNCHANGED <<pool, mpi_op, called, history>>

\* ... then the release store of in_use, and the wrapper returns MPI_OP_NULL.
CancelInUse(t) ==
  /\ pc[t] = "cancel_in_use"
  /\ in_use' = [in_use EXCEPT ![slot[t]] = FALSE]
  /\ released' = [u \in Threads |-> IF pc[u] = "scan"
                                     THEN released[u] \union {slot[t]}
                                     ELSE {}]
  /\ Return(t, OP_NULL, FALSE)
  /\ UNCHANGED <<fn, mpi_op, called, retired>>

-----------------------------------------------------------------------------
(* mpi_op_free_, and MPI's use of an operator (external)                   *)

\* An operator that was freed goes away with its last pending reduction.
Settle(o) == IF o.freed /\ o.pending = 0 THEN NULL ELSE o

\* Mutant of OpFree: the slot is given back when the operator is freed.
OpFreeReleases(t) ==
  /\ pc[t] = Idle
  /\ op[t] # OP_NULL
  /\ in_use' = [in_use EXCEPT ![SlotOf(op[t])] = FALSE]
  /\ mpi_op' = [mpi_op EXCEPT
                  ![op[t]] = Settle([mpi_op[op[t]] EXCEPT !.freed = TRUE])]
  /\ op' = [op EXCEPT ![t] = OP_NULL]
  /\ UNCHANGED <<fn, pc, locals, slot, ierror, called, history>>

\* mpi_op_free_: MPI marks the operator, mpif's slot stays as it is.
OpFree(t) ==
  /\ pc[t] = Idle
  /\ op[t] # OP_NULL
  /\ mpi_op' = [mpi_op EXCEPT
                  ![op[t]] = Settle([mpi_op[op[t]] EXCEPT !.freed = TRUE])]
  /\ op' = [op EXCEPT ![t] = OP_NULL]
  /\ UNCHANGED <<pool, pc, locals, slot, ierror, called, history>>

\* The program starts a reduction with its operator.
StartReduction(t) ==
  /\ pc[t] = Idle
  /\ op[t] # OP_NULL
  /\ mpi_op[op[t]].pending < MaxPending
  /\ mpi_op' = [mpi_op EXCEPT ![op[t]].pending = @ + 1]
  /\ UNCHANGED <<pool, pc, locals, slot, op, ierror, called, history>>

\* What a trampoline calls: call_user_fn or call_user_fn_c reads the fn of its
\* slot; a null fn is skipped, which would leave the reduction undone.
call_user_fn(tramp) == <<fn[tramp.slot], tramp.large>>

\* MPI applies the operator to a part of a pending reduction.
Fire(h) ==
  /\ Exists(h)
  /\ mpi_op[h].pending > 0
  /\ called' = <<h, call_user_fn(mpi_op[h].tramp)>>
  /\ UNCHANGED <<pool, pc, locals, slot, op, ierror, mpi_op, history>>

\* A reduction completes.
FinishReduction(h) ==
  /\ Exists(h)
  /\ mpi_op[h].pending > 0
  /\ mpi_op' = [mpi_op EXCEPT
                  ![h] = Settle([mpi_op[h] EXCEPT !.pending = @ - 1])]
  /\ UNCHANGED <<pool, pc, locals, slot, op, ierror, called, history>>

-----------------------------------------------------------------------------

\* What the thread that called mpi_op_create_ does next.
Step(t) ==
  \/ Claim(t)
  \/ Skip(t)
  \/ Exhausted(t)
  \/ SetFn(t)
  \/ \E h \in Handles : CreateSucceeds(t, h)
  \/ CreateFails(t)
  \/ CancelFn(t)
  \/ CancelInUse(t)

Next ==
  \/ \E t \in Threads :
       \/ \E p \in Procs, l \in {0, 1} : OpCreate(t, p, l)
       \/ Step(t)
       \/ OpFree(t)
       \/ StartReduction(t)
  \/ \E h \in Handles :
       \/ Fire(h)
       \/ FinishReduction(h)

Spec == Init /\ [][Next]_vars

-----------------------------------------------------------------------------
(* Properties                                                              *)

\* The shape of the pool, of each thread's locals and of MPI's operators.
TypeOK ==
  /\ in_use \in [Slots -> BOOLEAN]
  /\ fn \in [Slots -> Procs \union {NULL}]
  /\ pc \in [Threads -> PCs]
  /\ user_fn \in [Threads -> Procs \union {NULL}]
  /\ large \in [Threads -> {0, 1}]
  /\ slot \in [Threads -> Slots]
  /\ op \in [Threads -> Handles \union {OP_NULL}]
  /\ ierror \in [Threads -> BOOLEAN]
  /\ mpi_op \in [Handles -> Operator \union {NULL}]
  /\ retired \in SUBSET Slots
  /\ released \in [Threads -> SUBSET Slots]

\* A thread owns its slot from the compare-and-exchange that took it until it
\* either gives the slot to MPI or cancels it.
Owns(t) == pc[t] \in {"set_fn", "mpi_create", "cancel_fn", "cancel_in_use"}

\* The slot of an operator MPI still holds belongs to that operator alone: it
\* holds the procedure the program passed to MPI_Op_create, no other operator
\* has its trampoline, and no thread is in the middle of mpif_op_reserve or
\* mpif_op_cancel on it, so no plain write of fn can race the trampoline's
\* plain read.
SlotOwnership ==
  \A h \in Handles : Exists(h) =>
    /\ in_use[SlotOf(h)]
    /\ call_user_fn(mpi_op[h].tramp) = mpi_op[h].asked
    /\ \A g \in Handles \ {h} : Exists(g) => SlotOf(g) # SlotOf(h)
    /\ \A t \in Threads : Owns(t) => slot[t] # SlotOf(h)

\* "The slot is retired": an operator is never created on a trampoline MPI was
\* given before, not even after MPI_Op_free and the end of all its reductions.
FreshTrampoline ==
  [][\A h \in Handles :
       ~Exists(h) /\ Exists(h)' => SlotOf(h)' \notin retired]_vars

\* A create that fails costs nothing: while no thread is inside
\* mpi_op_create_, the slots in use are those of the operators MPI ever got.
NoSlotLost ==
  (\A t \in Threads : pc[t] = Idle) => {s \in Slots : in_use[s]} = retired

\* mpif_op_reserve gives up only if every slot was taken at some moment of its
\* scan: a slot that is free now was cancelled by another thread meanwhile.
RefusalIsJustified ==
  [][\A t \in Threads :
       pc[t] = "scan" /\ pc'[t] = Idle =>
         \A s \in Slots : in_use[s] \/ s \in released[t]]_vars

\* When mpi_op_create_ returns with MPI_SUCCESS the caller has an operator that
\* calls its own procedure through the interface it used; otherwise it has
\* MPI_OP_NULL and not some earlier handle.
ReturnIsTruthful ==
  [][\A t \in Threads :
       pc[t] # Idle /\ pc'[t] = Idle =>
         IF ierror'[t]
         THEN /\ op'[t] \in Handles
              /\ mpi_op'[op'[t]] # NULL
              /\ mpi_op'[op'[t]].asked = <<user_fn[t], large[t]>>
         ELSE op'[t] = OP_NULL]_vars

\* The pool implements CallbackDispatch: whatever the interleaving of creates,
\* failed creates, frees and reductions, a trampoline calls the procedure its
\* operator was created with, through the interface it was created for.
Dispatch ==
  INSTANCE CallbackDispatch WITH
    Modes   <- {0, 1},
    Unbound <- NULL,
    bound   <- [h \in Handles |-> IF Exists(h) THEN mpi_op[h].asked
                                               ELSE NULL]

Refinement == Dispatch!Spec
=============================================================================

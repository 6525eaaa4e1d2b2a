---------------------------- MODULE AttrRegistry ----------------------------
(***************************************************************************)
(* The registry of user-defined attribute callbacks                        *)
(* (src/mpif_callbacks.c, "User-defined attribute callbacks") and the      *)
(* wrappers that fill it: mpi_comm_create_keyval_, mpi_type_create_keyval_ *)
(* mpi_win_create_keyval_, mpi_keyval_create_ and their pmpi_ copies.      *)
(*                                                                         *)
(* One trampoline serves every keyval of a kind; it finds its Fortran      *)
(* procedure by looking the keyval up.  The wrapper first creates the      *)
(* keyval in MPI and then registers the copy and the delete callback in    *)
(* two separate calls, so MPI holds the trampolines before the table knows *)
(* the keyval.  Entries are never removed; a keyval number that MPI hands  *)
(* out again overwrites its old entry.                                     *)
(*                                                                         *)
(* find_attr_entry is one step: an entry for a keyval is only ever made by *)
(* the thread that is creating that keyval and then keeps its number, so   *)
(* the other threads' registrations cannot change what a scan for it       *)
(* returns.  The claiming scan is one step per compare-and-exchange.       *)
(***************************************************************************)
EXTENDS Integers, FiniteSets

CONSTANTS
  Threads,           \* threads of the program
  Procs,             \* user-defined Fortran procedures
  Predefined,        \* MPI_COMM_DUP_FN and its siblings
  Kinds,             \* "comm", "type", "win" and the MPI-1 "comm_10"
  Keyvals,           \* keyval numbers MPI may hand out (positive)
  MPIF_MAX_KEYVALS,  \* size of the table (256 in the code)
  Allocators,        \* whether MPI may or must hand out the lowest free number
  MaxAttrs,          \* bound: attributes set under one keyval at a time
  NULL,              \* a C null pointer
  NoCall             \* no callback has been called yet

MPI_KEYVAL_INVALID == 0
KEYVAL_RESERVED == -1

Entries == 0 .. MPIF_MAX_KEYVALS - 1

\* The declarations of a Fortran attribute callback: the type of its handle and
\* the integer its attribute values are.  A trampoline looks up one of the two
\* procedures of an entry and calls it, cast to one declaration.
Interfaces  == {"comm", "type", "win"} \X {"MPI_Fint", "MPI_Aint"}
Trampolines == [fn : {"copy", "delete"}, as : Interfaces]

ASSUME AttrRegistryAssumption ==
  /\ MPIF_MAX_KEYVALS \in Nat \ {0}
  /\ MaxAttrs \in Nat
  /\ Allocators \subseteq BOOLEAN
  /\ Kinds # {} /\ Kinds \subseteq {"comm", "type", "win", "comm_10"}
  /\ Keyvals \subseteq Nat \ {0} /\ IsFiniteSet(Keyvals)
  /\ Predefined \notin Procs \union Trampolines
  /\ NULL \notin Procs \union {Predefined} \union (Procs \X Interfaces)

VARIABLES
  keyval,     \* attr_entries[i].keyval
  copy_fn,    \* attr_entries[i].copy_fn
  delete_fn,  \* attr_entries[i].delete_fn
  pc,         \* where each thread is in mpi_*_create_keyval_
  args,       \* its arguments: kind, copy and delete procedure
  kv,         \* the keyval MPI gave it
  which,      \* the callback being registered, "copy" or "delete"
  i,          \* its position in the table
  mpi_kv,     \* the keyvals MPI holds, marked-for-deletion ones included
  lowest_first, \* MPI hands out the lowest number not in use
  called,     \* the last call a trampoline made
  peak        \* history: the most keyvals that MPI held at any one time

table  == <<keyval, copy_fn, delete_fn>>
locals == <<args, kv, which, i>>
vars   == <<table, pc, locals, mpi_kv, called, peak, lowest_first>>

Callbacks == Procs \union {Predefined}
Arguments == [kind : Kinds, copy : Callbacks, delete : Callbacks]
NoArgs    == [kind |-> CHOOSE k \in Kinds : TRUE,
              copy |-> Predefined, delete |-> Predefined]

\* A keyval as MPI keeps it: the functions it was given, its own sentinel for a
\* predefined callback and a trampoline otherwise.  asked is history, what the
\* program passed.  issued: the creating wrapper returned it with MPI_SUCCESS,
\* so the program may use it.
Keyval == [asked : Arguments,
           fns : [{"copy", "delete"} -> Trampolines \union {Predefined}],
           issued : BOOLEAN, freed : BOOLEAN, attrs : Nat]

ASSUME NullIsNoKeyval == NULL \notin Keyval

Exists(k) == mpi_kv[k] # NULL
Issued(k) == Exists(k) /\ mpi_kv[k].issued
InMpi     == {k \in Keyvals : Exists(k)}

\* mpif_predefined_callback: the procedure needs no trampoline and no entry.
mpif_predefined_callback(p) == p = Predefined
UserDefined(k, w) == ~mpif_predefined_callback(mpi_kv[k].asked[w])

\* mpif_attr_trampoline: the trampolines for the MPI-1 form take a communicator
\* too, and cast the procedure to one whose values are default INTEGERs.
mpif_attr_trampoline(kind, w) ==
  [fn |-> w,
   as |-> IF kind = "comm_10" THEN <<"comm", "MPI_Fint">>
                              ELSE <<kind, "MPI_Aint">>]

\* The C functions the wrapper gives MPI.
c_fns(a) ==
  [w \in {"copy", "delete"} |->
     IF mpif_predefined_callback(a[w]) THEN Predefined
     ELSE mpif_attr_trampoline(a.kind, w)]

Init ==
  /\ keyval = [e \in Entries |-> MPI_KEYVAL_INVALID]
  /\ copy_fn = [e \in Entries |-> NULL]
  /\ delete_fn = [e \in Entries |-> NULL]
  /\ pc = [t \in Threads |-> "idle"]
  /\ args = [t \in Threads |-> NoArgs]
  /\ kv = [t \in Threads |-> MPI_KEYVAL_INVALID]
  /\ which = [t \in Threads |-> "copy"]
  /\ i = [t \in Threads |-> 0]
  /\ mpi_kv = [k \in Keyvals |-> NULL]
  /\ called = NoCall
  /\ peak = 0
  /\ lowest_first \in Allocators

Goto(t, label) == pc' = [pc EXCEPT ![t] = label]

-----------------------------------------------------------------------------
(* mpi_comm_create_keyval_ and its siblings                                *)

CreateKeyval(t, a) ==
  /\ pc[t] = "idle"
  /\ args' = [args EXCEPT ![t] = a]
  /\ Goto(t, "mpi_create")
  /\ UNCHANGED <<table, kv, which, i, mpi_kv, called, peak, lowest_first>>

\* The wrapper returns; its locals are gone.
Return(t) ==
  /\ Goto(t, "idle")
  /\ args' = [args EXCEPT ![t] = NoArgs]
  /\ kv' = [kv EXCEPT ![t] = MPI_KEYVAL_INVALID]
  /\ which' = [which EXCEPT ![t] = "copy"]
  /\ i' = [i EXCEPT ![t] = 0]

\* Return with MPI_SUCCESS: from here on the program has keyval k.
Issue(t, k, held) ==
  /\ Return(t)
  /\ mpi_kv' = [held EXCEPT ![k].issued = TRUE]

\* mpif_register_attr_callback is entered for callback w of keyval k; it does
\* something only if the procedure is user-defined.
EnterRegister(t, k, w) ==
  /\ Goto(t, "find")
  /\ kv' = [kv EXCEPT ![t] = k]
  /\ which' = [which EXCEPT ![t] = w]
  /\ i' = [i EXCEPT ![t] = 0]
  /\ UNCHANGED args

\* MPI_Comm_create_keyval fails.
CreateFails(t) ==
  /\ pc[t] = "mpi_create"
  /\ Return(t)
  /\ UNCHANGED <<table, mpi_kv, called, peak, lowest_first>>

\* MPI_Comm_create_keyval succeeds with number k; the registrations follow.
CreateSucceeds(t, k) ==
  LET held == [mpi_kv EXCEPT ![k] = [asked |-> args[t], fns |-> c_fns(args[t]),
                                     issued |-> FALSE, freed |-> FALSE,
                                     attrs |-> 0]]
      user == {w \in {"copy", "delete"} : ~mpif_predefined_callback(args[t][w])}
  IN
    /\ pc[t] = "mpi_create"
    /\ ~Exists(k)
    /\ lowest_first => \A j \in Keyvals : j < k => Exists(j)
    /\ peak' = IF Cardinality(InMpi) + 1 > peak THEN Cardinality(InMpi) + 1
                                               ELSE peak
    /\ \/ /\ "copy" \in user
          /\ EnterRegister(t, k, "copy")
          /\ mpi_kv' = held
       \/ /\ user = {"delete"}
          /\ EnterRegister(t, k, "delete")
          /\ mpi_kv' = held
       \/ /\ user = {}
          /\ Issue(t, k, held)
    /\ UNCHANGED <<table, called, lowest_first>>

\* find_attr_entry: the entries recorded under keyval k (at most one).
find_attr_entry(k) == {e \in Entries : keyval[e] = k}

\* Mutant of Found: a keyval that has an entry is taken to be registered.
FoundKeepsOld(t) ==
  /\ pc[t] = "find"
  /\ find_attr_entry(kv[t]) # {}
  /\ Issue(t, kv[t], mpi_kv)
  /\ UNCHANGED <<table, called, peak, lowest_first>>

\* mpif_register_attr_callback: an entry for this keyval exists ...
Found(t) ==
  /\ pc[t] = "find"
  /\ \E e \in find_attr_entry(kv[t]) : i' = [i EXCEPT ![t] = e]
  /\ Goto(t, "write")
  /\ UNCHANGED <<table, args, kv, which, mpi_kv, called, peak, lowest_first>>

\* Mutant of NotFound: the table is not searched before an entry is claimed.
NotFoundAlways(t) ==
  /\ pc[t] = "find"
  /\ Goto(t, "claim")
  /\ UNCHANGED <<table, locals, mpi_kv, called, peak, lowest_first>>

\* ... or a free one has to be claimed.
NotFound(t) ==
  /\ pc[t] = "find"
  /\ find_attr_entry(kv[t]) = {}
  /\ Goto(t, "claim")
  /\ UNCHANGED <<table, locals, mpi_kv, called, peak, lowest_first>>

\* The claiming scan: for (size_t i = 0; i < MPIF_MAX_KEYVALS; ++i).
AtEnd(e) == e + 1 = MPIF_MAX_KEYVALS
NextEntry(e) == e + 1

\* Mutant of Claim: the entry is taken without being marked as reserved.
ClaimUnmarked(t) ==
  /\ pc[t] = "claim"
  /\ keyval[i[t]] = MPI_KEYVAL_INVALID
  /\ Goto(t, "clear")
  /\ UNCHANGED <<table, locals, mpi_kv, called, peak, lowest_first>>

\* The compare-and-exchange takes entry i.
Claim(t) ==
  /\ pc[t] = "claim"
  /\ keyval[i[t]] = MPI_KEYVAL_INVALID
  /\ keyval' = [keyval EXCEPT ![i[t]] = KEYVAL_RESERVED]
  /\ Goto(t, "clear")
  /\ UNCHANGED <<copy_fn, delete_fn, locals, mpi_kv, called, peak, lowest_first>>

\* Entry i is taken and not the last one.
Skip(t) ==
  /\ pc[t] = "claim"
  /\ keyval[i[t]] # MPI_KEYVAL_INVALID
  /\ ~AtEnd(i[t])
  /\ i' = [i EXCEPT ![t] = NextEntry(@)]
  /\ UNCHANGED <<table, pc, args, kv, which, mpi_kv, called, peak, lowest_first>>

\* No entry is free: MPI_ERR_OTHER, and the wrapper returns it.  The keyval
\* stays in MPI, with trampolines that will find no procedure.
Full(t) ==
  /\ pc[t] = "claim"
  /\ keyval[i[t]] # MPI_KEYVAL_INVALID
  /\ AtEnd(i[t])
  /\ Return(t)
  /\ UNCHANGED <<table, mpi_kv, called, peak, lowest_first>>

\* The claimed entry is cleared; nobody else looks at a reserved entry.
Clear(t) ==
  /\ pc[t] = "clear"
  /\ copy_fn' = [copy_fn EXCEPT ![i[t]] = NULL]
  /\ delete_fn' = [delete_fn EXCEPT ![i[t]] = NULL]
  /\ Goto(t, "publish")
  /\ UNCHANGED <<keyval, locals, mpi_kv, called, peak, lowest_first>>

\* The release store makes the entry findable, its procedures still missing.
Publish(t) ==
  /\ pc[t] = "publish"
  /\ keyval' = [keyval EXCEPT ![i[t]] = kv[t]]
  /\ Goto(t, "write")
  /\ UNCHANGED <<copy_fn, delete_fn, locals, mpi_kv, called, peak, lowest_first>>

\* The procedure is recorded; the delete callback follows the copy callback.
Write(t) ==
  /\ pc[t] = "write"
  /\ IF which[t] = "copy"
     THEN /\ copy_fn' = [copy_fn EXCEPT ![i[t]] = args[t].copy]
          /\ UNCHANGED delete_fn
     ELSE /\ delete_fn' = [delete_fn EXCEPT ![i[t]] = args[t].delete]
          /\ UNCHANGED copy_fn
  /\ \/ /\ which[t] = "copy" /\ ~mpif_predefined_callback(args[t].delete)
        /\ EnterRegister(t, kv[t], "delete")
        /\ UNCHANGED mpi_kv
     \/ /\ which[t] = "delete" \/ mpif_predefined_callback(args[t].delete)
        /\ Issue(t, kv[t], mpi_kv)
  /\ UNCHANGED <<keyval, called, peak, lowest_first>>

-----------------------------------------------------------------------------
(* The program's use of a keyval, and MPI's callbacks                      *)

\* A keyval marked for deletion goes away with its last attribute.
Settle(r) == IF r.freed /\ r.attrs = 0 THEN NULL ELSE r

\* MPI_Comm_set_attr.
SetAttr(k) ==
  /\ Issued(k) /\ ~mpi_kv[k].freed
  /\ mpi_kv[k].attrs < MaxAttrs
  /\ mpi_kv' = [mpi_kv EXCEPT ![k].attrs = @ + 1]
  /\ UNCHANGED <<table, pc, locals, called, peak, lowest_first>>

\* MPI_Comm_free_keyval only marks the keyval; mpif's entry stays.
FreeKeyval(k) ==
  /\ Issued(k) /\ ~mpi_kv[k].freed
  /\ mpi_kv' = [mpi_kv EXCEPT ![k] = Settle([mpi_kv[k] EXCEPT !.freed = TRUE])]
  /\ UNCHANGED <<table, pc, locals, called, peak, lowest_first>>

\* What call_copy_attr (or comm_copy_attr_10) and call_delete_attr find for
\* keyval k: NULL means the trampoline returns MPI_ERR_OTHER.
call_copy_attr(k) ==
  IF find_attr_entry(k) = {} THEN NULL
  ELSE copy_fn[CHOOSE e \in find_attr_entry(k) : TRUE]
call_delete_attr(k) ==
  IF find_attr_entry(k) = {} THEN NULL
  ELSE delete_fn[CHOOSE e \in find_attr_entry(k) : TRUE]

\* The call MPI makes for callback w of keyval k, through the trampoline it has;
\* a predefined callback is MPI's own.
Invoke(k, w) ==
  LET f == mpi_kv[k].fns[w]
  IN  IF f = Predefined THEN UNCHANGED called
      ELSE called' = <<<<k, w>>, <<IF f.fn = "copy" THEN call_copy_attr(k)
                                                    ELSE call_delete_attr(k),
                                   f.as>>>>

\* An object with an attribute under k is duplicated; flag says whether the
\* copy gets the attribute too.
CopyAttr(k) ==
  /\ Exists(k)
  /\ mpi_kv[k].attrs > 0
  /\ Invoke(k, "copy")
  /\ \/ UNCHANGED mpi_kv
     \/ /\ mpi_kv[k].attrs < MaxAttrs
        /\ mpi_kv' = [mpi_kv EXCEPT ![k].attrs = @ + 1]
  /\ UNCHANGED <<table, pc, locals, peak, lowest_first>>

\* An attribute under k is deleted, or kept because the callback refused.
DeleteAttr(k) ==
  /\ Exists(k)
  /\ mpi_kv[k].attrs > 0
  /\ Invoke(k, "delete")
  /\ \/ UNCHANGED mpi_kv
     \/ mpi_kv' = [mpi_kv EXCEPT
                     ![k] = Settle([mpi_kv[k] EXCEPT !.attrs = @ - 1])]
  /\ UNCHANGED <<table, pc, locals, peak, lowest_first>>

-----------------------------------------------------------------------------

\* What a thread inside mpi_*_create_keyval_ does next.
Step(t) ==
  \/ CreateFails(t)
  \/ \E k \in Keyvals : CreateSucceeds(t, k)
  \/ Found(t)
  \/ NotFound(t)
  \/ Claim(t)
  \/ Skip(t)
  \/ Full(t)
  \/ Clear(t)
  \/ Publish(t)
  \/ Write(t)

Next ==
  \/ \E t \in Threads :
       \/ \E a \in Arguments : CreateKeyval(t, a)
       \/ Step(t)
  \/ \E k \in Keyvals :
       \/ SetAttr(k)
       \/ FreeKeyval(k)
       \/ CopyAttr(k)
       \/ DeleteAttr(k)

Spec == Init /\ [][Next]_vars

-----------------------------------------------------------------------------
(* Properties                                                              *)

\* The shape of the table, of each thread's locals and of MPI's keyvals.
TypeOK ==
  /\ keyval \in [Entries -> Keyvals \union {MPI_KEYVAL_INVALID, KEYVAL_RESERVED}]
  /\ copy_fn \in [Entries -> Procs \union {NULL}]
  /\ delete_fn \in [Entries -> Procs \union {NULL}]
  /\ pc \in [Threads -> {"idle", "mpi_create", "find", "claim", "clear",
                         "publish", "write"}]
  /\ args \in [Threads -> Arguments]
  /\ kv \in [Threads -> Keyvals \union {MPI_KEYVAL_INVALID}]
  /\ which \in [Threads -> {"copy", "delete"}]
  /\ i \in [Threads -> Entries]
  /\ mpi_kv \in [Keyvals -> Keyval \union {NULL}]
  /\ peak \in Nat
  /\ lowest_first \in BOOLEAN

\* The table and the locals keep their types, and a keyval has at most one
\* entry, whatever registrations overlap and however often MPI hands its
\* number out again, so find_attr_entry is a function.
EntriesUnique ==
  /\ TypeOK
  /\ \A e, f \in Entries :
       keyval[e] = keyval[f] /\ keyval[e] \in Keyvals => e = f

\* Once a create has returned a keyval, and for as long as MPI holds it, each
\* user-defined callback of it is found in the table as the program gave it,
\* never as an earlier owner of the same number left it; and no thread is
\* about to write that entry, so the plain reads of copy_fn and delete_fn in
\* the trampolines race nothing.
IssuedMeansRegistered ==
  \A k \in Keyvals : Issued(k) =>
    /\ UserDefined(k, "copy") => call_copy_attr(k) = mpi_kv[k].asked.copy
    /\ UserDefined(k, "delete") => call_delete_attr(k) = mpi_kv[k].asked.delete
    /\ \A t \in Threads :
         pc[t] \in {"clear", "publish", "write"} => keyval[i[t]] # k

\* Registration is all or nothing: when mpi_*_create_keyval_ reports an error
\* the keyval has no entry, not one with its copy callback only.
RefusalLeavesNoEntry ==
  [][\A t \in Threads :
       pc[t] \in {"find", "claim", "write"} /\ pc'[t] = "idle" =>
         \/ \E k \in Keyvals : k = kv[t] /\ Issued(k)'
         \/ \A e \in Entries : keyval'[e] # kv[t]]_vars

\* "The table grows only to the number of keyvals live at one time": with an
\* MPI that hands out the lowest free number, the entries taken never exceed
\* the largest number of keyvals MPI ever held at once.
TableGrowth ==
  lowest_first =>
    Cardinality({e \in Entries : keyval[e] # MPI_KEYVAL_INVALID}) <= peak

\* How the MPI standard declares the callbacks of a kind of keyval: those of
\* MPI_Keyval_create have default INTEGER values, the others address-sized ones.
Declared(kind) ==
  CASE kind = "comm"    -> <<"comm", "MPI_Aint">>
    [] kind = "type"    -> <<"type", "MPI_Aint">>
    [] kind = "win"     -> <<"win", "MPI_Aint">>
    [] kind = "comm_10" -> <<"comm", "MPI_Fint">>

\* The registry implements CallbackDispatch: from the return of the create to
\* the end of the keyval's last attribute, a copy or delete callback reaches
\* the program's procedure, called as it is declared.
Dispatch ==
  INSTANCE CallbackDispatch WITH
    Handles <- Keyvals \X {"copy", "delete"},
    Modes   <- Interfaces,
    Unbound <- NULL,
    bound   <- [h \in Keyvals \X {"copy", "delete"} |->
                  IF Issued(h[1]) /\ UserDefined(h[1], h[2])
                  THEN <<mpi_kv[h[1]].asked[h[2]], Declared(mpi_kv[h[1]].asked.kind)>>
                  ELSE NULL]

Refinement == Dispatch!Spec
=============================================================================

------------------------- MODULE AttrRegistryProofs -------------------------
(***************************************************************************)
(* Theorems about AttrRegistry, for any number of threads, entries,        *)
(* procedures and keyvals.  IssuedMeansRegistered speaks of keyvals whose  *)
(* create has returned; what makes it hold is what the create knows at     *)
(* each point of the table's walk (Registering), and that nobody but the   *)
(* creating thread names a keyval before then (Unissued).                  *)
(***************************************************************************)
EXTENDS AttrRegistry, FiniteSetTheorems, FunctionTheorems, TLAPS

\* The thread has a keyval from MPI and is recording a callback of it.
Registers(t) == pc[t] \in {"find", "claim", "clear", "publish", "write"}

\* The thread holds a reserved entry that has no keyval yet.
Reserves(t) == pc[t] \in {"clear", "publish"}

\* Callback p is in the entry of keyval k, among the procedures fns.
HasEntry(keyvals, fns, k, p) == \E e \in Entries : keyvals[e] = k /\ fns[e] = p

\* A thread that records a callback: the keyval is its own and not issued, and
\* the callback is user-defined.
KeyvalIsOwn ==
  \A t \in Threads : Registers(t) =>
    /\ kv[t] \in Keyvals
    /\ Exists(kv[t]) /\ ~mpi_kv[kv[t]].issued /\ mpi_kv[kv[t]].asked = args[t]
    /\ which[t] = "copy" => args[t].copy # Predefined
    /\ which[t] = "delete" => args[t].delete # Predefined
    /\ \A u \in Threads \ {t} : Registers(u) => kv[u] # kv[t]

\* While it claims an entry there is none for the keyval, the entry it reserved
\* is nobody else's, and it writes to the keyval's entry.
EntryIsOwn ==
  \A t \in Threads :
    /\ pc[t] \in {"claim", "clear", "publish"} => \A e \in Entries : keyval[e] # kv[t]
    /\ Reserves(t) => /\ keyval[i[t]] = KEYVAL_RESERVED
                      /\ \A u \in Threads \ {t} : Reserves(u) => i[u] # i[t]
    /\ pc[t] = "write" => keyval[i[t]] = kv[t]

\* The copy callback is in place before the delete callback is recorded.
CopyIsFirst ==
  \A t \in Threads :
    Registers(t) /\ which[t] = "delete" /\ args[t].copy # Predefined =>
      HasEntry(keyval, copy_fn, kv[t], args[t].copy)

Registering == KeyvalIsOwn /\ EntryIsOwn /\ CopyIsFirst

\* A keyval nobody was given carries no attribute and was not freed.
Unissued ==
  \A k \in Keyvals : Exists(k) /\ ~mpi_kv[k].issued =>
    ~mpi_kv[k].freed /\ mpi_kv[k].attrs = 0

\* The user-defined callbacks of an issued keyval are in its entry.
Recorded ==
  \A k \in Keyvals : Issued(k) =>
    /\ mpi_kv[k].asked.copy # Predefined => HasEntry(keyval, copy_fn, k, mpi_kv[k].asked.copy)
    /\ mpi_kv[k].asked.delete # Predefined => HasEntry(keyval, delete_fn, k, mpi_kv[k].asked.delete)

IInv == EntriesUnique /\ Registering /\ Unissued /\ Recorded

-----------------------------------------------------------------------------
(* The inductive invariant                                                 *)

\* The locals of a thread outside the wrappers have their types.
LEMMA NoArgsType == NoArgs \in Arguments
BY AttrRegistryAssumption DEF NoArgs, Arguments, Callbacks

\* Init of AttrRegistry satisfies the inductive invariant.
LEMMA InitEstablishes == Init => IInv
BY AttrRegistryAssumption, NoArgsType DEF Init, IInv, EntriesUnique, TypeOK,
   Registering, KeyvalIsOwn, EntryIsOwn, CopyIsFirst, Registers, Reserves, Unissued, Recorded, Exists, Issued, Entries,
   MPI_KEYVAL_INVALID, KEYVAL_RESERVED

\* A step in which MPI counts attributes, marks or drops issued keyvals keeps
\* the invariant: the table and the threads inside a create are not touched.
LEMMA MpiStep ==
  ASSUME IInv, UNCHANGED <<table, pc, locals, peak, lowest_first>>,
         mpi_kv' \in [Keyvals -> Keyval \union {NULL}],
         \A k \in Keyvals :
           /\ Exists(k)' => /\ Exists(k)
                            /\ mpi_kv'[k].asked = mpi_kv[k].asked
                            /\ mpi_kv'[k].issued = mpi_kv[k].issued
           /\ Exists(k) /\ ~mpi_kv[k].issued => mpi_kv'[k] = mpi_kv[k]
  PROVE  IInv'
<1> USE DEF table, locals, IInv
<1>1. EntriesUnique'
  BY DEF EntriesUnique, TypeOK
<1>2. Registering'
  BY DEF Registering, KeyvalIsOwn, EntryIsOwn, CopyIsFirst, Registers, Reserves, Exists
<1>3. Unissued' /\ Recorded'
  BY DEF Unissued, Recorded, HasEntry, Exists, Issued
<1>4. QED
  BY <1>1, <1>2, <1>3

\* The steps of a create other than MPI's success and the two writes.
LEMMA ThreadStep ==
  ASSUME IInv, NEW t \in Threads,
         \/ \E a \in Arguments : CreateKeyval(t, a)
         \/ CreateFails(t) \/ Found(t) \/ NotFound(t) \/ Claim(t) \/ Skip(t)
         \/ Full(t) \/ Clear(t) \/ Publish(t)
  PROVE  IInv'
<1> USE AttrRegistryAssumption, NoArgsType DEF IInv, EntriesUnique, Goto, table,
        locals, MPI_KEYVAL_INVALID, KEYVAL_RESERVED
<1>1. ASSUME NEW a \in Arguments, CreateKeyval(t, a) PROVE IInv'
  <2> USE <1>1 DEF CreateKeyval
  <2>1. EntriesUnique'
    BY DEF TypeOK
  <2>2. Registering'
    <3>1. KeyvalIsOwn'
      BY DEF TypeOK, Registering, KeyvalIsOwn, Registers, Exists
    <3>2. EntryIsOwn'
      BY DEF TypeOK, Registering, KeyvalIsOwn, EntryIsOwn, Registers, Reserves
    <3>3. CopyIsFirst'
      BY DEF TypeOK, Registering, KeyvalIsOwn, EntryIsOwn, CopyIsFirst, Registers,
         Reserves, HasEntry
    <3>4. QED
      BY <3>1, <3>2, <3>3 DEF Registering
  <2>3. Unissued'
    BY DEF Unissued, Exists
  <2>4. Recorded'
    BY DEF Recorded, HasEntry, Exists, Issued
  <2>5. QED
    BY <2>1, <2>2, <2>3, <2>4
<1>2. ASSUME CreateFails(t) PROVE IInv'
  <2> USE <1>2 DEF CreateFails, Return
  <2>1. EntriesUnique'
    BY DEF TypeOK, Entries
  <2>2. Registering'
    <3>1. KeyvalIsOwn'
      BY DEF TypeOK, Registering, KeyvalIsOwn, Registers, Exists
    <3>2. EntryIsOwn'
      BY DEF TypeOK, Registering, KeyvalIsOwn, EntryIsOwn, Registers, Reserves
    <3>3. CopyIsFirst'
      BY DEF TypeOK, Registering, KeyvalIsOwn, EntryIsOwn, CopyIsFirst, Registers,
         Reserves, HasEntry
    <3>4. QED
      BY <3>1, <3>2, <3>3 DEF Registering
  <2>3. Unissued'
    BY DEF Unissued, Exists
  <2>4. Recorded'
    BY DEF Recorded, HasEntry, Exists, Issued
  <2>5. QED
    BY <2>1, <2>2, <2>3, <2>4
<1>3. ASSUME Found(t) PROVE IInv'
  <2> USE <1>3 DEF Found, find_attr_entry
  <2>1. EntriesUnique'
    BY DEF TypeOK, Entries
  <2>2. Registering'
    <3>1. KeyvalIsOwn'
      BY DEF TypeOK, Registering, KeyvalIsOwn, Registers, Exists
    <3>2. EntryIsOwn'
      BY DEF TypeOK, Registering, KeyvalIsOwn, EntryIsOwn, Registers, Reserves
    <3>3. CopyIsFirst'
      BY DEF TypeOK, Registering, KeyvalIsOwn, EntryIsOwn, CopyIsFirst, Registers,
         Reserves, HasEntry
    <3>4. QED
      BY <3>1, <3>2, <3>3 DEF Registering
  <2>3. Unissued'
    BY DEF Unissued, Exists
  <2>4. Recorded'
    BY DEF Recorded, HasEntry, Exists, Issued
  <2>5. QED
    BY <2>1, <2>2, <2>3, <2>4
<1>4. ASSUME NotFound(t) PROVE IInv'
  <2> USE <1>4 DEF NotFound, find_attr_entry
  <2>1. EntriesUnique'
    BY DEF TypeOK, Entries
  <2>2. Registering'
    <3>1. KeyvalIsOwn'
      BY DEF TypeOK, Registering, KeyvalIsOwn, Registers, Exists
    <3>2. EntryIsOwn'
      BY DEF TypeOK, Registering, KeyvalIsOwn, EntryIsOwn, Registers, Reserves
    <3>3. CopyIsFirst'
      BY DEF TypeOK, Registering, KeyvalIsOwn, EntryIsOwn, CopyIsFirst, Registers,
         Reserves, HasEntry
    <3>4. QED
      BY <3>1, <3>2, <3>3 DEF Registering
  <2>3. Unissued'
    BY DEF Unissued, Exists
  <2>4. Recorded'
    BY DEF Recorded, HasEntry, Exists, Issued
  <2>5. QED
    BY <2>1, <2>2, <2>3, <2>4
<1>5. ASSUME Claim(t) PROVE IInv'
  <2> USE <1>5 DEF Claim
  <2>1. EntriesUnique'
    BY DEF TypeOK, Entries
  <2>2. Registering'
    <3>1. KeyvalIsOwn'
      BY DEF TypeOK, Registering, KeyvalIsOwn, Registers, Exists
    <3>2. EntryIsOwn'
      BY DEF TypeOK, Registering, KeyvalIsOwn, EntryIsOwn, Registers, Reserves
    <3>3. CopyIsFirst'
      BY DEF TypeOK, Registering, KeyvalIsOwn, EntryIsOwn, CopyIsFirst, Registers,
         Reserves, HasEntry
    <3>4. QED
      BY <3>1, <3>2, <3>3 DEF Registering
  <2>3. Unissued'
    BY DEF Unissued, Exists
  <2>4. Recorded'
    BY DEF TypeOK, Registering, KeyvalIsOwn, EntryIsOwn, Registers, Reserves, Recorded, HasEntry,
       Exists, Issued
  <2>5. QED
    BY <2>1, <2>2, <2>3, <2>4
<1>6. ASSUME Skip(t) PROVE IInv'
  <2> USE <1>6 DEF Skip, AtEnd, NextEntry
  <2>1. EntriesUnique'
    BY DEF TypeOK, Entries
  <2>2. Registering'
    <3>1. KeyvalIsOwn'
      BY DEF TypeOK, Registering, KeyvalIsOwn, Registers, Exists
    <3>2. EntryIsOwn'
      BY DEF TypeOK, Registering, KeyvalIsOwn, EntryIsOwn, Registers, Reserves
    <3>3. CopyIsFirst'
      BY DEF TypeOK, Registering, KeyvalIsOwn, EntryIsOwn, CopyIsFirst, Registers,
         Reserves, HasEntry
    <3>4. QED
      BY <3>1, <3>2, <3>3 DEF Registering
  <2>3. Unissued'
    BY DEF Unissued, Exists
  <2>4. Recorded'
    BY DEF Recorded, HasEntry, Exists, Issued
  <2>5. QED
    BY <2>1, <2>2, <2>3, <2>4
<1>7. ASSUME Full(t) PROVE IInv'
  <2> USE <1>7 DEF Full, AtEnd, Return
  <2>1. EntriesUnique'
    BY DEF TypeOK, Entries
  <2>2. Registering'
    <3>1. KeyvalIsOwn'
      BY DEF TypeOK, Registering, KeyvalIsOwn, Registers, Exists
    <3>2. EntryIsOwn'
      BY DEF TypeOK, Registering, KeyvalIsOwn, EntryIsOwn, Registers, Reserves
    <3>3. CopyIsFirst'
      BY DEF TypeOK, Registering, KeyvalIsOwn, EntryIsOwn, CopyIsFirst, Registers,
         Reserves, HasEntry
    <3>4. QED
      BY <3>1, <3>2, <3>3 DEF Registering
  <2>3. Unissued'
    BY DEF Unissued, Exists
  <2>4. Recorded'
    BY DEF Recorded, HasEntry, Exists, Issued
  <2>5. QED
    BY <2>1, <2>2, <2>3, <2>4
<1>8. ASSUME Clear(t) PROVE IInv'
  <2> USE <1>8 DEF Clear
  <2>1. EntriesUnique'
    BY DEF TypeOK, Entries
  <2>2. Registering'
    <3>1. KeyvalIsOwn'
      BY DEF TypeOK, Registering, KeyvalIsOwn, Registers, Exists
    <3>2. EntryIsOwn'
      BY DEF TypeOK, Registering, KeyvalIsOwn, EntryIsOwn, Registers, Reserves
    <3>3. CopyIsFirst'
      BY DEF TypeOK, Registering, KeyvalIsOwn, EntryIsOwn, CopyIsFirst, Registers,
         Reserves, HasEntry
    <3>4. QED
      BY <3>1, <3>2, <3>3 DEF Registering
  <2>3. Unissued'
    BY DEF Unissued, Exists
  <2>4. Recorded'
    BY DEF TypeOK, Registering, KeyvalIsOwn, EntryIsOwn, Registers, Reserves, Recorded, HasEntry,
       Exists, Issued
  <2>5. QED
    BY <2>1, <2>2, <2>3, <2>4
<1>9. ASSUME Publish(t) PROVE IInv'
  <2> USE <1>9 DEF Publish
  <2>1. EntriesUnique'
    BY DEF TypeOK, Entries, Registering, KeyvalIsOwn, EntryIsOwn, Registers, Reserves
  <2>2. Registering'
    <3>1. KeyvalIsOwn'
      BY DEF TypeOK, Registering, KeyvalIsOwn, Registers, Exists
    <3>2. EntryIsOwn'
      BY DEF TypeOK, Registering, KeyvalIsOwn, EntryIsOwn, Registers, Reserves
    <3>3. CopyIsFirst'
      BY DEF TypeOK, Registering, KeyvalIsOwn, EntryIsOwn, CopyIsFirst, Registers,
         Reserves, HasEntry
    <3>4. QED
      BY <3>1, <3>2, <3>3 DEF Registering
  <2>3. Unissued'
    BY DEF Unissued, Exists
  <2>4. Recorded'
    BY DEF TypeOK, Registering, KeyvalIsOwn, EntryIsOwn, Registers, Reserves, Recorded, HasEntry,
       Exists, Issued
  <2>5. QED
    BY <2>1, <2>2, <2>3, <2>4
<1>10. QED
  BY <1>1, <1>2, <1>3, <1>4, <1>5, <1>6, <1>7, <1>8, <1>9

\* The locals keep their types on the way into mpif_register_attr_callback and
\* out of the wrapper.
LEMMA LocalsTyped ==
  ASSUME TypeOK, NEW t \in Threads, NEW k \in Keyvals, NEW w \in {"copy", "delete"},
         EnterRegister(t, k, w) \/ Return(t)
  PROVE  /\ pc' \in [Threads -> {"idle", "mpi_create", "find", "claim", "clear",
                                 "publish", "write"}]
         /\ args' \in [Threads -> Arguments]
         /\ kv' \in [Threads -> Keyvals \union {MPI_KEYVAL_INVALID}]
         /\ which' \in [Threads -> {"copy", "delete"}]
         /\ i' \in [Threads -> Entries]
<1>0. 0 \in Entries
  BY AttrRegistryAssumption DEF Entries
<1>1. CASE EnterRegister(t, k, w)
  BY <1>0, <1>1 DEF TypeOK, EnterRegister, Goto
<1>2. CASE Return(t)
  BY <1>0, <1>2, NoArgsType DEF TypeOK, Return, Goto
<1>3. QED
  BY <1>1, <1>2

\* The functions a wrapper gives MPI are trampolines or MPI's sentinel.
LEMMA FnsTyped ==
  ASSUME NEW a \in Arguments
  PROVE  c_fns(a) \in [{"copy", "delete"} -> Trampolines \union {Predefined}]
BY AttrRegistryAssumption DEF c_fns, Arguments, mpif_attr_trampoline, Trampolines, Interfaces

\* What MPI's success does to MPI's keyvals: the new one has what the program
\* asked for, and is issued at once only if no callback is user-defined.
LEMMA NewKeyval ==
  ASSUME TypeOK, NEW t \in Threads, NEW k \in Keyvals, CreateSucceeds(t, k)
  PROVE  LET r == mpi_kv'[k]
         IN  /\ ~Exists(k)
             /\ mpi_kv' \in [Keyvals -> Keyval \union {NULL}]
             /\ \A j \in Keyvals \ {k} : mpi_kv'[j] = mpi_kv[j]
             /\ r \in Keyval /\ r.asked = args[t] /\ r.fns = c_fns(args[t]) /\ ~r.freed /\ r.attrs = 0
             /\ args[t].copy # Predefined \/ args[t].delete # Predefined => ~r.issued
             /\ \/ /\ args[t].copy # Predefined /\ EnterRegister(t, k, "copy")
                \/ /\ args[t].copy = Predefined /\ args[t].delete # Predefined
                   /\ EnterRegister(t, k, "delete")
                \/ /\ args[t].copy = Predefined /\ args[t].delete = Predefined
                   /\ Return(t)
<1> DEFINE new(b) == [asked |-> args[t], fns |-> c_fns(args[t]), issued |-> b,
                      freed |-> FALSE, attrs |-> 0]
           held == [mpi_kv EXCEPT ![k] = new(FALSE)]
           r == mpi_kv'[k]
<1>1. /\ args[t] \in Arguments
      /\ new(FALSE) \in Keyval /\ new(TRUE) \in Keyval
  BY FnsTyped DEF TypeOK, Keyval
<1>2. \/ /\ args[t].copy # Predefined
         /\ EnterRegister(t, k, "copy") /\ mpi_kv' = held
      \/ /\ args[t].copy = Predefined /\ args[t].delete # Predefined
         /\ EnterRegister(t, k, "delete") /\ mpi_kv' = held
      \/ /\ args[t].copy = Predefined /\ args[t].delete = Predefined
         /\ Issue(t, k, held)
  BY <1>1 DEF CreateSucceeds, mpif_predefined_callback, Arguments
<1>3. Issue(t, k, held) => Return(t) /\ mpi_kv' = [mpi_kv EXCEPT ![k] = new(TRUE)]
  BY DEF Issue, TypeOK
<1>4. /\ mpi_kv' \in [Keyvals -> Keyval \union {NULL}]
      /\ \A j \in Keyvals \ {k} : mpi_kv'[j] = mpi_kv[j]
      /\ r \in Keyval /\ r.asked = args[t] /\ r.fns = c_fns(args[t]) /\ ~r.freed /\ r.attrs = 0
      /\ args[t].copy # Predefined \/ args[t].delete # Predefined => ~r.issued
  <2>1. CASE mpi_kv' = held
    BY <1>1, <2>1 DEF TypeOK
  <2>2. CASE mpi_kv' = [mpi_kv EXCEPT ![k] = new(TRUE)]
    <3>1. args[t].copy = Predefined /\ args[t].delete = Predefined
      <4>1. held # [mpi_kv EXCEPT ![k] = new(TRUE)]
        BY DEF TypeOK
      <4>2. QED
        BY <1>2, <2>2, <4>1
    <3>2. QED
      BY <1>1, <2>2, <3>1 DEF TypeOK
  <2>3. QED
    BY <1>2, <1>3, <2>1, <2>2
<1>5. QED
  BY <1>2, <1>3, <1>4 DEF CreateSucceeds

\* MPI's success keeps the invariant: the keyval is new, so no other thread and
\* no issued keyval has its number, though an old entry may.
LEMMA CreateSucceedsStep ==
  ASSUME IInv, NEW t \in Threads, NEW k \in Keyvals, CreateSucceeds(t, k)
  PROVE  IInv'
<1> DEFINE r == mpi_kv'[k]
<1>0. TypeOK /\ EntriesUnique /\ Registering /\ Unissued /\ Recorded
  BY DEF IInv, EntriesUnique
<1>2. peak' \in Nat
  <2>1. InMpi \in SUBSET Keyvals
    BY DEF InMpi
  <2>2. Cardinality(InMpi) \in Nat
    BY <2>1, FS_Subset, FS_CardinalityType, AttrRegistryAssumption
  <2>3. QED
    BY <1>0, <2>2 DEF CreateSucceeds, TypeOK
<1>3. /\ ~Exists(k) /\ pc[t] = "mpi_create"
      /\ UNCHANGED <<keyval, copy_fn, delete_fn, called, lowest_first>>
  BY DEF CreateSucceeds, table
<1>6. /\ mpi_kv' \in [Keyvals -> Keyval \union {NULL}]
      /\ \A j \in Keyvals \ {k} : mpi_kv'[j] = mpi_kv[j]
      /\ r \in Keyval /\ r.asked = args[t] /\ r.fns = c_fns(args[t]) /\ ~r.freed /\ r.attrs = 0
      /\ args[t].copy # Predefined \/ args[t].delete # Predefined => ~r.issued
  BY <1>0, NewKeyval
<1>7. \/ /\ args[t].copy # Predefined /\ EnterRegister(t, k, "copy")
      \/ /\ args[t].copy = Predefined /\ args[t].delete # Predefined
         /\ EnterRegister(t, k, "delete")
      \/ /\ args[t].copy = Predefined /\ args[t].delete = Predefined
         /\ Return(t)
  BY <1>0, NewKeyval
<1> USE NullIsNoKeyval
<1> HIDE DEF r
<1>8. EntriesUnique'
  <2>1. /\ pc' \in [Threads -> {"idle", "mpi_create", "find", "claim", "clear",
                                "publish", "write"}]
        /\ args' \in [Threads -> Arguments]
        /\ kv' \in [Threads -> Keyvals \union {MPI_KEYVAL_INVALID}]
        /\ which' \in [Threads -> {"copy", "delete"}]
        /\ i' \in [Threads -> Entries]
    BY <1>0, <1>7, LocalsTyped
  <2>2. TypeOK'
    BY <1>0, <1>2, <1>3, <1>6, <2>1 DEF TypeOK
  <2>3. QED
    BY <1>0, <1>3, <2>2 DEF EntriesUnique
<1>9. Registering'
  <2>1. /\ \A u \in Threads \ {t} : /\ pc'[u] = pc[u] /\ kv'[u] = kv[u] /\ i'[u] = i[u]
                                     /\ args'[u] = args[u] /\ which'[u] = which[u]
        /\ pc'[t] \in {"idle", "find"}
        /\ pc'[t] = "find" =>
             /\ kv'[t] = k /\ args'[t] = args[t]
             /\ which'[t] = "copy" => args[t].copy # Predefined
             /\ which'[t] = "delete" => /\ args[t].copy = Predefined
                                        /\ args[t].delete # Predefined
             /\ args[t].copy # Predefined \/ args[t].delete # Predefined
    BY <1>0, <1>7 DEF TypeOK, EnterRegister, Return, Goto
  <2>2. KeyvalIsOwn'
    <3> SUFFICES ASSUME NEW u \in Threads, Registers(u)'
                 PROVE  KeyvalIsOwn!(u)!2'
      BY DEF KeyvalIsOwn
    <3>1. CASE u = t
      BY <1>0, <1>3, <1>6, <2>1, <3>1 DEF r, Registering, KeyvalIsOwn, Registers, Exists
    <3>2. CASE u # t
      <4>1. Registers(u) /\ kv[u] \in Keyvals \ {k}
        BY <1>0, <1>3, <2>1, <3>2 DEF Registering, KeyvalIsOwn, Registers
      <4>2. \A v \in Threads \ {u} : Registers(v)' => kv'[v] # kv[u]
        BY <1>0, <2>1, <4>1 DEF Registering, KeyvalIsOwn, Registers
      <4>3. /\ Exists(kv[u]) /\ ~mpi_kv[kv[u]].issued /\ mpi_kv[kv[u]].asked = args[u]
            /\ which[u] = "copy" => args[u].copy # Predefined
            /\ which[u] = "delete" => args[u].delete # Predefined
        BY <1>0, <4>1 DEF Registering, KeyvalIsOwn
      <4>4. /\ kv'[u] = kv[u] /\ args'[u] = args[u] /\ which'[u] = which[u]
            /\ mpi_kv'[kv[u]] = mpi_kv[kv[u]]
        BY <1>6, <2>1, <3>2, <4>1
      <4>5. QED
        BY <4>1, <4>2, <4>3, <4>4 DEF Exists
    <3>3. QED
      BY <3>1, <3>2
  <2>3. EntryIsOwn'
    BY <1>0, <1>3, <2>1 DEF Registering, EntryIsOwn, Reserves
  <2>4. CopyIsFirst'
    BY <1>0, <1>3, <2>1 DEF Registering, CopyIsFirst, Registers
  <2>5. QED
    BY <2>2, <2>3, <2>4 DEF Registering
<1>10. Unissued'
  BY <1>0, <1>6 DEF r, Unissued, Exists
<1>11. Recorded'
  BY <1>0, <1>3, <1>6 DEF r, Recorded, HasEntry, Exists, Issued
<1>12. QED
  BY <1>8, <1>9, <1>10, <1>11 DEF IInv

\* The store of a procedure keeps the invariant: the entry is the keyval's own,
\* and the keyval is issued only after its last user-defined callback is in.
LEMMA WriteStep ==
  ASSUME IInv, NEW t \in Threads, Write(t)
  PROVE  IInv'
<1> DEFINE k == kv[t]
           r == [mpi_kv[k] EXCEPT !.issued = TRUE]
<1> USE AttrRegistryAssumption, NullIsNoKeyval, NoArgsType
<1>0. TypeOK /\ EntriesUnique /\ Registering /\ Unissued /\ Recorded
  BY DEF IInv, EntriesUnique
<1>1. /\ k \in Keyvals /\ Exists(k) /\ ~mpi_kv[k].issued /\ mpi_kv[k].asked = args[t]
      /\ which[t] = "copy" => args[t].copy # Predefined
      /\ which[t] = "delete" => args[t].delete # Predefined
      /\ \A u \in Threads \ {t} : Registers(u) => kv[u] # k
      /\ keyval[i[t]] = k /\ i[t] \in Entries
      /\ which[t] = "delete" /\ args[t].copy # Predefined => copy_fn[i[t]] = args[t].copy
      /\ pc[t] = "write" /\ which[t] \in {"copy", "delete"}
  BY <1>0 DEF Write, TypeOK, EntriesUnique, Registering, KeyvalIsOwn,
     EntryIsOwn, CopyIsFirst, Registers, HasEntry
<1>2. /\ mpi_kv[k] \in Keyval /\ r \in Keyval /\ r.issued
      /\ r.asked = args[t] /\ r.freed = mpi_kv[k].freed /\ r.attrs = mpi_kv[k].attrs
  <2>1. mpi_kv[k] \in Keyval
    BY <1>0, <1>1 DEF TypeOK, Exists
  <2>2. QED
    BY <1>1, <2>1 DEF Keyval
<1>3. \/ /\ which[t] = "copy" /\ args[t].delete # Predefined
         /\ EnterRegister(t, k, "delete") /\ mpi_kv' = mpi_kv
      \/ /\ which[t] = "delete" \/ args[t].delete = Predefined
         /\ Return(t) /\ mpi_kv' = [mpi_kv EXCEPT ![k] = r]
  BY DEF Write, Issue, mpif_predefined_callback
<1>4. /\ which[t] = "copy" => /\ copy_fn' = [copy_fn EXCEPT ![i[t]] = args[t].copy]
                              /\ UNCHANGED delete_fn
      /\ which[t] = "delete" => /\ delete_fn' = [delete_fn EXCEPT ![i[t]] = args[t].delete]
                                /\ UNCHANGED copy_fn
      /\ UNCHANGED <<keyval, called, peak, lowest_first>>
  BY DEF Write
<1>5. /\ which[t] = "copy" => args[t].copy \in Procs
      /\ which[t] = "delete" => args[t].delete \in Procs
  BY <1>0, <1>1 DEF TypeOK, Arguments, Callbacks
<1>6. /\ copy_fn' \in [Entries -> Procs \union {NULL}]
      /\ delete_fn' \in [Entries -> Procs \union {NULL}]
      /\ \A e \in Entries \ {i[t]} : /\ copy_fn'[e] = copy_fn[e]
                                     /\ delete_fn'[e] = delete_fn[e]
      /\ args[t].copy # Predefined => copy_fn'[i[t]] = args[t].copy
      /\ which[t] = "delete" => delete_fn'[i[t]] = args[t].delete
  BY <1>0, <1>1, <1>4, <1>5 DEF TypeOK
<1>7. \A j \in Keyvals \ {k} : \A p :
        /\ HasEntry(keyval, copy_fn, j, p) => HasEntry(keyval', copy_fn', j, p)
        /\ HasEntry(keyval, delete_fn, j, p) => HasEntry(keyval', delete_fn', j, p)
  BY <1>1, <1>4, <1>6 DEF HasEntry
<1>8. /\ mpi_kv' \in [Keyvals -> Keyval \union {NULL}]
      /\ \A j \in Keyvals \ {k} : mpi_kv'[j] = mpi_kv[j]
      /\ mpi_kv'[k] = mpi_kv[k] \/ mpi_kv'[k] = r
      /\ mpi_kv'[k] = r => which[t] = "delete" \/ args[t].delete = Predefined
  <2> HIDE DEF r
  <2>1. QED
    BY <1>0, <1>1, <1>2, <1>3 DEF TypeOK
<1> HIDE DEF k, r
<1>9. EntriesUnique'
  <2>1. /\ pc' \in [Threads -> {"idle", "mpi_create", "find", "claim", "clear",
                                "publish", "write"}]
        /\ args' \in [Threads -> Arguments]
        /\ kv' \in [Threads -> Keyvals \union {MPI_KEYVAL_INVALID}]
        /\ which' \in [Threads -> {"copy", "delete"}]
        /\ i' \in [Threads -> Entries]
    BY <1>0, <1>1, <1>3, LocalsTyped
  <2>2. TypeOK'
    BY <1>0, <1>4, <1>6, <1>8, <2>1 DEF TypeOK
  <2>3. QED
    BY <1>0, <1>4, <2>2 DEF EntriesUnique
<1>10. Registering'
  <2>1. /\ \A u \in Threads \ {t} : /\ pc'[u] = pc[u] /\ kv'[u] = kv[u] /\ i'[u] = i[u]
                                     /\ args'[u] = args[u] /\ which'[u] = which[u]
        /\ pc'[t] \in {"idle", "find"}
        /\ pc'[t] = "find" =>
             /\ kv'[t] = k /\ args'[t] = args[t] /\ mpi_kv' = mpi_kv
             /\ which'[t] = "delete" /\ args[t].delete # Predefined
    BY <1>0, <1>3 DEF TypeOK, EnterRegister, Return, Goto
  <2>2. KeyvalIsOwn'
    <3> SUFFICES ASSUME NEW u \in Threads, Registers(u)'
                 PROVE  KeyvalIsOwn!(u)!2'
      BY DEF KeyvalIsOwn
    <3>1. CASE u = t
      BY <1>1, <2>1, <3>1 DEF Registers, Exists
    <3>2. CASE u # t
      <4>1. Registers(u) /\ kv[u] # k
        BY <1>1, <2>1, <3>2 DEF Registers
      <4>2. QED
        BY <1>0, <1>8, <2>1, <3>2, <4>1 DEF Registering, KeyvalIsOwn, Registers, Exists
    <3>3. QED
      BY <3>1, <3>2
  <2>3. EntryIsOwn'
    BY <1>0, <1>4, <2>1 DEF Registering, EntryIsOwn, Reserves
  <2>4. CopyIsFirst'
    <3> SUFFICES ASSUME NEW u \in Threads, Registers(u)', which'[u] = "delete",
                        args'[u].copy # Predefined
                 PROVE  HasEntry(keyval', copy_fn', kv'[u], args'[u].copy)
      BY DEF CopyIsFirst
    <3>1. CASE u = t
      BY <1>1, <1>4, <1>6, <2>1, <3>1 DEF Registers, HasEntry
    <3>2. CASE u # t
      <4>1. Registers(u) /\ kv[u] \in Keyvals \ {k}
        BY <1>0, <1>1, <2>1, <3>2 DEF Registers, Registering, KeyvalIsOwn
      <4>2. HasEntry(keyval, copy_fn, kv[u], args[u].copy)
        BY <1>0, <2>1, <3>2, <4>1 DEF Registering, CopyIsFirst
      <4>3. QED
        BY <1>7, <2>1, <3>2, <4>1, <4>2
    <3>3. QED
      BY <3>1, <3>2
  <2>5. QED
    BY <2>2, <2>3, <2>4 DEF Registering
<1>11. Unissued'
  BY <1>0, <1>2, <1>8 DEF Unissued, Exists
<1>12. Recorded'
  <2> SUFFICES ASSUME NEW j \in Keyvals, Issued(j)'
               PROVE  /\ mpi_kv'[j].asked.copy # Predefined =>
                           HasEntry(keyval', copy_fn', j, mpi_kv'[j].asked.copy)
                      /\ mpi_kv'[j].asked.delete # Predefined =>
                           HasEntry(keyval', delete_fn', j, mpi_kv'[j].asked.delete)
    BY DEF Recorded
  <2>1. CASE j = k
    BY <1>1, <1>2, <1>4, <1>6, <1>8, <2>1 DEF Issued, HasEntry
  <2>2. CASE j # k
    BY <1>0, <1>7, <1>8, <2>2 DEF Recorded, Issued, Exists
  <2>3. QED
    BY <2>1, <2>2
<1>13. QED
  BY <1>9, <1>10, <1>11, <1>12 DEF IInv

\* What the program and MPI do with a keyval it was given: the table stays, and
\* MPI's record changes in its counts, or goes.
MpiUse ==
  /\ UNCHANGED <<table, pc, locals, peak, lowest_first>>
  /\ mpi_kv' \in [Keyvals -> Keyval \union {NULL}]
  /\ \A k \in Keyvals :
       /\ Exists(k)' => /\ Exists(k)
                        /\ mpi_kv'[k].asked = mpi_kv[k].asked
                        /\ mpi_kv'[k].fns = mpi_kv[k].fns
                        /\ mpi_kv'[k].issued = mpi_kv[k].issued
       /\ Exists(k) /\ ~mpi_kv[k].issued => mpi_kv'[k] = mpi_kv[k]

\* Replacing MPI's record of an issued keyval, or dropping it, is such a use.
LEMMA UseOfIssued ==
  ASSUME TypeOK, UNCHANGED <<table, pc, locals, peak, lowest_first>>,
         NEW k \in Keyvals, Issued(k), NEW r \in Keyval \union {NULL},
         mpi_kv' = [mpi_kv EXCEPT ![k] = r],
         r # NULL => /\ r.asked = mpi_kv[k].asked /\ r.issued = mpi_kv[k].issued
                     /\ r.fns = mpi_kv[k].fns
  PROVE  MpiUse
BY DEF MpiUse, TypeOK, Issued, Exists

\* MPI_Comm_set_attr, MPI_Comm_free_keyval and MPI's callbacks are such uses.
LEMMA ProgramUses ==
  ASSUME IInv, NEW k \in Keyvals,
         SetAttr(k) \/ FreeKeyval(k) \/ CopyAttr(k) \/ DeleteAttr(k)
  PROVE  MpiUse
<1> DEFINE more == [mpi_kv[k] EXCEPT !.attrs = @ + 1]
           less == [mpi_kv[k] EXCEPT !.attrs = @ - 1]
           mark == [mpi_kv[k] EXCEPT !.freed = TRUE]
           Kept(r) == r \in Keyval /\ r.asked = mpi_kv[k].asked
                                   /\ r.fns = mpi_kv[k].fns
                                   /\ r.issued = mpi_kv[k].issued
<1> USE NullIsNoKeyval
<1>0. TypeOK /\ Unissued
  BY DEF IInv, EntriesUnique
<1>1. /\ UNCHANGED <<table, pc, locals, peak, lowest_first>>
      /\ Issued(k) /\ mpi_kv[k] \in Keyval
  BY <1>0 DEF SetAttr, FreeKeyval, CopyAttr, DeleteAttr, Issued, Unissued, Exists, TypeOK,
     Keyval
<1>2. Kept(more) /\ Kept(mark) /\ (mpi_kv[k].attrs > 0 => Kept(less))
  <2>1. Kept(more)
    BY <1>1 DEF Keyval
  <2>2. Kept(mark)
    BY <1>1 DEF Keyval
  <2>3. mpi_kv[k].attrs > 0 => Kept(less)
    BY <1>1 DEF Keyval
  <2>4. QED
    BY <2>1, <2>2, <2>3
<1>3. \/ UNCHANGED mpi_kv
      \/ mpi_kv' = [mpi_kv EXCEPT ![k] = more]
      \/ mpi_kv' = [mpi_kv EXCEPT ![k] = Settle(mark)]
      \/ mpi_kv[k].attrs > 0 /\ mpi_kv' = [mpi_kv EXCEPT ![k] = Settle(less)]
  BY DEF SetAttr, FreeKeyval, CopyAttr, DeleteAttr
<1> HIDE DEF more, less, mark
<1>4. ASSUME NEW r, Kept(r), mpi_kv' = [mpi_kv EXCEPT ![k] = r]
      PROVE  MpiUse
  BY <1>0, <1>1, <1>4, UseOfIssued
<1>5. ASSUME mpi_kv' = [mpi_kv EXCEPT ![k] = NULL] PROVE MpiUse
  BY <1>0, <1>1, <1>5, UseOfIssued
<1>6. \A r : Settle(r) = r \/ Settle(r) = NULL
  BY DEF Settle
<1>7. CASE UNCHANGED mpi_kv
  BY <1>0, <1>1, <1>7 DEF MpiUse, TypeOK, Exists
<1>8. CASE mpi_kv' = [mpi_kv EXCEPT ![k] = Settle(mark)]
  <2>1. \/ mpi_kv' = [mpi_kv EXCEPT ![k] = mark]
        \/ mpi_kv' = [mpi_kv EXCEPT ![k] = NULL]
    BY <1>6, <1>8, Zenon
  <2>2. QED
    BY <1>2, <1>4, <1>5, <2>1
<1>9. CASE mpi_kv[k].attrs > 0 /\ mpi_kv' = [mpi_kv EXCEPT ![k] = Settle(less)]
  <2>1. \/ mpi_kv' = [mpi_kv EXCEPT ![k] = less]
        \/ mpi_kv' = [mpi_kv EXCEPT ![k] = NULL]
    BY <1>6, <1>9, Zenon
  <2>2. QED
    BY <1>2, <1>4, <1>5, <1>9, <2>1
<1>10. QED
  BY <1>2, <1>3, <1>4, <1>7, <1>8, <1>9

\* Every step preserves the inductive invariant.
LEMMA StepPreserves == IInv /\ [Next]_vars => IInv'
<1> SUFFICES ASSUME IInv, [Next]_vars PROVE IInv'
  OBVIOUS
<1>1. ASSUME MpiUse PROVE IInv'
  BY <1>1, MpiStep DEF MpiUse
<1>2. CASE UNCHANGED vars
  <2>1. MpiUse
    BY <1>2 DEF MpiUse, vars, IInv, EntriesUnique, TypeOK, Exists
  <2>2. QED
    BY <1>1, <2>1
<1>3. QED
  BY <1>1, <1>2, ThreadStep, CreateSucceedsStep, WriteStep, ProgramUses DEF Next, Step

\* The inductive invariant holds throughout.
LEMMA Invariance == Spec => []IInv
BY InitEstablishes, StepPreserves, PTL DEF Spec

-----------------------------------------------------------------------------
(* The theorems                                                            *)

\* For any number of threads and entries: a keyval has at most one entry.
THEOREM OneEntryPerKeyval == Spec => []EntriesUnique
BY Invariance, PTL DEF IInv

\* What the trampolines of a keyval with an entry find is that entry.
LEMMA LookupFindsEntry ==
  ASSUME EntriesUnique, NEW k \in Keyvals, NEW p
  PROVE  /\ HasEntry(keyval, copy_fn, k, p) => call_copy_attr(k) = p
         /\ HasEntry(keyval, delete_fn, k, p) => call_delete_attr(k) = p
<1> SUFFICES ASSUME NEW e \in Entries, keyval[e] = k
             PROVE  /\ call_copy_attr(k) = copy_fn[e]
                    /\ call_delete_attr(k) = delete_fn[e]
  BY DEF HasEntry
<1>1. find_attr_entry(k) = {e}
  BY DEF find_attr_entry, EntriesUnique
<1>2. (CHOOSE f \in {e} : TRUE) = e
  OBVIOUS
<1>3. QED
  BY <1>1, <1>2 DEF call_copy_attr, call_delete_attr

\* From the return of the create on, and for as long as MPI holds the keyval,
\* the trampolines find the procedures the program gave, and no registration
\* races their reads, whatever numbers MPI reuses.
THEOREM RegisteredWhenIssued == Spec => []IssuedMeansRegistered
<1>1. IInv => IssuedMeansRegistered
  <2> SUFFICES ASSUME IInv, NEW k \in Keyvals, Issued(k)
               PROVE  IssuedMeansRegistered!(k)!2
    BY DEF IssuedMeansRegistered
  <2>1. UserDefined(k, "copy") => call_copy_attr(k) = mpi_kv[k].asked.copy
    BY LookupFindsEntry DEF IInv, Recorded, UserDefined, mpif_predefined_callback
  <2>2. UserDefined(k, "delete") => call_delete_attr(k) = mpi_kv[k].asked.delete
    BY LookupFindsEntry DEF IInv, Recorded, UserDefined, mpif_predefined_callback
  <2>3. \A t \in Threads :
          pc[t] \in {"clear", "publish", "write"} => keyval[i[t]] # k
    BY AttrRegistryAssumption DEF IInv, Registering, KeyvalIsOwn, EntryIsOwn, Registers,
       Reserves, Issued, KEYVAL_RESERVED
  <2>4. QED
    BY <2>1, <2>2, <2>3
<1>2. QED
  BY <1>1, Invariance, PTL

\* Registration is all or nothing: a create that returns an error after MPI made
\* the keyval leaves no entry for it.
THEOREM RefusalsLeaveNothing == Spec => RefusalLeavesNoEntry
<1> DEFINE Refusal(t) ==
      pc[t] \in {"find", "claim", "write"} /\ pc'[t] = "idle" =>
        \/ \E k \in Keyvals : k = kv[t] /\ Issued(k)'
        \/ \A e \in Entries : keyval'[e] # kv[t]
<1>1. IInv /\ [Next]_vars => [\A t \in Threads : Refusal(t)]_vars
  <2> SUFFICES ASSUME IInv, Next, NEW t \in Threads,
                      pc[t] \in {"find", "claim", "write"}, pc'[t] = "idle"
               PROVE  \/ \E k \in Keyvals : k = kv[t] /\ Issued(k)'
                      \/ \A e \in Entries : keyval'[e] # kv[t]
    OBVIOUS
  <2>1. Full(t) \/ (Write(t) /\ Issue(t, kv[t], mpi_kv))
    <3>1. ASSUME MpiUse PROVE FALSE
      BY <3>1 DEF MpiUse
    <3>2. ASSUME NEW u \in Threads,
                 \/ \E a \in Arguments : CreateKeyval(u, a)
                 \/ CreateFails(u) \/ \E k \in Keyvals : CreateSucceeds(u, k)
                 \/ Found(u) \/ NotFound(u) \/ Claim(u) \/ Skip(u) \/ Clear(u) \/ Publish(u)
          PROVE  FALSE
      BY <3>2 DEF IInv, EntriesUnique, TypeOK, CreateKeyval, CreateFails, CreateSucceeds,
         Found, NotFound, Claim, Skip, Clear, Publish, Goto, Return, Issue, EnterRegister
    <3>3. ASSUME NEW u \in Threads, Full(u) PROVE u = t
      BY <3>3 DEF IInv, EntriesUnique, TypeOK, Full, Return, Goto
    <3>4. ASSUME NEW u \in Threads, Write(u) PROVE u = t /\ Issue(t, kv[t], mpi_kv)
      BY <3>4 DEF IInv, EntriesUnique, TypeOK, Write, Issue, Return, EnterRegister, Goto
    <3>5. QED
      BY <3>1, <3>2, <3>3, <3>4, ProgramUses DEF Next, Step
  <2>2. CASE Full(t)
    BY <2>2 DEF Full, IInv, Registering, EntryIsOwn, table
  <2>3. CASE Write(t) /\ Issue(t, kv[t], mpi_kv)
    <3> DEFINE k == kv[t]
               r == [mpi_kv[k] EXCEPT !.issued = TRUE]
    <3>1. k \in Keyvals /\ Exists(k)
      BY <2>3 DEF IInv, Registering, KeyvalIsOwn, Registers
    <3>2. r \in Keyval /\ r.issued
      BY <3>1 DEF IInv, EntriesUnique, TypeOK, Exists, Keyval
    <3>3. mpi_kv' = [mpi_kv EXCEPT ![k] = r]
      BY <2>3 DEF Issue
    <3> HIDE DEF r, k
    <3>4. mpi_kv'[k] # NULL /\ mpi_kv'[k].issued
      BY <3>1, <3>2, <3>3, NullIsNoKeyval DEF IInv, EntriesUnique, TypeOK
    <3>5. QED
      BY <3>1, <3>4 DEF k, Issued, Exists
  <2>4. QED
    BY <2>1, <2>2, <2>3
<1>2. QED
  BY <1>1, Invariance, PTL DEF Spec, RefusalLeavesNoEntry

\* What the program registered: the procedure and interface of callback w of
\* keyval k while the keyval is issued and the callback is user-defined.
Given(kvs, k, w) ==
  IF kvs[k] # NULL /\ kvs[k].issued /\ kvs[k].asked[w] # Predefined
  THEN <<kvs[k].asked[w], Declared(kvs[k].asked.kind)>> ELSE NULL

\* MPI has for each keyval the functions that the wrapper's choice gives for what
\* the program passed.
Handed == \A k \in Keyvals : Exists(k) => mpi_kv[k].fns = c_fns(mpi_kv[k].asked)

\* No step of a thread or of MPI replaces the functions of a keyval.
LEMMA FunctionsStay ==
  ASSUME IInv, Handed, [Next]_vars
  PROVE  Handed'
<1>0. TypeOK
  BY DEF IInv, EntriesUnique
<1>1. ASSUME UNCHANGED mpi_kv PROVE Handed'
  BY <1>1 DEF Handed, Exists
<1>2. ASSUME NEW t \in Threads, NEW k \in Keyvals, CreateSucceeds(t, k)
      PROVE  Handed'
  BY <1>0, <1>2, NewKeyval DEF Handed, Exists
<1>3. ASSUME NEW t \in Threads, Write(t) PROVE Handed'
  <2>1. kv[t] \in Keyvals /\ mpi_kv[kv[t]] \in Keyval
    BY <1>0, <1>3 DEF Write, IInv, Registering, KeyvalIsOwn, Registers, Exists, TypeOK
  <2>2. Exists(kv[t])
    BY <1>3 DEF Write, IInv, Registering, KeyvalIsOwn, Registers
  <2>3. CASE mpi_kv' = [mpi_kv EXCEPT ![kv[t]].issued = TRUE]
    BY <1>0, <2>1, <2>2, <2>3 DEF Handed, Exists, TypeOK, Keyval
  <2>4. QED
    BY <1>1, <1>3, <2>3 DEF Write, Issue
<1>4. ASSUME NEW k \in Keyvals,
             SetAttr(k) \/ FreeKeyval(k) \/ CopyAttr(k) \/ DeleteAttr(k)
      PROVE  Handed'
  BY <1>4, ProgramUses DEF MpiUse, Handed, Exists
<1>5. QED
  BY <1>1, <1>2, <1>3, <1>4 DEF Next, Step, vars, CreateKeyval, CreateFails, Found,
     NotFound, Claim, Skip, Full, Clear, Publish

\* A registration is one of the dispatch, whatever keyvals MPI holds.
LEMMA GivenType ==
  ASSUME NEW kvs \in [Keyvals -> Keyval \union {NULL}], NEW k \in Keyvals,
         NEW w \in {"copy", "delete"}
  PROVE  Given(kvs, k, w) \in (Procs \X Interfaces) \union {NULL}
<1>0. \A kind \in Kinds : Declared(kind) \in Interfaces
  BY AttrRegistryAssumption DEF Declared, Interfaces
<1>1. CASE w = "copy"
  BY <1>0, <1>1 DEF Given, Keyval, Arguments, Callbacks
<1>2. CASE w = "delete"
  BY <1>0, <1>2 DEF Given, Keyval, Arguments, Callbacks
<1>3. QED
  BY <1>1, <1>2

\* The registry implements CallbackDispatch: from the return of the create to
\* the end of the keyval's last attribute, a copy or delete callback reaches
\* the program's procedure, called as it is declared.
THEOREM RegistryImplementsDispatch == Spec => Refinement
<1> DEFINE H == Keyvals \X {"copy", "delete"}
           bar == [h \in H |->
                    IF Issued(h[1]) /\ UserDefined(h[1], h[2])
                    THEN <<mpi_kv[h[1]].asked[h[2]], Declared(mpi_kv[h[1]].asked.kind)>>
                    ELSE NULL]
<1> USE AttrRegistryAssumption, NullIsNoKeyval
<1>1. Init => Dispatch!Init
  BY DEF Init, Dispatch!Init, Issued, Exists
<1>i. Init => Handed
  BY DEF Init, Handed, Exists
<1>2. ASSUME IInv, IInv', Handed, [Next]_vars
      PROVE  Dispatch!Next \/ (bar' = bar /\ called' = called)
  <2>t. TypeOK /\ TypeOK'
    BY <1>2 DEF IInv, EntriesUnique
  <2>b. /\ bar = [h \in H |-> Given(mpi_kv, h[1], h[2])]
        /\ bar' = [h \in H |-> Given(mpi_kv', h[1], h[2])]
    BY DEF Given, Issued, Exists, UserDefined, mpif_predefined_callback
  <2> HIDE DEF bar
  <2>0. /\ bar \in [H -> Dispatch!Registrations]
        /\ bar' \in [H -> Dispatch!Registrations]
    BY <2>t, <2>b, GivenType DEF TypeOK, Dispatch!Registrations
  <2>1. ASSUME UNCHANGED called,
               \A k \in Keyvals, w \in {"copy", "delete"} :
                 Given(mpi_kv', k, w) = Given(mpi_kv, k, w)
        PROVE  bar' = bar /\ called' = called
    BY <2>1, <2>b
  <2>2. ASSUME NEW t \in Threads,
               \/ \E a \in Arguments : CreateKeyval(t, a)
               \/ CreateFails(t) \/ Found(t) \/ NotFound(t) \/ Claim(t) \/ Skip(t)
               \/ Full(t) \/ Clear(t) \/ Publish(t)
        PROVE  bar' = bar /\ called' = called
    BY <2>1, <2>2 DEF CreateKeyval, CreateFails, Found, NotFound, Claim, Skip, Full,
       Clear, Publish
  <2>3. ASSUME NEW t \in Threads, NEW k \in Keyvals, CreateSucceeds(t, k)
        PROVE  bar' = bar /\ called' = called
    <3>1. \A j \in Keyvals \ {k} : mpi_kv'[j] = mpi_kv[j]
      BY <2>t, <2>3, NewKeyval
    <3>2. /\ mpi_kv[k] = NULL
          /\ mpi_kv'[k].issued => /\ mpi_kv'[k].asked.copy = Predefined
                                  /\ mpi_kv'[k].asked.delete = Predefined
      BY <2>t, <2>3, NewKeyval DEF Exists
    <3>3. \A j \in Keyvals, w \in {"copy", "delete"} :
            Given(mpi_kv', j, w) = Given(mpi_kv, j, w)
      BY <3>1, <3>2 DEF Given
    <3>4. QED
      BY <2>1, <2>3, <3>3 DEF CreateSucceeds
  <2>4. ASSUME NEW t \in Threads, Write(t)
        PROVE  Dispatch!Next
    <3>1. kv[t] \in Keyvals /\ ~mpi_kv[kv[t]].issued
      BY <1>2, <2>4 DEF Write, IInv, Registering, KeyvalIsOwn, Registers
    <3>2. \A j \in Keyvals : j # kv[t] => mpi_kv'[j] = mpi_kv[j]
      BY <2>t, <2>4 DEF Write, Issue, TypeOK
    <3>3. \A j \in Keyvals, w \in {"copy", "delete"} :
            Given(mpi_kv, j, w) # NULL => Given(mpi_kv', j, w) = Given(mpi_kv, j, w)
      BY <3>1, <3>2 DEF Given
    <3>4. \A h \in H : bar[h] # NULL => bar'[h] = bar[h]
      BY <2>b, <3>3
    <3>5. QED
      BY <2>0, <2>4, <3>4 DEF bar, Dispatch!Register, Dispatch!Next, Write
  <2>5. ASSUME MpiUse
        PROVE  \A k \in Keyvals, w \in {"copy", "delete"} :
                 Given(mpi_kv', k, w) \in {Given(mpi_kv, k, w), NULL}
    BY <2>5 DEF MpiUse, Given, Exists
  <2>6. ASSUME NEW k \in Keyvals, CopyAttr(k) \/ DeleteAttr(k)
        PROVE  Dispatch!Next
    <3>1. PICK w \in {"copy", "delete"} : Invoke(k, w)
      BY <2>6 DEF CopyAttr, DeleteAttr
    <3>m. MpiUse
      BY <1>2, <2>6, ProgramUses
    <3>2. \A h \in H : bar'[h] \in {bar[h], NULL}
      BY <2>b, <2>5, <3>m
    <3>e. Exists(k) /\ mpi_kv[k].fns = c_fns(mpi_kv[k].asked)
      BY <1>2, <2>6 DEF CopyAttr, DeleteAttr, Handed
    <3>3. CASE UNCHANGED called
      BY <2>0, <3>2, <3>3 DEF bar, Dispatch!GiveUp, Dispatch!Next
    <3>4. CASE UserDefined(k, w)
      <4>1. Issued(k) /\ mpi_kv[k] \in Keyval /\ mpi_kv[k].asked[w] # Predefined
        BY <1>2, <2>6, <2>t, <3>4 DEF CopyAttr, DeleteAttr, Issued, IInv, Unissued, Exists,
           TypeOK, Keyval, UserDefined, mpif_predefined_callback
      <4>2. /\ w = "copy" => call_copy_attr(k) = mpi_kv[k].asked.copy
            /\ w = "delete" => call_delete_attr(k) = mpi_kv[k].asked.delete
        BY <1>2, <4>1, LookupFindsEntry DEF IInv, Recorded
      <4>k. mpi_kv[k].asked.kind \in Kinds
        BY <4>1 DEF Keyval, Arguments
      <4>f. /\ mpi_kv[k].fns[w] = mpif_attr_trampoline(mpi_kv[k].asked.kind, w)
            /\ mpi_kv[k].fns[w] # Predefined
            /\ mpi_kv[k].fns[w].fn = w
            /\ mpi_kv[k].fns[w].as = Declared(mpi_kv[k].asked.kind)
        <5>1. mpi_kv[k].fns[w] = mpif_attr_trampoline(mpi_kv[k].asked.kind, w)
          BY <3>e, <4>1 DEF c_fns, mpif_predefined_callback
        <5>2. mpif_attr_trampoline(mpi_kv[k].asked.kind, w) \in Trampolines
          BY <4>k DEF mpif_attr_trampoline, Trampolines, Interfaces
        <5>3. mpif_attr_trampoline(mpi_kv[k].asked.kind, w).as = Declared(mpi_kv[k].asked.kind)
          BY <4>k DEF mpif_attr_trampoline, Declared
        <5>4. QED
          BY <5>1, <5>2, <5>3 DEF mpif_attr_trampoline
      <4>3. called' = <<<<k, w>>, <<mpi_kv[k].asked[w], Declared(mpi_kv[k].asked.kind)>>>>
        BY <3>1, <4>2, <4>f DEF Invoke
      <4>4. bar[<<k, w>>] = <<mpi_kv[k].asked[w], Declared(mpi_kv[k].asked.kind)>>
        BY <2>b, <4>1 DEF Given, Issued, Exists
      <4>5. bar[<<k, w>>] # NULL
        <5>1. mpi_kv[k].asked[w] \in Procs /\ Declared(mpi_kv[k].asked.kind) \in Interfaces
          BY <4>1, <4>k DEF Keyval, Arguments, Callbacks, Declared, Interfaces
        <5>2. QED
          BY <4>4, <5>1
      <4>6. Dispatch!Call(<<k, w>>)
        BY <2>0, <3>2, <4>3, <4>4, <4>5 DEF bar, Dispatch!Call, Dispatch!GiveUp
      <4>7. QED
        BY <4>6 DEF Dispatch!Next
    <3>5. ~UserDefined(k, w) => mpi_kv[k].fns[w] = Predefined
      BY <3>e DEF UserDefined, c_fns
    <3>6. QED
      BY <3>1, <3>3, <3>4, <3>5 DEF Invoke
  <2>7. ASSUME NEW k \in Keyvals, SetAttr(k) \/ FreeKeyval(k)
        PROVE  Dispatch!Next
    <3>1. MpiUse /\ UNCHANGED called
      BY <1>2, <2>7, ProgramUses DEF SetAttr, FreeKeyval
    <3>2. \A h \in H : bar'[h] \in {bar[h], NULL}
      BY <2>b, <2>5, <3>1
    <3>3. QED
      BY <2>0, <3>1, <3>2 DEF bar, Dispatch!GiveUp, Dispatch!Next
  <2>8. CASE UNCHANGED vars
    BY <2>1, <2>8 DEF vars
  <2>9. QED
    BY <1>2, <2>2, <2>3, <2>4, <2>6, <2>7, <2>8 DEF Next, Step
<1>3. IInv /\ IInv' /\ Handed /\ [Next]_vars => [Dispatch!Next]_(Dispatch!vars)
  BY <1>2 DEF Dispatch!vars
<1>4. QED
  BY <1>1, <1>i, <1>3, FunctionsStay, Invariance, PTL DEF Spec, Refinement, Dispatch!Spec

-----------------------------------------------------------------------------
(* The size of the table                                                   *)

\* A reserved entry is in the hands of a thread that will publish it.
ReservedHaveThreads ==
  \A e \in Entries : keyval[e] = KEYVAL_RESERVED =>
    \E t \in Threads : Reserves(t) /\ i[t] = e

\* The numbers an MPI that hands out the lowest free one ever used: with each
\* number all smaller ones, no more than MPI held at some time, and among them
\* every keyval of MPI and of the table.
UsedNumbers(S) ==
  /\ \A k \in S : \A j \in Keyvals : j < k => j \in S
  /\ Cardinality(S) <= peak
  /\ InMpi \subseteq S
  /\ \A e \in Entries : keyval[e] \in Keyvals => keyval[e] \in S

GrowthInv ==
  /\ ReservedHaveThreads
  /\ lowest_first => \E S \in SUBSET Keyvals : UsedNumbers(S)

\* The table starts empty and without keyvals.
LEMMA GrowthInit == Init => GrowthInv
<1> SUFFICES ASSUME Init PROVE GrowthInv
  OBVIOUS
<1>1. ReservedHaveThreads
  BY DEF Init, ReservedHaveThreads, MPI_KEYVAL_INVALID, KEYVAL_RESERVED
<1>2. UsedNumbers({})
  BY FS_EmptySet, AttrRegistryAssumption DEF Init, UsedNumbers, InMpi, Exists,
     MPI_KEYVAL_INVALID
<1>3. QED
  BY <1>1, <1>2 DEF GrowthInv

\* A reserved entry stays in its thread's hands until it is published.
LEMMA ReservationsKept ==
  ASSUME IInv, ReservedHaveThreads, [Next]_vars
  PROVE  ReservedHaveThreads'
<1> USE DEF ReservedHaveThreads, IInv, EntriesUnique, TypeOK
<1>1. ASSUME UNCHANGED keyval,
             \A t \in Threads : Reserves(t) => Reserves(t)' /\ i'[t] = i[t]
      PROVE  ReservedHaveThreads'
  BY <1>1
<1>2. ASSUME NEW t \in Threads,
             \/ \E a \in Arguments : CreateKeyval(t, a)
             \/ CreateFails(t) \/ \E k \in Keyvals : CreateSucceeds(t, k)
             \/ Found(t) \/ NotFound(t) \/ Skip(t) \/ Full(t) \/ Clear(t) \/ Write(t)
      PROVE  ReservedHaveThreads'
  <2>1. UNCHANGED keyval
    BY <1>2 DEF CreateKeyval, CreateFails, CreateSucceeds, Found, NotFound, Skip, Full,
       Clear, Write, table
  <2>2. \A u \in Threads : Reserves(u) => Reserves(u)' /\ i'[u] = i[u]
    BY <1>2 DEF CreateKeyval, CreateFails, CreateSucceeds, Found, NotFound, Skip, Full,
       Clear, Write, Goto, Return, Issue, EnterRegister, Reserves, locals
  <2>3. QED
    BY <1>1, <2>1, <2>2
<1>3. ASSUME NEW t \in Threads, Claim(t) PROVE ReservedHaveThreads'
  BY <1>3 DEF Claim, Goto, Reserves, locals
<1>4. ASSUME NEW t \in Threads, Publish(t) PROVE ReservedHaveThreads'
  BY <1>4, AttrRegistryAssumption DEF Publish, Goto, Reserves, locals, Registering,
     KeyvalIsOwn, Registers, KEYVAL_RESERVED
<1>5. ASSUME MpiUse \/ UNCHANGED vars PROVE ReservedHaveThreads'
  BY <1>1, <1>5 DEF MpiUse, vars, table, locals, Reserves
<1>6. QED
  BY <1>2, <1>3, <1>4, <1>5, ProgramUses DEF Next, Step

\* The numbers in use stay few: a number outside them is handed out only when
\* MPI holds all of them at once.
LEMMA UsedNumbersGrow ==
  ASSUME IInv, IInv', lowest_first, [Next]_vars,
         NEW S \in SUBSET Keyvals, UsedNumbers(S)
  PROVE  \E T \in SUBSET Keyvals : UsedNumbers(T)'
<1>0. TypeOK /\ TypeOK'
  BY DEF IInv, EntriesUnique
<1>1. ASSUME UNCHANGED peak, InMpi' \subseteq InMpi,
             \A e \in Entries : keyval'[e] \in Keyvals => keyval'[e] \in S
      PROVE  UsedNumbers(S)'
  BY <1>1 DEF UsedNumbers
<1>2. ASSUME NEW t \in Threads,
             \/ \E a \in Arguments : CreateKeyval(t, a)
             \/ CreateFails(t) \/ Found(t) \/ NotFound(t) \/ Skip(t) \/ Full(t)
             \/ Clear(t) \/ Claim(t) \/ Publish(t)
      PROVE  UsedNumbers(S)'
  <2>1. UNCHANGED <<peak, mpi_kv>>
    BY <1>2 DEF CreateKeyval, CreateFails, Found, NotFound, Skip, Full, Clear, Claim,
       Publish
  <2>2. \A e \in Entries : keyval'[e] \in Keyvals => keyval'[e] \in S
    <3>1. CASE UNCHANGED keyval
      BY <3>1 DEF UsedNumbers
    <3>2. CASE Claim(t)
      BY <1>0, <3>2, AttrRegistryAssumption DEF Claim, UsedNumbers, TypeOK, KEYVAL_RESERVED
    <3>3. CASE Publish(t)
      <4>1. kv[t] \in InMpi
        BY <3>3 DEF Publish, IInv, Registering, KeyvalIsOwn, Registers, InMpi
      <4>2. QED
        BY <1>0, <3>3, <4>1 DEF Publish, UsedNumbers, TypeOK
    <3>4. QED
      BY <1>2, <3>1, <3>2, <3>3 DEF CreateKeyval, CreateFails, Found, NotFound, Skip, Full,
         Clear, table
  <2>3. QED
    BY <1>1, <2>1, <2>2 DEF InMpi, Exists
<1>3. ASSUME NEW t \in Threads, Write(t) PROVE UsedNumbers(S)'
  <2>1. UNCHANGED <<peak, keyval>>
    BY <1>3 DEF Write
  <2>2. InMpi' \subseteq InMpi
    <3>1. kv[t] \in InMpi
      BY <1>3 DEF Write, IInv, Registering, KeyvalIsOwn, Registers, InMpi
    <3>2. \A j \in Keyvals : j # kv[t] => mpi_kv'[j] = mpi_kv[j]
      BY <1>0, <1>3 DEF Write, Issue, TypeOK
    <3>3. QED
      BY <3>1, <3>2 DEF InMpi, Exists
  <2>3. QED
    BY <1>1, <2>1, <2>2 DEF UsedNumbers
<1>4. ASSUME MpiUse \/ UNCHANGED vars PROVE UsedNumbers(S)'
  <2>1. UNCHANGED <<peak, keyval>> /\ InMpi' \subseteq InMpi
    BY <1>4 DEF MpiUse, vars, table, InMpi, Exists
  <2>2. QED
    BY <1>1, <2>1 DEF UsedNumbers
<1>5. ASSUME NEW t \in Threads, NEW k \in Keyvals, CreateSucceeds(t, k)
      PROVE  UsedNumbers(S \union {k})'
  <2>1. InMpi' \subseteq InMpi \union {k}
    BY <1>0, <1>5, NewKeyval DEF InMpi, Exists
  <2>2. IsFiniteSet(S) /\ Cardinality(S) \in Nat
    BY FS_Subset, FS_CardinalityType, AttrRegistryAssumption
  <2>3. IsFiniteSet(InMpi) /\ Cardinality(InMpi) \in Nat
    <3>1. InMpi \in SUBSET Keyvals
      BY DEF InMpi
    <3>2. QED
      BY <3>1, FS_Subset, FS_CardinalityType, AttrRegistryAssumption
  <2>4. /\ peak \in Nat /\ peak' \in Nat
        /\ peak' >= peak /\ peak' >= Cardinality(InMpi) + 1
    BY <1>0, <1>5, <2>3 DEF CreateSucceeds, TypeOK
  <2>5. Cardinality(S \union {k}) <= peak'
    <3>1. CASE k \in S
      <4>1. S \union {k} = S
        BY <3>1
      <4>2. Cardinality(S \union {k}) = Cardinality(S)
        BY <4>1, Zenon
      <4>3. QED
        BY <2>2, <2>4, <4>2 DEF UsedNumbers
    <3>2. CASE k \notin S
      <4>1. S \in SUBSET InMpi
        BY <1>5, <3>2, AttrRegistryAssumption DEF UsedNumbers, CreateSucceeds, InMpi
      <4>2. Cardinality(S) <= Cardinality(InMpi)
        BY <2>3, <4>1, FS_Subset
      <4>3. Cardinality(S \union {k}) = Cardinality(S) + 1
        BY <2>2, <3>2, FS_AddElement
      <4>4. QED
        BY <2>2, <2>3, <2>4, <4>2, <4>3
    <3>3. QED
      BY <3>1, <3>2
  <2>6. \A j \in Keyvals : j < k => j \in S
    BY <1>5 DEF CreateSucceeds, UsedNumbers, InMpi
  <2>7. UNCHANGED keyval
    BY <1>5 DEF CreateSucceeds, table
  <2>8. QED
    BY <2>1, <2>5, <2>6, <2>7 DEF UsedNumbers
<1>6. \A k \in Keyvals : S \union {k} \in SUBSET Keyvals
  OBVIOUS
<1>7. QED
  BY <1>2, <1>3, <1>4, <1>5, <1>6, ProgramUses DEF Next, Step

\* What bounds the table holds throughout.
LEMMA GrowthInvariance == Spec => []GrowthInv
<1>1. IInv /\ IInv' /\ GrowthInv /\ [Next]_vars => GrowthInv'
  <2> SUFFICES ASSUME IInv, IInv', GrowthInv, [Next]_vars PROVE GrowthInv'
    OBVIOUS
  <2>1. ReservedHaveThreads'
    BY ReservationsKept DEF GrowthInv
  <2>2. UNCHANGED lowest_first
    BY DEF Next, Step, CreateKeyval, CreateFails, CreateSucceeds, Found, NotFound, Claim,
       Skip, Full, Clear, Publish, Write, SetAttr, FreeKeyval, CopyAttr, DeleteAttr, vars
  <2>3. lowest_first' => \E T \in SUBSET Keyvals : UsedNumbers(T)'
    BY <2>2, UsedNumbersGrow DEF GrowthInv
  <2>4. QED
    BY <2>1, <2>3 DEF GrowthInv
<1>2. QED
  BY <1>1, GrowthInit, Invariance, PTL DEF Spec

\* With an MPI that hands out the lowest free number, however keyvals are made,
\* freed and refused, the table never takes more entries than the largest
\* number of keyvals MPI held at once: a taken entry stands for a number MPI
\* used, and no two for the same.
THEOREM TableStaysSmall == Spec => []TableGrowth
<1>1. IInv /\ GrowthInv => TableGrowth
  <2> SUFFICES ASSUME IInv, GrowthInv, lowest_first
               PROVE  Cardinality({e \in Entries : keyval[e] # MPI_KEYVAL_INVALID}) <= peak
    BY DEF TableGrowth
  <2> DEFINE Taken == {e \in Entries : keyval[e] # MPI_KEYVAL_INVALID}
             Holder(e) == CHOOSE t \in Threads : Reserves(t) /\ i[t] = e
             number == [e \in Taken |-> IF keyval[e] \in Keyvals THEN keyval[e]
                                                                 ELSE kv[Holder(e)]]
  <2>1. PICK S \in SUBSET Keyvals : UsedNumbers(S)
    BY DEF GrowthInv
  <2>2. ASSUME NEW e \in Taken, keyval[e] \notin Keyvals
        PROVE  /\ Holder(e) \in Threads /\ Reserves(Holder(e)) /\ i[Holder(e)] = e
    <3>1. \E t \in Threads : Reserves(t) /\ i[t] = e
      BY <2>2 DEF IInv, EntriesUnique, TypeOK, GrowthInv, ReservedHaveThreads
    <3>2. QED
      BY <3>1
  <2>3. ASSUME NEW e \in Taken, keyval[e] \notin Keyvals
        PROVE  /\ kv[Holder(e)] \in S
               /\ \A f \in Entries : keyval[f] # kv[Holder(e)]
    <3>1. Holder(e) \in Threads /\ Reserves(Holder(e))
      BY <2>2, <2>3
    <3> HIDE DEF Holder
    <3>2. kv[Holder(e)] \in InMpi /\ \A f \in Entries : keyval[f] # kv[Holder(e)]
      BY <3>1 DEF IInv, Registering, KeyvalIsOwn, EntryIsOwn, Registers, Reserves, InMpi
    <3>3. QED
      BY <2>1, <3>2 DEF UsedNumbers
  <2> HIDE DEF Holder
  <2>4. number \in [Taken -> S]
    BY <2>1, <2>3 DEF UsedNumbers
  <2>5. ASSUME NEW e \in Taken, NEW f \in Taken, number[e] = number[f]
        PROVE  e = f
    <3>1. CASE keyval[e] \in Keyvals /\ keyval[f] \in Keyvals
      BY <2>5, <3>1 DEF IInv, EntriesUnique
    <3>2. CASE keyval[e] \in Keyvals /\ keyval[f] \notin Keyvals
      BY <2>3, <2>5, <3>2
    <3>3. CASE keyval[e] \notin Keyvals /\ keyval[f] \in Keyvals
      BY <2>3, <2>5, <3>3
    <3>4. CASE keyval[e] \notin Keyvals /\ keyval[f] \notin Keyvals
      <4>1. /\ Holder(e) \in Threads /\ Reserves(Holder(e)) /\ i[Holder(e)] = e
            /\ Holder(f) \in Threads /\ Reserves(Holder(f)) /\ i[Holder(f)] = f
            /\ kv[Holder(e)] = kv[Holder(f)]
        BY <2>2, <2>5, <3>4
      <4>2. QED
        BY <4>1 DEF IInv, Registering, KeyvalIsOwn, Registers, Reserves
    <3>5. QED
      BY <3>1, <3>2, <3>3, <3>4
  <2>6. IsFiniteSet(S)
    BY FS_Subset, AttrRegistryAssumption
  <2> HIDE DEF number
  <2>7. number \in Injection(Taken, S)
    BY <2>4, <2>5, Fun_IsInj
  <2>8. IsFiniteSet(Taken) /\ Cardinality(Taken) <= Cardinality(S)
    BY <2>6, <2>7, FS_Injection
  <2>9. Cardinality(Taken) \in Nat /\ Cardinality(S) \in Nat
    BY <2>6, <2>8, FS_CardinalityType
  <2>10. QED
    BY <2>1, <2>8, <2>9 DEF UsedNumbers, IInv, EntriesUnique, TypeOK
<1>2. QED
  BY <1>1, Invariance, GrowthInvariance, PTL
=============================================================================

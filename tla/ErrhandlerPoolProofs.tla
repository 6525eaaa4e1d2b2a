------------------------ MODULE ErrhandlerPoolProofs ------------------------
(***************************************************************************)
(* Theorems about ErrhandlerPool, for any number of threads, slots,        *)
(* procedures, handles, kinds and objects.  The argument is OpPoolProofs'  *)
(* with reference counts: a handler lives while a variable of the program  *)
(* or an object names it, and NamedHandlersExist is what keeps MPI from    *)
(* dropping it earlier.                                                    *)
(***************************************************************************)
EXTENDS ErrhandlerPool, FiniteSetTheorems, TLAPS

\* A thread inside a create has its arguments; from its claim to MPI's answer
\* it owns its slot alone, and the slot holds its procedure when MPI is asked.
Reservations ==
  \A t \in Threads :
    /\ pc[t] # "idle" => args[t] \in Arguments
    /\ Owns(t) =>
         /\ in_use[slot[t]]
         /\ slot[t] \notin retired
         /\ \A u \in Threads \ {t} : Owns(u) => slot[u] # slot[t]
    /\ pc[t] = "mpi_create" => fn[slot[t]] = args[t].fn

\* A slot in use was given to MPI or is owned by a thread, and MPI's are in use.
Accounted ==
  /\ \A h \in Handles : Exists(h) => SlotOf(h) \in retired
  /\ \A s \in retired : in_use[s]
  /\ \A s \in Slots : in_use[s] =>
       s \in retired \/ \E t \in Threads : Owns(t) /\ slot[t] = s

\* MPI holds the trampoline of the kind the program asked for.
KindsMatch ==
  \A h \in Handles : Exists(h) => mpi_eh[h].tramp.kind = mpi_eh[h].asked[2]

PoolInv == SlotOwnership /\ Reservations /\ Accounted /\ KindsMatch

IInv == PoolInv /\ NamedHandlersExist

-----------------------------------------------------------------------------
(* The pool                                                                *)

\* Init of ErrhandlerPool satisfies the invariant of the pool.
LEMMA InitPool == Init => PoolInv
BY ErrhandlerPoolAssumption DEF Init, PoolInv, TypeOK, SlotOwnership,
   Reservations, Accounted, KindsMatch, Owns, Exists, Slots

\* A step in which MPI only counts, attaches or drops handlers keeps the
\* pool's invariant: it touches neither the pool nor a thread inside a create.
LEMMA MpiStep ==
  ASSUME PoolInv, Unchanged,
         errhandler' \in [Threads -> Handles \union {ERRHANDLER_NULL}],
         attached' \in [Objects -> Handles \union {ERRHANDLER_NULL}],
         mpi_eh' \in [Handles -> Handler \union {NULL}],
         \A g \in Handles : Exists(g)' => /\ Exists(g)
                                         /\ mpi_eh'[g].tramp = mpi_eh[g].tramp
                                         /\ mpi_eh'[g].asked = mpi_eh[g].asked
  PROVE  PoolInv'
<1> USE DEF Unchanged, pool
<1>1. TypeOK'
  BY DEF PoolInv, SlotOwnership, TypeOK
<1>2. SlotOwnership'
  BY <1>1 DEF PoolInv, TypeOK, SlotOwnership, Owns, Exists, SlotOf
<1>3. Reservations'
  BY DEF PoolInv, Reservations, Owns
<1>4. Accounted'
  BY DEF PoolInv, Accounted, Owns, Exists, SlotOf
<1>5. KindsMatch'
  BY DEF PoolInv, KindsMatch, Exists
<1>6. QED
  BY <1>2, <1>3, <1>4, <1>5 DEF PoolInv

\* Collect drops handlers and changes no other: one that an object or a
\* reference names stays.
LEMMA CollectDrops ==
  ASSUME NEW eh \in [Handles -> Handler \union {NULL}], NEW att
  PROVE  /\ Collect(eh, att) \in [Handles -> Handler \union {NULL}]
         /\ \A h \in Handles :
              /\ Collect(eh, att)[h] \in {eh[h], NULL}
              /\ eh[h] # NULL /\ (eh[h].refs # 0 \/ \E o \in Objects : att[o] = h)
                   => Collect(eh, att)[h] = eh[h]
BY DEF Collect

\* The steps of a thread inside a create, up to MPI's answer and after a
\* refusal, keep the pool's invariant.
LEMMA ThreadStep ==
  ASSUME PoolInv, NEW t \in Threads,
         \/ \E a \in Arguments : CreateErrhandler(t, a)
         \/ Claim(t) \/ Skip(t) \/ Exhausted(t) \/ SetFn(t) \/ CreateFails(t)
         \/ CancelFn(t) \/ CancelInUse(t)
  PROVE  PoolInv'
<1> USE ErrhandlerPoolAssumption, NullIsNoHandler DEF PoolInv, SlotOwnership,
        Goto, pool, mpi
<1>1. ASSUME NEW a \in Arguments, CreateErrhandler(t, a) PROVE PoolInv'
  <2> USE <1>1 DEF CreateErrhandler
  <2>1. TypeOK'
    BY DEF TypeOK, Slots
  <2>2. SlotOwnership'
    BY <2>1 DEF TypeOK, Reservations, Accounted, Owns, Exists, SlotOf
  <2>3. Reservations'
    BY DEF TypeOK, Reservations, Accounted, Owns
  <2>4. Accounted' /\ KindsMatch'
    BY DEF TypeOK, Accounted, KindsMatch, Reservations, Owns, Exists, SlotOf
  <2>5. QED
    BY <2>2, <2>3, <2>4
<1>2. ASSUME Claim(t) PROVE PoolInv'
  <2> USE <1>2 DEF Claim
  <2>1. TypeOK'
    BY DEF TypeOK, Slots
  <2>2. SlotOwnership'
    BY <2>1 DEF TypeOK, Reservations, Accounted, Owns, Exists, SlotOf
  <2>3. Reservations'
    BY DEF TypeOK, Reservations, Accounted, Owns
  <2>4. Accounted' /\ KindsMatch'
    BY DEF TypeOK, Accounted, KindsMatch, Reservations, Owns, Exists, SlotOf
  <2>5. QED
    BY <2>2, <2>3, <2>4
<1>3. ASSUME Skip(t) PROVE PoolInv'
  <2> USE <1>3 DEF Skip, AtEnd
  <2>1. TypeOK'
    BY DEF TypeOK, Slots
  <2>2. SlotOwnership'
    BY <2>1 DEF TypeOK, Reservations, Accounted, Owns, Exists, SlotOf
  <2>3. Reservations'
    BY DEF TypeOK, Reservations, Accounted, Owns
  <2>4. Accounted' /\ KindsMatch'
    BY DEF TypeOK, Accounted, KindsMatch, Reservations, Owns, Exists, SlotOf
  <2>5. QED
    BY <2>2, <2>3, <2>4
<1>4. ASSUME Exhausted(t) PROVE PoolInv'
  <2> USE <1>4 DEF Exhausted, Return
  <2>1. TypeOK'
    BY DEF TypeOK, Slots
  <2>2. SlotOwnership'
    BY <2>1 DEF TypeOK, Reservations, Accounted, Owns, Exists, SlotOf
  <2>3. Reservations'
    BY DEF TypeOK, Reservations, Accounted, Owns
  <2>4. Accounted' /\ KindsMatch'
    BY DEF TypeOK, Accounted, KindsMatch, Reservations, Owns, Exists, SlotOf
  <2>5. QED
    BY <2>2, <2>3, <2>4
<1>5. ASSUME SetFn(t) PROVE PoolInv'
  <2> USE <1>5 DEF SetFn
  <2>1. TypeOK'
    BY DEF TypeOK, Slots, Reservations, Arguments
  <2>2. SlotOwnership'
    BY <2>1 DEF TypeOK, Reservations, Accounted, Owns, Exists, SlotOf
  <2>3. Reservations'
    BY DEF TypeOK, Reservations, Accounted, Owns
  <2>4. Accounted' /\ KindsMatch'
    BY DEF TypeOK, Accounted, KindsMatch, Reservations, Owns, Exists, SlotOf
  <2>5. QED
    BY <2>2, <2>3, <2>4
<1>6. ASSUME CreateFails(t) PROVE PoolInv'
  <2> USE <1>6 DEF CreateFails
  <2>1. TypeOK'
    BY DEF TypeOK, Slots
  <2>2. SlotOwnership'
    BY <2>1 DEF TypeOK, Reservations, Accounted, Owns, Exists, SlotOf
  <2>3. Reservations'
    BY DEF TypeOK, Reservations, Accounted, Owns
  <2>4. Accounted' /\ KindsMatch'
    BY DEF TypeOK, Accounted, KindsMatch, Reservations, Owns, Exists, SlotOf
  <2>5. QED
    BY <2>2, <2>3, <2>4
<1>7. ASSUME CancelFn(t) PROVE PoolInv'
  <2> USE <1>7 DEF CancelFn
  <2>1. TypeOK'
    BY DEF TypeOK, Slots
  <2>2. SlotOwnership'
    BY <2>1 DEF TypeOK, Reservations, Accounted, Owns, Exists, SlotOf
  <2>3. Reservations'
    BY DEF TypeOK, Reservations, Accounted, Owns
  <2>4. Accounted' /\ KindsMatch'
    BY DEF TypeOK, Accounted, KindsMatch, Reservations, Owns, Exists, SlotOf
  <2>5. QED
    BY <2>2, <2>3, <2>4
<1>8. ASSUME CancelInUse(t) PROVE PoolInv'
  <2> USE <1>8 DEF CancelInUse, Return, AfterFailure
  <2>1. TypeOK'
    BY DEF TypeOK, Slots
  <2>2. SlotOwnership'
    BY <2>1 DEF TypeOK, Reservations, Accounted, Owns, Exists, SlotOf
  <2>3. Reservations'
    BY DEF TypeOK, Reservations, Accounted, Owns
  <2>4. Accounted' /\ KindsMatch'
    BY DEF TypeOK, Accounted, KindsMatch, Reservations, Owns, Exists, SlotOf
  <2>5. QED
    BY <2>2, <2>3, <2>4
<1>9. QED
  BY <1>1, <1>2, <1>3, <1>4, <1>5, <1>6, <1>7, <1>8

\* MPI's success keeps the pool's invariant: the slot passes from the thread
\* to the new handler.
LEMMA CreateSucceedsPool ==
  ASSUME PoolInv, NEW t \in Threads, NEW h \in Handles, CreateSucceeds(t, h)
  PROVE  PoolInv'
<1> DEFINE r == [tramp |-> Trampoline(slot[t], args[t].kind), refs |-> 1,
                 asked |-> <<args[t].fn, args[t].kind>>]
<1> USE ErrhandlerPoolAssumption, NullIsNoHandler DEF PoolInv, SlotOwnership
<1>r. /\ r \in Handler
      /\ r.tramp.slot = slot[t]
      /\ r.tramp.kind = r.asked[2]
      /\ r.asked[1] = fn[slot[t]]
  BY DEF CreateSucceeds, Trampoline, Handler, TypeOK, Reservations, Arguments
<1>m. /\ pc[t] = "mpi_create" /\ ~Exists(h)
      /\ mpi_eh' = [mpi_eh EXCEPT ![h] = r]
      /\ retired' = retired \union {slot[t]}
      /\ Return(t, h)
      /\ UNCHANGED <<in_use, fn, attached, called>>
  BY DEF CreateSucceeds, pool
<1> HIDE DEF r
<1> USE <1>r, <1>m DEF Return, Goto
<1>1. TypeOK'
  <2>1. mpi_eh' \in [Handles -> Handler \union {NULL}]
    BY DEF TypeOK
  <2>2. slot' \in [Threads -> Slots]
    BY DEF TypeOK, Slots
  <2>3. QED
    BY <2>1, <2>2 DEF TypeOK
<1>2. SlotOwnership'
  BY <1>1 DEF TypeOK, Reservations, Accounted, Owns, Exists, SlotOf
<1>3. Reservations'
  BY DEF TypeOK, Reservations, Accounted, Owns
<1>4. Accounted'
  BY DEF TypeOK, Accounted, Reservations, Owns, Exists, SlotOf
<1>5. KindsMatch'
  BY DEF TypeOK, KindsMatch, Exists
<1>6. QED
  BY <1>2, <1>3, <1>4, <1>5

-----------------------------------------------------------------------------
(* References                                                              *)

\* The threads whose variable names handler h when the variables are eh.
Holders(eh, h) == {t \in Threads : eh[t] = h}

\* The first half of NamedHandlersExist: a named handler is MPI's, with a
\* reference for every variable.
Counted ==
  \A h \in Handles : Holders(errhandler, h) # {} =>
    Exists(h) /\ Cardinality(Holders(errhandler, h)) <= mpi_eh[h].refs

\* The second half: an object's handler is MPI's and of the object's kind.
Attached ==
  \A o \in Objects : attached[o] # ERRHANDLER_NULL =>
    /\ Exists(attached[o])
    /\ mpi_eh[attached[o]].tramp.kind = o[1]

\* NamedHandlersExist is its two halves.
LEMMA NamedHalves == NamedHandlersExist <=> Counted /\ Attached
BY DEF NamedHandlersExist, Counted, Attached, Holders

\* The holders of a handler are finitely many.
LEMMA HoldersFinite ==
  ASSUME NEW eh, NEW h
  PROVE  IsFiniteSet(Holders(eh, h)) /\ Cardinality(Holders(eh, h)) \in Nat
<1>1. Holders(eh, h) \in SUBSET Threads
  BY DEF Holders
<1>2. IsFiniteSet(Holders(eh, h))
  BY <1>1, FS_Subset, ErrhandlerPoolAssumption
<1>3. QED
  BY <1>2, FS_CardinalityType

\* An assignment of another handle to a variable takes a holder away.
LEMMA HolderLeaves ==
  ASSUME NEW before, NEW after, NEW h, NEW t \in Threads,
         \A u \in Threads \ {t} : after[u] = before[u], after[t] # h
  PROVE  /\ Holders(after, h) # {} => Holders(before, h) # {}
         /\ Cardinality(Holders(after, h)) <= Cardinality(Holders(before, h))
         /\ before[t] = h =>
              Cardinality(Holders(after, h)) = Cardinality(Holders(before, h)) - 1
<1>1. Holders(after, h) = Holders(before, h) \ {t}
  BY DEF Holders
<1>2. Cardinality(Holders(after, h)) = Cardinality(Holders(before, h) \ {t})
  BY <1>1, Zenon
<1>3. Cardinality(Holders(before, h) \ {t}) =
        IF t \in Holders(before, h) THEN Cardinality(Holders(before, h)) - 1
                                    ELSE Cardinality(Holders(before, h))
  BY HoldersFinite, FS_RemoveElement
<1>4. /\ t \in Holders(before, h) <=> before[t] = h
      /\ Cardinality(Holders(before, h)) \in Nat
  BY HoldersFinite DEF Holders
<1>5. QED
  BY <1>1, <1>2, <1>3, <1>4

\* An assignment of the handle to a variable adds at most one holder.
LEMMA HolderJoins ==
  ASSUME NEW before, NEW after, NEW h, NEW t \in Threads,
         \A u \in Threads \ {t} : after[u] = before[u], after[t] = h
  PROVE  Cardinality(Holders(after, h)) <= Cardinality(Holders(before, h)) + 1
<1>1. Holders(after, h) = Holders(before, h) \cup {t}
  BY DEF Holders
<1>2. Cardinality(Holders(after, h)) = Cardinality(Holders(before, h) \cup {t})
  BY <1>1, Zenon
<1>3. Cardinality(Holders(before, h) \cup {t}) =
        IF t \in Holders(before, h) THEN Cardinality(Holders(before, h))
                                    ELSE Cardinality(Holders(before, h)) + 1
  BY HoldersFinite, FS_AddElement
<1>4. QED
  BY <1>2, <1>3, HoldersFinite

\* A handler that is named has a reference count of at least 1.
LEMMA NamedHasReference ==
  ASSUME TypeOK, Counted, NEW h \in Handles, Holders(errhandler, h) # {}
  PROVE  /\ Exists(h) /\ mpi_eh[h] \in Handler
         /\ mpi_eh[h].refs \in Nat /\ mpi_eh[h].refs >= 1
<1>1. Exists(h) /\ mpi_eh[h] \in Handler /\ mpi_eh[h].refs \in Nat
  BY DEF Counted, TypeOK, Exists, Handler
<1>2. IsFiniteSet(Holders(errhandler, h))
  <2>1. Holders(errhandler, h) \in SUBSET Threads
    BY DEF Holders
  <2>2. QED
    BY <2>1, FS_Subset, ErrhandlerPoolAssumption
<1>3. Cardinality(Holders(errhandler, h)) \in Nat /\ Cardinality(Holders(errhandler, h)) # 0
  BY <1>2, FS_CardinalityType, FS_EmptySet
<1>4. QED
  BY <1>1, <1>3 DEF Counted

-----------------------------------------------------------------------------
(* Every step                                                              *)

\* A step that leaves MPI's handlers and objects alone and at most clears a
\* handle variable keeps the names truthful.
LEMMA ClearingStep ==
  ASSUME TypeOK, Counted, Attached, NEW t \in Threads, UNCHANGED mpi,
         \/ UNCHANGED errhandler
         \/ errhandler' = [errhandler EXCEPT ![t] = ERRHANDLER_NULL]
         \/ errhandler' = [errhandler EXCEPT ![t] = errhandler[t]]
  PROVE  Counted' /\ Attached'
<1>1. Attached'
  BY DEF mpi, Attached, Exists
<1>2. CASE UNCHANGED errhandler
  BY <1>1, <1>2 DEF mpi, Counted, Holders, Exists
<1>3. CASE errhandler' = [errhandler EXCEPT ![t] = errhandler[t]]
  <2>1. UNCHANGED errhandler
    BY <1>3 DEF TypeOK
  <2>2. QED
    BY <1>2, <2>1
<1>4. CASE errhandler' = [errhandler EXCEPT ![t] = ERRHANDLER_NULL]
  <2> SUFFICES ASSUME NEW h \in Handles, Holders(errhandler', h) # {}
               PROVE  /\ Exists(h)'
                      /\ Cardinality(Holders(errhandler', h)) <= mpi_eh'[h].refs
    BY <1>1 DEF Counted
  <2>1. /\ \A u \in Threads \ {t} : errhandler'[u] = errhandler[u]
        /\ errhandler'[t] # h
    BY <1>4, ErrhandlerPoolAssumption DEF TypeOK
  <2>2. /\ Holders(errhandler, h) # {}
        /\ Cardinality(Holders(errhandler', h)) <= Cardinality(Holders(errhandler, h))
    BY <2>1, HolderLeaves
  <2>3. mpi_eh[h].refs \in Nat
    BY <2>2, NamedHasReference
  <2>4. QED
    BY <2>2, <2>3, HoldersFinite DEF mpi, Counted, Exists
<1>5. QED
  BY <1>2, <1>3, <1>4

\* The new handler has one reference, in the variable the create returns.
LEMMA CreateSucceedsNames ==
  ASSUME PoolInv, Counted, Attached, NEW t \in Threads, NEW h \in Handles,
         CreateSucceeds(t, h)
  PROVE  Counted' /\ Attached'
<1> DEFINE r == [tramp |-> Trampoline(slot[t], args[t].kind), refs |-> 1,
                 asked |-> <<args[t].fn, args[t].kind>>]
<1>1. TypeOK /\ r \in Handler /\ r.refs = 1
  BY DEF CreateSucceeds, Trampoline, Handler, TypeOK, PoolInv, SlotOwnership,
     Reservations, Arguments
<1>2. /\ ~Exists(h)
      /\ mpi_eh' = [mpi_eh EXCEPT ![h] = r]
      /\ errhandler' = [errhandler EXCEPT ![t] = h]
      /\ UNCHANGED attached
  BY DEF CreateSucceeds, Return
<1> HIDE DEF r
<1>e. errhandler \in [Threads -> Handles \union {ERRHANDLER_NULL}]
  BY <1>1 DEF TypeOK
<1>3. /\ Exists(h)' /\ mpi_eh'[h].refs = 1
      /\ \A g \in Handles \ {h} : mpi_eh'[g] = mpi_eh[g]
  BY <1>1, <1>2, NullIsNoHandler DEF TypeOK, Exists
<1>4. Attached'
  BY <1>2, <1>3 DEF Attached, Exists, TypeOK
<1>5. ASSUME NEW g \in Handles, Holders(errhandler', g) # {}
      PROVE  Exists(g)' /\ Cardinality(Holders(errhandler', g)) <= mpi_eh'[g].refs
  <2>1. CASE g = h
    <3>1. Holders(errhandler, h) = {}
      BY <1>2 DEF Counted
    <3>2. Holders(errhandler', h) = {t}
      BY <1>e, <1>2, <3>1 DEF Holders
    <3>3. Cardinality(Holders(errhandler', h)) = Cardinality({t})
      BY <3>2, Zenon
    <3>4. Cardinality({t}) = 1
      BY FS_Singleton
    <3>5. QED
      BY <1>3, <2>1, <3>3, <3>4
  <2>2. CASE g # h
    <3>1. /\ \A u \in Threads \ {t} : errhandler'[u] = errhandler[u]
          /\ errhandler'[t] # g
      BY <1>e, <1>2, <2>2
    <3>2. /\ Holders(errhandler, g) # {}
          /\ Cardinality(Holders(errhandler', g)) <= Cardinality(Holders(errhandler, g))
      BY <1>5, <3>1, HolderLeaves
    <3>3. mpi_eh[g].refs \in Nat
      BY <1>1, <3>2, NamedHasReference
    <3>4. QED
      BY <1>3, <2>2, <3>2, <3>3, HoldersFinite DEF Counted, Exists
  <2>3. QED
    BY <2>1, <2>2
<1>6. QED
  BY <1>4, <1>5 DEF Counted

\* What attaching, getting, freeing and detaching have in common: handlers
\* change in their reference counts only, those that go are not named.
References ==
  /\ Unchanged /\ UNCHANGED called
  /\ errhandler' \in [Threads -> Handles \union {ERRHANDLER_NULL}]
  /\ attached' \in [Objects -> Handles \union {ERRHANDLER_NULL}]
  /\ mpi_eh' \in [Handles -> Handler \union {NULL}]
  /\ \A g \in Handles : Exists(g)' => /\ Exists(g)
                                       /\ mpi_eh'[g].tramp = mpi_eh[g].tramp
                                       /\ mpi_eh'[g].asked = mpi_eh[g].asked
  /\ Counted'
  /\ Attached'

\* mpi_*_set_errhandler_ keeps the names truthful: the handler that the
\* object had may go, the one it gets stays.
LEMMA SetErrhandlerNames ==
  ASSUME PoolInv, Counted, Attached, NEW t \in Threads, NEW o \in Objects,
         SetErrhandler(t, o)
  PROVE  References
<1> DEFINE h == errhandler[t]
           att == [attached EXCEPT ![o] = h]
<1>0. TypeOK /\ KindsMatch
  BY DEF PoolInv, SlotOwnership
<1>1. /\ h \in Handles /\ mpi_eh[h].asked[2] = o[1]
      /\ attached' = att /\ mpi_eh' = Collect(mpi_eh, att)
      /\ Unchanged /\ UNCHANGED <<errhandler, called>>
  BY <1>0 DEF SetErrhandler, TypeOK
<1>2. Holders(errhandler, h) # {}
  BY DEF Holders
<1>3. Exists(h) /\ mpi_eh[h].tramp.kind = o[1]
  BY <1>0, <1>1, <1>2 DEF Counted, KindsMatch
<1>4. /\ mpi_eh' \in [Handles -> Handler \union {NULL}]
      /\ \A g \in Handles :
           /\ mpi_eh'[g] \in {mpi_eh[g], NULL}
           /\ Exists(g) /\ (mpi_eh[g].refs # 0 \/ \E q \in Objects : att[q] = g)
                => mpi_eh'[g] = mpi_eh[g]
  <2> HIDE DEF att
  <2>1. /\ mpi_eh \in [Handles -> Handler \union {NULL}]
        /\ mpi_eh' = Collect(mpi_eh, att)
    BY <1>0, <1>1 DEF TypeOK
  <2>2. QED
    BY <2>1, CollectDrops DEF Exists
<1>5. attached' \in [Objects -> Handles \union {ERRHANDLER_NULL}]
  BY <1>0, <1>1 DEF TypeOK
<1>6. Counted'
  <2> SUFFICES ASSUME NEW g \in Handles, Holders(errhandler', g) # {}
               PROVE  Exists(g)' /\ Cardinality(Holders(errhandler', g)) <= mpi_eh'[g].refs
    BY DEF Counted
  <2>1. Holders(errhandler', g) = Holders(errhandler, g)
    BY <1>1 DEF Holders
  <2>2. Exists(g) /\ mpi_eh[g].refs # 0
    BY <1>0, <2>1, NamedHasReference
  <2>3. QED
    BY <1>4, <2>1, <2>2 DEF Counted, Exists
<1>7. Attached'
  <2> SUFFICES ASSUME NEW q \in Objects, att[q] # ERRHANDLER_NULL
               PROVE  mpi_eh'[att[q]] # NULL /\ mpi_eh'[att[q]].tramp.kind = q[1]
    BY <1>1 DEF Attached, Exists
  <2>1. /\ att[q] \in Handles /\ Exists(att[q])
        /\ mpi_eh[att[q]].tramp.kind = q[1]
    BY <1>0, <1>1, <1>3 DEF TypeOK, Attached
  <2>2. QED
    BY <1>4, <2>1 DEF Exists
<1>8. QED
  BY <1>0, <1>1, <1>4, <1>5, <1>6, <1>7 DEF References, TypeOK, Exists

\* mpi_*_get_errhandler_ keeps the names truthful: the new name comes with the
\* reference MPI counts for it.
LEMMA GetErrhandlerNames ==
  ASSUME PoolInv, Counted, Attached, NEW t \in Threads, NEW o \in Objects,
         GetErrhandler(t, o)
  PROVE  References
<1> DEFINE h == attached[o]
           r == [mpi_eh[h] EXCEPT !.refs = @ + 1]
<1>0. TypeOK
  BY DEF PoolInv, SlotOwnership
<1>1. /\ h \in Handles /\ Exists(h) /\ mpi_eh[h] \in Handler
      /\ errhandler' = [errhandler EXCEPT ![t] = h]
      /\ UNCHANGED <<attached, called>>
      /\ Unchanged
  BY <1>0 DEF GetErrhandler, TypeOK, Attached, Exists
<1>2. /\ r \in Handler /\ r.tramp = mpi_eh[h].tramp /\ r.asked = mpi_eh[h].asked
      /\ mpi_eh[h].refs \in Nat /\ r.refs = mpi_eh[h].refs + 1
  BY <1>1 DEF Handler
<1>3. mpi_eh' = [mpi_eh EXCEPT ![h] = r]
  BY DEF GetErrhandler
<1> HIDE DEF r, h
<1>4. /\ mpi_eh' \in [Handles -> Handler \union {NULL}]
      /\ mpi_eh'[h] = r
      /\ \A g \in Handles \ {h} : mpi_eh'[g] = mpi_eh[g]
  BY <1>0, <1>1, <1>2, <1>3 DEF TypeOK
<1>5. mpi_eh'[h] # NULL
  BY <1>2, <1>4, NullIsNoHandler
<1>6. Counted'
  <2> SUFFICES ASSUME NEW g \in Handles, Holders(errhandler', g) # {}
               PROVE  Exists(g)' /\ Cardinality(Holders(errhandler', g)) <= mpi_eh'[g].refs
    BY DEF Counted
  <2>1. /\ \A u \in Threads \ {t} : errhandler'[u] = errhandler[u]
        /\ errhandler'[t] = h
    BY <1>0, <1>1 DEF TypeOK
  <2>2. CASE g = h
    <3>1. Cardinality(Holders(errhandler', h)) <= Cardinality(Holders(errhandler, h)) + 1
      BY <2>1, HolderJoins
    <3>2. Cardinality(Holders(errhandler, h)) <= mpi_eh[h].refs
      <4>1. CASE Holders(errhandler, h) = {}
        <5>1. Cardinality(Holders(errhandler, h)) = 0
          BY <4>1, FS_EmptySet, Zenon
        <5>2. QED
          BY <1>2, <5>1
      <4>2. CASE Holders(errhandler, h) # {}
        BY <1>1, <4>2 DEF Counted
      <4>3. QED
        BY <4>1, <4>2
    <3>3. mpi_eh'[g].refs = mpi_eh[h].refs + 1
      BY <1>2, <1>4, <2>2
    <3>4. QED
      BY <1>2, <1>5, <2>2, <3>1, <3>2, <3>3, HoldersFinite DEF Exists
  <2>3. CASE g # h
    <3>1. /\ Holders(errhandler, g) # {}
          /\ Cardinality(Holders(errhandler', g)) <= Cardinality(Holders(errhandler, g))
      BY <2>1, <2>3, HolderLeaves
    <3>2. mpi_eh[g].refs \in Nat
      BY <1>0, <3>1, NamedHasReference
    <3>3. QED
      BY <1>4, <2>3, <3>1, <3>2, HoldersFinite DEF Counted, Exists
  <2>4. QED
    BY <2>2, <2>3
<1>7. Attached'
  BY <1>0, <1>1, <1>2, <1>4, <1>5 DEF Attached, Exists, TypeOK
<1>8. errhandler' \in [Threads -> Handles \union {ERRHANDLER_NULL}]
  BY <1>0, <1>1 DEF TypeOK
<1>9. QED
  BY <1>0, <1>1, <1>2, <1>4, <1>6, <1>7, <1>8 DEF References, TypeOK, Exists

\* mpi_errhandler_free_ keeps the names truthful: the reference it gives up is
\* the one the variable stood for, and MPI keeps a handler others name.
LEMMA ErrhandlerFreeNames ==
  ASSUME PoolInv, Counted, Attached, NEW t \in Threads, ErrhandlerFree(t)
  PROVE  References
<1> DEFINE h == errhandler[t]
           r == [mpi_eh[h] EXCEPT !.refs = @ - 1]
           eh == [mpi_eh EXCEPT ![h] = r]
<1>0. TypeOK
  BY DEF PoolInv, SlotOwnership
<1>1. /\ h \in Handles
      /\ errhandler' = [errhandler EXCEPT ![t] = ERRHANDLER_NULL]
      /\ mpi_eh' = Collect(eh, attached)
      /\ UNCHANGED <<attached, called>>
      /\ Unchanged
  BY <1>0 DEF ErrhandlerFree, TypeOK
<1>2. Holders(errhandler, h) # {}
  BY DEF Holders
<1>3. /\ Exists(h) /\ mpi_eh[h] \in Handler
      /\ mpi_eh[h].refs \in Nat /\ mpi_eh[h].refs >= 1
  BY <1>0, <1>1, <1>2, NamedHasReference
<1>4. /\ r \in Handler /\ r.tramp = mpi_eh[h].tramp /\ r.asked = mpi_eh[h].asked
      /\ r.refs = mpi_eh[h].refs - 1
  BY <1>3 DEF Handler
<1> HIDE DEF r, h
<1>5. /\ eh \in [Handles -> Handler \union {NULL}]
      /\ eh[h] = r /\ r # NULL
      /\ \A g \in Handles \ {h} : eh[g] = mpi_eh[g]
  BY <1>0, <1>1, <1>4, NullIsNoHandler DEF TypeOK
<1> HIDE DEF eh
<1>6. /\ mpi_eh' \in [Handles -> Handler \union {NULL}]
      /\ \A g \in Handles :
           /\ mpi_eh'[g] \in {eh[g], NULL}
           /\ eh[g] # NULL /\ (eh[g].refs # 0 \/ \E q \in Objects : attached[q] = g)
                => mpi_eh'[g] = eh[g]
  BY <1>1, <1>5, CollectDrops
<1>7. Counted'
  <2> SUFFICES ASSUME NEW g \in Handles, Holders(errhandler', g) # {}
               PROVE  Exists(g)' /\ Cardinality(Holders(errhandler', g)) <= mpi_eh'[g].refs
    BY DEF Counted
  <2>1. /\ \A u \in Threads \ {t} : errhandler'[u] = errhandler[u]
        /\ errhandler'[t] # g
    BY <1>0, <1>1, ErrhandlerPoolAssumption DEF TypeOK
  <2>2. /\ Holders(errhandler, g) # {}
        /\ Cardinality(Holders(errhandler', g)) <= Cardinality(Holders(errhandler, g))
        /\ g = h => Cardinality(Holders(errhandler', g)) =
                      Cardinality(Holders(errhandler, g)) - 1
    BY <2>1, HolderLeaves DEF h
  <2>3. /\ Exists(g) /\ mpi_eh[g].refs \in Nat /\ mpi_eh[g].refs >= 1
        /\ Cardinality(Holders(errhandler, g)) <= mpi_eh[g].refs
    BY <1>0, <2>2, NamedHasReference DEF Counted
  <2>4. Cardinality(Holders(errhandler', g)) >= 1
    <3>1. Cardinality(Holders(errhandler', g)) # 0
      BY HoldersFinite, FS_EmptySet
    <3>2. QED
      BY <3>1, HoldersFinite
  <2>5. /\ eh[g] # NULL /\ eh[g].refs \in Nat
        /\ Cardinality(Holders(errhandler', g)) <= eh[g].refs
    <3>1. CASE g = h
      BY <1>3, <1>4, <1>5, <2>2, <2>3, <3>1, HoldersFinite
    <3>2. CASE g # h
      BY <1>5, <2>2, <2>3, <3>2, HoldersFinite DEF Exists
    <3>3. QED
      BY <3>1, <3>2
  <2>6. eh[g].refs # 0
    BY <2>4, <2>5, HoldersFinite
  <2>7. QED
    BY <1>6, <2>5, <2>6 DEF Exists
<1>8. Attached'
  <2> SUFFICES ASSUME NEW q \in Objects, attached[q] # ERRHANDLER_NULL
               PROVE  mpi_eh'[attached[q]] # NULL /\ mpi_eh'[attached[q]].tramp.kind = q[1]
    BY <1>1 DEF Attached, Exists
  <2>1. /\ attached[q] \in Handles /\ mpi_eh[attached[q]] # NULL
        /\ mpi_eh[attached[q]].tramp.kind = q[1]
    BY <1>0 DEF TypeOK, Attached, Exists
  <2>2. eh[attached[q]] # NULL /\ eh[attached[q]].tramp.kind = q[1]
    BY <1>4, <1>5, <2>1
  <2>3. QED
    BY <1>6, <2>1, <2>2
<1>9. errhandler' \in [Threads -> Handles \union {ERRHANDLER_NULL}]
  BY <1>0, <1>1 DEF TypeOK
<1>10. \A g \in Handles : Exists(g)' => /\ Exists(g)
                                        /\ mpi_eh'[g].tramp = mpi_eh[g].tramp
                                        /\ mpi_eh'[g].asked = mpi_eh[g].asked
  BY <1>3, <1>4, <1>5, <1>6 DEF Exists
<1>11. QED
  BY <1>0, <1>1, <1>6, <1>7, <1>8, <1>9, <1>10 DEF References, TypeOK

\* Freeing an object, or giving it a predefined handler, keeps the names
\* truthful: only a handler that nothing else names goes with it.
LEMMA DetachNames ==
  ASSUME PoolInv, Counted, Attached, NEW o \in Objects, Detach(o)
  PROVE  References
<1> DEFINE att == [attached EXCEPT ![o] = ERRHANDLER_NULL]
<1>0. TypeOK
  BY DEF PoolInv, SlotOwnership
<1>1. /\ attached' = att /\ mpi_eh' = Collect(mpi_eh, att)
      /\ Unchanged /\ UNCHANGED <<errhandler, called>>
  BY DEF Detach
<1>2. /\ att \in [Objects -> Handles \union {ERRHANDLER_NULL}]
      /\ \A q \in Objects : att[q] # ERRHANDLER_NULL => att[q] = attached[q]
  BY <1>0 DEF TypeOK
<1> HIDE DEF att
<1>3. /\ mpi_eh' \in [Handles -> Handler \union {NULL}]
      /\ \A g \in Handles :
           /\ mpi_eh'[g] \in {mpi_eh[g], NULL}
           /\ mpi_eh[g] # NULL /\ (mpi_eh[g].refs # 0 \/ \E q \in Objects : att[q] = g)
                => mpi_eh'[g] = mpi_eh[g]
  <2>1. mpi_eh \in [Handles -> Handler \union {NULL}]
    BY <1>0 DEF TypeOK
  <2>2. QED
    BY <1>1, <2>1, CollectDrops
<1>4. Counted'
  <2> SUFFICES ASSUME NEW g \in Handles, Holders(errhandler', g) # {}
               PROVE  Exists(g)' /\ Cardinality(Holders(errhandler', g)) <= mpi_eh'[g].refs
    BY DEF Counted
  <2>1. Holders(errhandler', g) = Holders(errhandler, g)
    BY <1>1 DEF Holders
  <2>2. Exists(g) /\ mpi_eh[g].refs # 0
    BY <1>0, <2>1, NamedHasReference
  <2>3. QED
    BY <1>1, <1>3, <2>1, <2>2 DEF Counted, Exists
<1>5. Attached'
  <2> SUFFICES ASSUME NEW q \in Objects, att[q] # ERRHANDLER_NULL
               PROVE  mpi_eh'[att[q]] # NULL /\ mpi_eh'[att[q]].tramp.kind = q[1]
    BY <1>1 DEF Attached, Exists
  <2>1. /\ att[q] \in Handles /\ mpi_eh[att[q]] # NULL
        /\ mpi_eh[att[q]].tramp.kind = q[1]
    BY <1>0, <1>2 DEF TypeOK, Attached, Exists
  <2>2. QED
    BY <1>3, <2>1
<1>6. QED
  BY <1>0, <1>1, <1>2, <1>3, <1>4, <1>5 DEF References, TypeOK, Exists

\* A call of a handler changes neither the pool nor MPI's handlers.
LEMMA RaiseStep ==
  ASSUME IInv, NEW o \in Objects, Raise(o) PROVE IInv'
BY DEF IInv, PoolInv, Raise, Unchanged, pool, mpi, TypeOK, SlotOwnership,
   Reservations, Accounted, KindsMatch, NamedHandlersExist, Owns, Exists, SlotOf

\* Init establishes the inductive invariant.
LEMMA InitEstablishes == Init => IInv
BY InitPool, ErrhandlerPoolAssumption
   DEF IInv, NamedHandlersExist, Init

\* Every step preserves it.
LEMMA StepPreserves == IInv /\ [Next]_vars => IInv'
<1> SUFFICES ASSUME IInv, [Next]_vars PROVE IInv'
  OBVIOUS
<1>0. PoolInv /\ TypeOK /\ Counted /\ Attached
  BY NamedHalves DEF IInv, PoolInv, SlotOwnership
<1>1. ASSUME References PROVE IInv'
  <2>1. PoolInv'
    BY <1>0, <1>1, MpiStep DEF References
  <2>2. QED
    BY <1>1, <2>1, NamedHalves DEF References, IInv, NamedHandlersExist, Counted,
       Attached, Holders
<1>2. ASSUME NEW t \in Threads,
             \/ \E a \in Arguments : CreateErrhandler(t, a)
             \/ Claim(t) \/ Skip(t) \/ Exhausted(t) \/ SetFn(t) \/ CreateFails(t)
             \/ CancelFn(t) \/ CancelInUse(t)
      PROVE  IInv'
  <2>1. PoolInv'
    BY <1>0, <1>2, ThreadStep
  <2>2. /\ UNCHANGED mpi
        /\ \/ UNCHANGED errhandler
           \/ errhandler' = [errhandler EXCEPT ![t] = ERRHANDLER_NULL]
           \/ errhandler' = [errhandler EXCEPT ![t] = errhandler[t]]
    BY <1>2 DEF CreateErrhandler, Claim, Skip, Exhausted, SetFn, CreateFails,
       CancelFn, CancelInUse, Return, AfterFailure
  <2>3. Counted' /\ Attached'
    BY <1>0, <2>2, ClearingStep
  <2>4. QED
    BY <2>1, <2>3 DEF IInv, NamedHandlersExist, Counted, Attached, Holders
<1>3. ASSUME NEW t \in Threads, NEW h \in Handles, CreateSucceeds(t, h)
      PROVE  IInv'
  <2>1. PoolInv'
    BY <1>0, <1>3, CreateSucceedsPool
  <2>2. Counted' /\ Attached'
    BY <1>0, <1>3, CreateSucceedsNames
  <2>3. QED
    BY <2>1, <2>2 DEF IInv, NamedHandlersExist, Counted, Attached, Holders
<1>4. ASSUME NEW t \in Threads, GetNothing(t) PROVE References
  <2>1. Counted' /\ Attached'
    BY <1>0, <1>4, ClearingStep DEF GetNothing
  <2>2. QED
    BY <1>0, <1>4, <2>1 DEF GetNothing, References, mpi, TypeOK, Exists
<1>5. CASE UNCHANGED vars
  BY <1>5 DEF vars, IInv, PoolInv, TypeOK, SlotOwnership, Reservations, Accounted,
     KindsMatch, NamedHandlersExist, Owns, Exists, SlotOf
<1>6. QED
  BY <1>0, <1>1, <1>2, <1>3, <1>4, <1>5, RaiseStep, SetErrhandlerNames,
     GetErrhandlerNames, ErrhandlerFreeNames, DetachNames DEF Next

\* The inductive invariant holds throughout.
LEMMA Invariance == Spec => []IInv
BY InitEstablishes, StepPreserves, PTL DEF Spec

-----------------------------------------------------------------------------
(* The theorems                                                            *)

\* For any number of threads, slots and kinds: an error raised on any object,
\* however long after MPI_Errhandler_free, finds the handler's own procedure in
\* the slot, and no create or cancel touches that slot.
THEOREM OwnershipHolds == Spec => []SlotOwnership
BY Invariance, PTL DEF IInv, PoolInv

\* Whatever is created, attached, got, freed and refused in whatever order: a
\* handler a variable or an object names is one MPI still holds, with a
\* reference for every variable.
THEOREM NamedHandlersAreLive == Spec => []NamedHandlersExist
BY Invariance, PTL DEF IInv

\* A create that failed, or was refused, costs no slot.
THEOREM NoSlotIsLost == Spec => []NoSlotLost
<1>1. IInv => NoSlotLost
  BY DEF IInv, PoolInv, SlotOwnership, TypeOK, Accounted, NoSlotLost, Owns
<1>2. QED
  BY <1>1, Invariance, PTL

\* The pool implements CallbackDispatch: an error reaches the procedure its
\* handler was created with, through the trampoline of the handler's kind.
THEOREM PoolImplementsDispatch == Spec => Refinement
<1> DEFINE bar == [h \in Handles |-> IF Exists(h) THEN mpi_eh[h].asked ELSE NULL]
<1> USE ErrhandlerPoolAssumption, NullIsNoHandler
<1>1. Init => Dispatch!Init
  BY DEF Init, Dispatch!Init, Exists
<1>2. ASSUME IInv, IInv', [Next]_vars
      PROVE  Dispatch!Next \/ (bar' = bar /\ called' = called)
  <2>t. TypeOK /\ TypeOK' /\ Counted /\ Attached /\ PoolInv
    BY <1>2, NamedHalves DEF IInv, PoolInv, SlotOwnership
  <2>0. /\ bar \in [Handles -> Dispatch!Registrations]
        /\ bar' \in [Handles -> Dispatch!Registrations]
    BY <2>t DEF TypeOK, Exists, Handler, Dispatch!Registrations
  <2>1. ASSUME UNCHANGED <<mpi_eh, called>>
        PROVE  bar' = bar /\ called' = called
    BY <2>1 DEF Exists
  <2>2. ASSUME NEW t \in Threads, NEW h \in Handles, CreateSucceeds(t, h)
        PROVE  Dispatch!Next
    <3>1. \A g \in Handles : bar[g] # NULL => bar'[g] = bar[g]
      BY <2>2, <2>t DEF CreateSucceeds, TypeOK, Exists
    <3>2. QED
      BY <2>0, <2>2, <3>1 DEF Dispatch!Register, Dispatch!Next, CreateSucceeds
  <2>3. ASSUME References PROVE Dispatch!Next
    <3>1. \A g \in Handles : bar'[g] \in {bar[g], NULL}
      BY <2>3 DEF References, Exists
    <3>2. QED
      BY <2>0, <2>3, <3>1 DEF Dispatch!GiveUp, Dispatch!Next, References
  <2>4. ASSUME NEW o \in Objects, Raise(o) PROVE Dispatch!Next
    <3>1. PICK h \in Handles : h = attached[o] /\ Exists(h)
      BY <2>4, <2>t DEF Raise, TypeOK, Attached
    <3>2. bar[h] = call_errhandler(mpi_eh[h].tramp) /\ bar[h] # NULL
      BY <2>t, <3>1 DEF PoolInv, SlotOwnership, KindsMatch, call_errhandler,
         SlotOf, Exists, TypeOK, Handler
    <3>3. bar' = bar
      BY <2>4 DEF Raise, mpi, Exists
    <3>4. Dispatch!Call(h)
      BY <2>0, <2>4, <3>1, <3>2, <3>3 DEF Raise, Dispatch!Call, Dispatch!GiveUp
    <3>5. QED
      BY <3>4 DEF Dispatch!Next
  <2>5. ASSUME NEW t \in Threads, GetNothing(t)
        PROVE  bar' = bar /\ called' = called
    BY <2>1, <2>5 DEF GetNothing, mpi
  <2>6. ASSUME NEW t \in Threads,
               \/ \E a \in Arguments : CreateErrhandler(t, a)
               \/ Claim(t) \/ Skip(t) \/ Exhausted(t) \/ SetFn(t) \/ CreateFails(t)
               \/ CancelFn(t) \/ CancelInUse(t)
        PROVE  bar' = bar /\ called' = called
    BY <2>1, <2>6 DEF CreateErrhandler, Claim, Skip, Exhausted, SetFn, CreateFails,
       CancelFn, CancelInUse, mpi
  <2>7. CASE UNCHANGED vars
    BY <2>1, <2>7 DEF vars
  <2>8. QED
    BY <1>2, <2>t, <2>2, <2>3, <2>4, <2>5, <2>6, <2>7, SetErrhandlerNames,
       GetErrhandlerNames, ErrhandlerFreeNames, DetachNames DEF Next
<1>3. IInv /\ IInv' /\ [Next]_vars => [Dispatch!Next]_(Dispatch!vars)
  BY <1>2 DEF Dispatch!vars
<1>4. QED
  BY <1>1, <1>3, Invariance, PTL DEF Spec, Refinement, Dispatch!Spec
=============================================================================

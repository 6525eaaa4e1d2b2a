---------------------------- MODULE OpPoolProofs ----------------------------
(***************************************************************************)
(* Theorems about OpPool, for any number of threads, slots, procedures and *)
(* handles.  SlotOwnership is not inductive by itself: the strengthening   *)
(* IInv adds who may own a slot before MPI has it (Reservations), that a   *)
(* slot in use is accounted for (Accounted), what a scan has established   *)
(* so far (Scanned) and that the program's handles denote live operators   *)
(* (Held).                                                                 *)
(***************************************************************************)
EXTENDS OpPool, TLAPS

\* A reserved slot is in use, has one owner and holds its procedure by the
\* time MPI_Op_create is called.
Reservations ==
  \A t \in Threads :
    /\ pc[t] # Idle => user_fn[t] \in Procs
    /\ Owns(t) =>
         /\ in_use[slot[t]]
         /\ slot[t] \notin retired
         /\ \A u \in Threads \ {t} : Owns(u) => slot[u] # slot[t]
    /\ pc[t] = "mpi_create" => fn[slot[t]] = user_fn[t]

\* A slot in use was given to MPI or is owned by a thread, and MPI's are in use.
Accounted ==
  /\ \A h \in Handles : Exists(h) => SlotOf(h) \in retired
  /\ \A s \in retired : in_use[s]
  /\ \A s \in Slots : in_use[s] =>
       s \in retired \/ \E t \in Threads : Owns(t) /\ slot[t] = s

\* A scanning thread found every earlier slot taken.
Scanned ==
  \A t \in Threads : pc[t] = "scan" =>
    \A s \in Slots : s < slot[t] => in_use[s] \/ s \in released[t]

\* A thread's non-null handle denotes a live operator, and its own.
Held ==
  \A t \in Threads : op[t] # OP_NULL =>
    /\ Exists(op[t])
    /\ ~mpi_op[op[t]].freed
    /\ \A u \in Threads \ {t} : op[u] # op[t]

IInv ==
  /\ TypeOK
  /\ SlotOwnership
  /\ Reservations
  /\ Accounted
  /\ Scanned
  /\ Held

-----------------------------------------------------------------------------
(* The inductive invariant                                                 *)

\* Init of OpPool satisfies the inductive invariant.
LEMMA InitEstablishes == Init => IInv
BY OpPoolAssumption DEF Init, IInv, TypeOK, SlotOwnership, Reservations,
   Accounted, Scanned, Held, Owns, Exists, Slots, PCs, Idle

\* A step in which MPI only marks, uses or drops operators (mpi_op_free_, a
\* reduction starting or completing) keeps the invariant: such a step touches
\* neither the pool nor a thread inside mpi_op_create_.
LEMMA MpiStep ==
  ASSUME IInv,
         UNCHANGED <<in_use, fn, pc, user_fn, large, slot, ierror, retired,
                     released>>,
         op' \in [Threads -> Handles \union {OP_NULL}],
         mpi_op' \in [Handles -> Operator \union {NULL}],
         \A g \in Handles : Exists(g)' => /\ Exists(g)
                                         /\ mpi_op'[g].tramp = mpi_op[g].tramp
                                         /\ mpi_op'[g].asked = mpi_op[g].asked,
         Held'
  PROVE  IInv'
<1>1. TypeOK'
  BY DEF IInv, TypeOK
<1>2. SlotOwnership'
  BY DEF IInv, TypeOK, SlotOwnership, Owns, Exists, SlotOf, call_user_fn
<1>3. Reservations' /\ Scanned'
  BY DEF IInv, Reservations, Scanned, Owns
<1>4. Accounted'
  BY DEF IInv, Accounted, Owns, Exists, SlotOf
<1>5. QED
  BY <1>1, <1>2, <1>3, <1>4 DEF IInv

\* mpi_op_free_ keeps the invariant.
LEMMA OpFreeStep == ASSUME IInv, NEW t \in Threads, OpFree(t) PROVE IInv'
<1> DEFINE h == op[t]
           o == [mpi_op[h] EXCEPT !.freed = TRUE]
<1>1. h \in Handles /\ mpi_op[h] \in Operator
  BY DEF IInv, TypeOK, Held, Exists, OpFree
<1>2. /\ o \in Operator
      /\ o.tramp = mpi_op[h].tramp
      /\ o.asked = mpi_op[h].asked
  BY <1>1 DEF Operator
<1>3. mpi_op' = [mpi_op EXCEPT ![h] = Settle(o)] /\ Settle(o) \in {o, NULL}
  BY DEF OpFree, Settle
<1> HIDE DEF o
<1>4. /\ mpi_op' \in [Handles -> Operator \union {NULL}]
      /\ \A g \in Handles : Exists(g)' => /\ Exists(g)
                                          /\ mpi_op'[g].tramp = mpi_op[g].tramp
                                          /\ mpi_op'[g].asked = mpi_op[g].asked
      /\ \A g \in Handles \ {h} : mpi_op'[g] = mpi_op[g]
  BY <1>1, <1>2, <1>3, NullIsNoOperator DEF IInv, TypeOK, Exists
<1>5. op' = [op EXCEPT ![t] = OP_NULL]
  BY DEF OpFree
<1>6. op' \in [Threads -> Handles \union {OP_NULL}] /\ Held'
  BY <1>4, <1>5 DEF IInv, TypeOK, Held, Exists
<1>7. QED
  BY <1>4, <1>6, MpiStep DEF OpFree, pool, locals, history

\* Starting a reduction keeps the invariant.
LEMMA StartReductionStep ==
  ASSUME IInv, NEW t \in Threads, StartReduction(t) PROVE IInv'
<1> DEFINE h == op[t]
           o == [mpi_op[h] EXCEPT !.pending = @ + 1]
<1>1. h \in Handles /\ mpi_op[h] \in Operator /\ ~mpi_op[h].freed
  BY DEF IInv, TypeOK, Held, Exists, StartReduction
<1>2. /\ o \in Operator
      /\ o.tramp = mpi_op[h].tramp
      /\ o.asked = mpi_op[h].asked
      /\ ~o.freed
  BY <1>1 DEF Operator
<1>3. mpi_op' = [mpi_op EXCEPT ![h] = o]
  BY DEF StartReduction
<1> HIDE DEF o
<1>4. /\ mpi_op' \in [Handles -> Operator \union {NULL}]
      /\ \A g \in Handles : Exists(g)' => /\ Exists(g)
                                          /\ mpi_op'[g].tramp = mpi_op[g].tramp
                                          /\ mpi_op'[g].asked = mpi_op[g].asked
      /\ \A g \in Handles : Exists(g) /\ ~mpi_op[g].freed =>
                              Exists(g)' /\ ~mpi_op'[g].freed
  BY <1>1, <1>2, <1>3, NullIsNoOperator DEF IInv, TypeOK, Exists
<1>5. UNCHANGED op
  BY DEF StartReduction
<1>6. op' \in [Threads -> Handles \union {OP_NULL}] /\ Held'
  BY <1>4, <1>5 DEF IInv, TypeOK, Held
<1>7. QED
  BY <1>4, <1>6, MpiStep DEF StartReduction, pool, locals, history

\* The completion of a reduction keeps the invariant.
LEMMA FinishReductionStep ==
  ASSUME IInv, NEW h \in Handles, FinishReduction(h) PROVE IInv'
<1> DEFINE o == [mpi_op[h] EXCEPT !.pending = @ - 1]
<1>1. mpi_op[h] \in Operator /\ mpi_op[h].pending > 0
  BY DEF IInv, TypeOK, Exists, FinishReduction
<1>2. mpi_op[h].pending - 1 \in Nat
  BY <1>1 DEF Operator
<1>3. /\ o \in Operator
      /\ o.tramp = mpi_op[h].tramp
      /\ o.asked = mpi_op[h].asked
      /\ o.freed = mpi_op[h].freed
  BY <1>1, <1>2 DEF Operator
<1>4. /\ mpi_op' = [mpi_op EXCEPT ![h] = Settle(o)]
      /\ Settle(o) \in {o, NULL}
      /\ ~o.freed => Settle(o) = o
  <2>1. mpi_op' = [mpi_op EXCEPT ![h] = Settle(o)]
    BY DEF FinishReduction
  <2>2. Settle(o) \in {o, NULL} /\ (~o.freed => Settle(o) = o)
    BY DEF Settle
  <2>3. QED
    BY <2>1, <2>2
<1> HIDE DEF o
<1>5. /\ mpi_op' \in [Handles -> Operator \union {NULL}]
      /\ \A g \in Handles : Exists(g)' => /\ Exists(g)
                                          /\ mpi_op'[g].tramp = mpi_op[g].tramp
                                          /\ mpi_op'[g].asked = mpi_op[g].asked
      /\ \A g \in Handles : Exists(g) /\ ~mpi_op[g].freed =>
                              Exists(g)' /\ ~mpi_op'[g].freed
  BY <1>1, <1>3, <1>4, NullIsNoOperator DEF IInv, TypeOK, Exists
<1>6. UNCHANGED op
  BY DEF FinishReduction
<1>7. op' \in [Threads -> Handles \union {OP_NULL}] /\ Held'
  BY <1>5, <1>6 DEF IInv, TypeOK, Held
<1>8. QED
  BY <1>5, <1>7, MpiStep DEF FinishReduction, pool, locals, history

\* Every step of OpPool keeps the invariant.
LEMMA StepPreserves == IInv /\ [Next]_vars => IInv'
<1> SUFFICES ASSUME IInv, [Next]_vars PROVE IInv'
  OBVIOUS
<1> USE OpPoolAssumption, NullIsNoOperator DEF IInv
<1>1. ASSUME NEW t \in Threads, NEW p \in Procs, NEW l \in {0, 1},
             OpCreate(t, p, l)
      PROVE  IInv'
  <2> USE <1>1 DEF OpCreate, Goto, pool, locals, history
  <2>1. TypeOK'
    BY DEF TypeOK, Slots, PCs, Idle
  <2>2. SlotOwnership'
    BY DEF TypeOK, SlotOwnership, Reservations, Accounted, Owns, Exists, SlotOf,
       call_user_fn, Operator, Idle
  <2>3. Reservations'
    BY DEF TypeOK, Reservations, Accounted, Owns, Idle
  <2>4. Accounted'
    BY DEF TypeOK, Accounted, Reservations, Owns, Exists, SlotOf, Idle
  <2>5. Scanned'
    BY DEF TypeOK, Scanned, Slots, Idle
  <2>6. Held'
    BY DEF TypeOK, Held, Exists, Idle
  <2>7. QED
    BY <2>1, <2>2, <2>3, <2>4, <2>5, <2>6
<1>2. ASSUME NEW t \in Threads, Claim(t)
      PROVE  IInv'
  <2> USE <1>2 DEF Claim, Goto, pool, locals, history
  <2>1. TypeOK'
    BY DEF TypeOK, Slots, PCs, Idle
  <2>2. SlotOwnership'
    BY DEF TypeOK, SlotOwnership, Reservations, Accounted, Owns, Exists, SlotOf,
       call_user_fn, Operator, Idle
  <2>3. Reservations'
    BY DEF TypeOK, Reservations, Accounted, Owns, Idle
  <2>4. Accounted'
    BY DEF TypeOK, Accounted, Reservations, Owns, Exists, SlotOf, Idle
  <2>5. Scanned'
    BY DEF TypeOK, Scanned, Slots, Idle
  <2>6. Held'
    BY DEF TypeOK, Held, Exists, Idle
  <2>7. QED
    BY <2>1, <2>2, <2>3, <2>4, <2>5, <2>6
<1>3. ASSUME NEW t \in Threads, Skip(t)
      PROVE  IInv'
  <2> USE <1>3 DEF Skip, AtEnd, NextSlot, pool, locals, history
  <2>1. TypeOK'
    BY DEF TypeOK, Slots, PCs, Idle
  <2>2. SlotOwnership'
    BY DEF TypeOK, SlotOwnership, Reservations, Accounted, Owns, Exists, SlotOf,
       call_user_fn, Operator, Idle
  <2>3. Reservations'
    BY DEF TypeOK, Reservations, Accounted, Owns, Idle
  <2>4. Accounted'
    BY DEF TypeOK, Accounted, Reservations, Owns, Exists, SlotOf, Idle
  <2>5. Scanned'
    BY DEF TypeOK, Scanned, Slots, Idle
  <2>6. Held'
    BY DEF TypeOK, Held, Exists, Idle
  <2>7. QED
    BY <2>1, <2>2, <2>3, <2>4, <2>5, <2>6
<1>4. ASSUME NEW t \in Threads, Exhausted(t)
      PROVE  IInv'
  <2> USE <1>4 DEF Exhausted, Return, Goto, pool, locals, history
  <2>1. TypeOK'
    BY DEF TypeOK, Slots, PCs, Idle
  <2>2. SlotOwnership'
    BY DEF TypeOK, SlotOwnership, Reservations, Accounted, Owns, Exists, SlotOf,
       call_user_fn, Operator, Idle
  <2>3. Reservations'
    BY DEF TypeOK, Reservations, Accounted, Owns, Idle
  <2>4. Accounted'
    BY DEF TypeOK, Accounted, Reservations, Owns, Exists, SlotOf, Idle
  <2>5. Scanned'
    BY DEF TypeOK, Scanned, Slots, Idle
  <2>6. Held'
    BY DEF TypeOK, Held, Exists, Idle
  <2>7. QED
    BY <2>1, <2>2, <2>3, <2>4, <2>5, <2>6
<1>5. ASSUME NEW t \in Threads, SetFn(t)
      PROVE  IInv'
  <2> USE <1>5 DEF SetFn, Goto, pool, locals, history
  <2>1. TypeOK'
    BY DEF TypeOK, Slots, PCs, Idle
  <2>2. SlotOwnership'
    BY DEF TypeOK, SlotOwnership, Reservations, Accounted, Owns, Exists, SlotOf,
       call_user_fn, Operator, Idle
  <2>3. Reservations'
    BY DEF TypeOK, Reservations, Accounted, Owns, Idle
  <2>4. Accounted'
    BY DEF TypeOK, Accounted, Reservations, Owns, Exists, SlotOf, Idle
  <2>5. Scanned'
    BY DEF TypeOK, Scanned, Slots, Idle
  <2>6. Held'
    BY DEF TypeOK, Held, Exists, Idle
  <2>7. QED
    BY <2>1, <2>2, <2>3, <2>4, <2>5, <2>6
<1>6. ASSUME NEW t \in Threads, NEW h \in Handles, CreateSucceeds(t, h)
      PROVE  IInv'
  <2> DEFINE o == [tramp |-> Trampoline(slot[t], large[t]),
                   freed |-> FALSE, pending |-> 0,
                   asked |-> <<user_fn[t], large[t]>>]
  <2>o. /\ o \in Operator
        /\ o.tramp.slot = slot[t]
        /\ call_user_fn(o.tramp) = o.asked
        /\ ~o.freed
    BY <1>6 DEF CreateSucceeds, TypeOK, Reservations, Operator, Idle,
       Trampoline, call_user_fn
  <2>m. /\ pc[t] = "mpi_create" /\ ~Exists(h)
        /\ mpi_op' = [mpi_op EXCEPT ![h] = o]
        /\ retired' = retired \union {slot[t]}
        /\ UNCHANGED <<in_use, fn, released>>
    BY <1>6 DEF CreateSucceeds, pool
  <2>r. Return(t, h, TRUE)
    BY <1>6 DEF CreateSucceeds
  <2> HIDE DEF o
  <2> USE DEF Return, Goto
  <2>1. TypeOK'
    <3>1. mpi_op' \in [Handles -> Operator \union {NULL}]
      BY <2>o, <2>m DEF TypeOK
    <3>2. /\ pc' \in [Threads -> PCs] /\ op' \in [Threads -> Handles \union {OP_NULL}]
          /\ ierror' \in [Threads -> BOOLEAN] /\ large' \in [Threads -> {0, 1}]
          /\ user_fn' \in [Threads -> Procs \union {NULL}]
      BY <2>r DEF TypeOK, PCs, Idle
    <3>3. slot' \in [Threads -> Slots]
      BY <2>r DEF TypeOK, Slots
    <3>4. retired' \in SUBSET Slots
      BY <2>m DEF TypeOK
    <3>5. QED
      BY <2>m, <3>1, <3>2, <3>3, <3>4 DEF TypeOK
  <2>2. SlotOwnership'
    BY <2>o, <2>m, <2>r DEF TypeOK, SlotOwnership, Reservations, Accounted, Owns, Exists, SlotOf,
       call_user_fn, Operator, Idle
  <2>3. Reservations'
    BY <2>o, <2>m, <2>r DEF TypeOK, Reservations, Accounted, Owns, Idle
  <2>4. Accounted'
    BY <2>o, <2>m, <2>r DEF TypeOK, Accounted, Reservations, Owns, Exists, SlotOf, Idle
  <2>5. Scanned'
    BY <2>o, <2>m, <2>r DEF TypeOK, Scanned, Slots, Idle
  <2>6. Held'
    BY <2>o, <2>m, <2>r DEF TypeOK, Held, Exists, Idle
  <2>7. QED
    BY <2>1, <2>2, <2>3, <2>4, <2>5, <2>6
<1>7. ASSUME NEW t \in Threads, CreateFails(t)
      PROVE  IInv'
  <2> USE <1>7 DEF CreateFails, Goto, pool, locals, history
  <2>1. TypeOK'
    BY DEF TypeOK, Slots, PCs, Idle
  <2>2. SlotOwnership'
    BY DEF TypeOK, SlotOwnership, Reservations, Accounted, Owns, Exists, SlotOf,
       call_user_fn, Operator, Idle
  <2>3. Reservations'
    BY DEF TypeOK, Reservations, Accounted, Owns, Idle
  <2>4. Accounted'
    BY DEF TypeOK, Accounted, Reservations, Owns, Exists, SlotOf, Idle
  <2>5. Scanned'
    BY DEF TypeOK, Scanned, Slots, Idle
  <2>6. Held'
    BY DEF TypeOK, Held, Exists, Idle
  <2>7. QED
    BY <2>1, <2>2, <2>3, <2>4, <2>5, <2>6
<1>8. ASSUME NEW t \in Threads, CancelFn(t)
      PROVE  IInv'
  <2> USE <1>8 DEF CancelFn, Goto, pool, locals, history
  <2>1. TypeOK'
    BY DEF TypeOK, Slots, PCs, Idle
  <2>2. SlotOwnership'
    BY DEF TypeOK, SlotOwnership, Reservations, Accounted, Owns, Exists, SlotOf,
       call_user_fn, Operator, Idle
  <2>3. Reservations'
    BY DEF TypeOK, Reservations, Accounted, Owns, Idle
  <2>4. Accounted'
    BY DEF TypeOK, Accounted, Reservations, Owns, Exists, SlotOf, Idle
  <2>5. Scanned'
    BY DEF TypeOK, Scanned, Slots, Idle
  <2>6. Held'
    BY DEF TypeOK, Held, Exists, Idle
  <2>7. QED
    BY <2>1, <2>2, <2>3, <2>4, <2>5, <2>6
<1>9. ASSUME NEW t \in Threads, CancelInUse(t)
      PROVE  IInv'
  <2> USE <1>9 DEF CancelInUse, Return, Goto, pool, locals, history
  <2>1. TypeOK'
    BY DEF TypeOK, Slots, PCs, Idle
  <2>2. SlotOwnership'
    BY DEF TypeOK, SlotOwnership, Reservations, Accounted, Owns, Exists, SlotOf,
       call_user_fn, Operator, Idle
  <2>3. Reservations'
    BY DEF TypeOK, Reservations, Accounted, Owns, Idle
  <2>4. Accounted'
    BY DEF TypeOK, Accounted, Reservations, Owns, Exists, SlotOf, Idle
  <2>5. Scanned'
    BY DEF TypeOK, Scanned, Slots, Idle
  <2>6. Held'
    BY DEF TypeOK, Held, Exists, Idle
  <2>7. QED
    BY <2>1, <2>2, <2>3, <2>4, <2>5, <2>6
<1>10. ASSUME NEW h \in Handles, Fire(h)
       PROVE  IInv'
  BY <1>10 DEF Fire, pool, locals, history, TypeOK, SlotOwnership, Reservations,
     Accounted, Scanned, Held, Owns, Exists, SlotOf, call_user_fn
<1>11. CASE UNCHANGED vars
  BY <1>11 DEF vars, TypeOK, SlotOwnership, Reservations, Accounted, Scanned,
     Held, Owns, Exists, SlotOf, call_user_fn
<1>12. QED
  BY <1>1, <1>2, <1>3, <1>4, <1>5, <1>6, <1>7, <1>8, <1>9, <1>10, <1>11,
     OpFreeStep, StartReductionStep, FinishReductionStep DEF Next, Step

\* The inductive invariant holds throughout.
LEMMA Invariance == Spec => []IInv
BY InitEstablishes, StepPreserves, PTL DEF Spec

-----------------------------------------------------------------------------
(* The theorems                                                            *)

\* Type correctness of the pool, of the threads inside mpi_op_create_ and of
\* MPI's operators.
THEOREM TypeCorrect == Spec => []TypeOK
BY Invariance, PTL DEF IInv

\* For any number of threads and slots: the slot of an operator MPI may still
\* apply holds that operator's procedure, and nobody else writes it.
THEOREM OwnershipHolds == Spec => []SlotOwnership
BY Invariance, PTL DEF IInv

\* A create that failed, or was refused, costs no slot.
THEOREM NoSlotIsLost == Spec => []NoSlotLost
<1>1. IInv => NoSlotLost
  BY DEF IInv, TypeOK, Accounted, NoSlotLost, Owns, Idle
<1>2. QED
  BY <1>1, Invariance, PTL

\* No operator is ever created on a trampoline MPI was given before.
THEOREM TrampolinesAreFresh == Spec => FreshTrampoline
<1> DEFINE Fresh == \A h \in Handles :
                      ~Exists(h) /\ Exists(h)' => SlotOf(h)' \notin retired
<1>1. IInv /\ [Next]_vars => [Fresh]_vars
  <2> SUFFICES ASSUME IInv, Next, NEW h \in Handles, ~Exists(h), Exists(h)'
               PROVE  SlotOf(h)' \notin retired
    OBVIOUS
  <2>1. PICK t \in Threads : \E g \in Handles : CreateSucceeds(t, g)
    <3>1. ASSUME NEW t \in Threads, OpFree(t) \/ StartReduction(t) PROVE FALSE
      BY <3>1 DEF IInv, TypeOK, Held, Exists, OpFree, StartReduction
    <3>2. QED
      BY <3>1 DEF Next, Step, OpCreate, Claim, Skip, Exhausted, SetFn, CreateFails,
         CancelFn, CancelInUse, Fire, FinishReduction, IInv, TypeOK, Exists
  <2>2. CreateSucceeds(t, h)
    BY <2>1 DEF CreateSucceeds, IInv, TypeOK, Exists
  <2>3. SlotOf(h)' = slot[t]
    BY <2>2 DEF CreateSucceeds, SlotOf, Trampoline, IInv, TypeOK
  <2>4. QED
    BY <2>2, <2>3 DEF CreateSucceeds, IInv, Reservations, Owns
<1>2. QED
  BY <1>1, Invariance, PTL DEF Spec, FreshTrampoline

\* mpif_op_reserve refuses only when it saw every slot taken.
THEOREM RefusalsAreJustified == Spec => RefusalIsJustified
<1> DEFINE Justified == \A t \in Threads :
             pc[t] = "scan" /\ pc'[t] = Idle =>
               \A s \in Slots : in_use[s] \/ s \in released[t]
<1>1. IInv /\ [Next]_vars => [Justified]_vars
  <2> SUFFICES ASSUME IInv, Next, NEW t \in Threads, pc[t] = "scan",
                      pc'[t] = Idle, NEW s \in Slots
               PROVE  in_use[s] \/ s \in released[t]
    OBVIOUS
  <2>1. Exhausted(t)
    BY DEF IInv, TypeOK, Next, Step, OpCreate, Claim, Skip, Exhausted, SetFn,
       CreateSucceeds, CreateFails, CancelFn, CancelInUse, OpFree,
       StartReduction, Fire, FinishReduction, Goto, Return, Idle
  <2>2. s < slot[t] \/ s = slot[t]
    BY <2>1, OpPoolAssumption DEF Exhausted, AtEnd, Slots, IInv, TypeOK
  <2>3. QED
    BY <2>1, <2>2 DEF Exhausted, IInv, Scanned
<1>2. QED
  BY <1>1, Invariance, PTL DEF Spec, RefusalIsJustified

\* A create that returns MPI_SUCCESS leaves the caller an operator of its own procedure
\* and interface, any other return MPI_OP_NULL.
THEOREM ReturnsAreTruthful == Spec => ReturnIsTruthful
<1> DEFINE Truthful == \A t \in Threads :
             pc[t] # Idle /\ pc'[t] = Idle =>
               IF ierror'[t]
               THEN /\ op'[t] \in Handles
                    /\ mpi_op'[op'[t]] # NULL
                    /\ mpi_op'[op'[t]].asked = <<user_fn[t], large[t]>>
               ELSE op'[t] = OP_NULL
<1>1. IInv /\ [Next]_vars => [Truthful]_vars
  <2> SUFFICES ASSUME IInv, Next, NEW t \in Threads, pc[t] # Idle, pc'[t] = Idle
               PROVE  IF ierror'[t]
                      THEN /\ op'[t] \in Handles
                           /\ mpi_op'[op'[t]] # NULL
                           /\ mpi_op'[op'[t]].asked = <<user_fn[t], large[t]>>
                      ELSE op'[t] = OP_NULL
    OBVIOUS
  <2>1. Exhausted(t) \/ (\E h \in Handles : CreateSucceeds(t, h)) \/ CancelInUse(t)
    <3>1. pc \in [Threads -> PCs]
      BY DEF IInv, TypeOK
    <3>2. PICK u \in Threads : Step(u) \/ \E p \in Procs, l \in {0, 1} : OpCreate(u, p, l)
      BY DEF Next, OpFree, StartReduction, Fire, FinishReduction
    <3>3. ASSUME NEW h \in Handles, CreateSucceeds(u, h) PROVE u = t
      BY <3>1, <3>3 DEF CreateSucceeds, Return, Goto
    <3>4. ASSUME Exhausted(u) \/ CancelInUse(u) PROVE u = t
      BY <3>1, <3>4 DEF Exhausted, CancelInUse, Return, Goto
    <3>5. ASSUME NEW p \in Procs, NEW l \in {0, 1}, OpCreate(u, p, l) PROVE FALSE
      BY <3>1, <3>5 DEF OpCreate, Goto, Idle
    <3>6. ~Claim(u) /\ ~Skip(u) /\ ~SetFn(u) /\ ~CreateFails(u) /\ ~CancelFn(u)
      BY <3>1 DEF Claim, Skip, SetFn, CreateFails, CancelFn, Goto, Idle
    <3>7. QED
      BY <3>2, <3>3, <3>4, <3>5, <3>6 DEF Step
  <2>2. CASE Exhausted(t) \/ CancelInUse(t)
    BY <2>2 DEF Exhausted, CancelInUse, Return, IInv, TypeOK
  <2>3. ASSUME NEW h \in Handles, CreateSucceeds(t, h)
        PROVE  /\ op'[t] = h /\ ierror'[t]
               /\ mpi_op'[h] # NULL /\ mpi_op'[h].asked = <<user_fn[t], large[t]>>
    <3> DEFINE o == [tramp |-> Trampoline(slot[t], large[t]),
                     freed |-> FALSE, pending |-> 0,
                     asked |-> <<user_fn[t], large[t]>>]
    <3>1. op'[t] = h /\ ierror'[t]
      BY <2>3 DEF CreateSucceeds, Return, IInv, TypeOK
    <3>2. o \in Operator /\ o.asked = <<user_fn[t], large[t]>>
      BY <2>3 DEF CreateSucceeds, IInv, TypeOK, Reservations, Operator, Idle, Trampoline
    <3>3. mpi_op' = [mpi_op EXCEPT ![h] = o] /\ h \in DOMAIN mpi_op
      BY <2>3 DEF CreateSucceeds, IInv, TypeOK
    <3> HIDE DEF o
    <3>4. QED
      BY <3>1, <3>2, <3>3, NullIsNoOperator
  <2>4. QED
    BY <2>1, <2>2, <2>3
<1>2. QED
  BY <1>1, Invariance, PTL DEF Spec, ReturnIsTruthful

\* The pool implements the promise of CallbackDispatch: a trampoline always
\* calls the procedure, and through the interface, of its own operator.
THEOREM PoolImplementsDispatch == Spec => Refinement
<1> DEFINE bar == [h \in Handles |-> IF Exists(h) THEN mpi_op[h].asked ELSE NULL]
<1> USE OpPoolAssumption, NullIsNoOperator
<1>1. Init => Dispatch!Init
  BY DEF Init, Dispatch!Init, Exists
<1>2. ASSUME IInv, IInv', [Next]_vars
      PROVE  Dispatch!Next \/ (bar' = bar /\ called' = called)
  <2>0. /\ bar \in [Handles -> Dispatch!Registrations]
        /\ bar' \in [Handles -> Dispatch!Registrations]
    BY <1>2 DEF IInv, TypeOK, Exists, Operator, Dispatch!Registrations
  <2>1. ASSUME UNCHANGED <<mpi_op, called>>
        PROVE  bar' = bar /\ called' = called
    BY <2>1 DEF Exists
  <2>2. ASSUME NEW t \in Threads, NEW h \in Handles, CreateSucceeds(t, h)
        PROVE  Dispatch!Next
    <3>1. user_fn[t] \in Procs /\ large[t] \in {0, 1}
      BY <1>2, <2>2 DEF CreateSucceeds, IInv, TypeOK, Reservations, Idle
    <3>2. bar[h] = NULL /\ bar' = [bar EXCEPT ![h] = <<user_fn[t], large[t]>>]
      <4> DEFINE o == [tramp |-> Trampoline(slot[t], large[t]),
                       freed |-> FALSE, pending |-> 0,
                       asked |-> <<user_fn[t], large[t]>>]
      <4>1. o \in Operator /\ o.asked = <<user_fn[t], large[t]>>
        BY <1>2, <3>1 DEF IInv, TypeOK, Operator, Trampoline
      <4>2. ~Exists(h) /\ mpi_op' = [mpi_op EXCEPT ![h] = o]
        BY <2>2 DEF CreateSucceeds
      <4>3. mpi_op \in [Handles -> Operator \union {NULL}]
        BY <1>2 DEF IInv, TypeOK
      <4> HIDE DEF o
      <4>4. QED
        BY <4>1, <4>2, <4>3 DEF Exists
    <3>3. QED
      BY <2>0, <2>2, <3>2 DEF Dispatch!Register, Dispatch!Next, CreateSucceeds
  <2>3. ASSUME NEW h \in Handles, Exists(h), UNCHANGED called,
               \A g \in Handles \ {h} : mpi_op'[g] = mpi_op[g],
               Exists(h)' => mpi_op'[h].asked = mpi_op[h].asked
        PROVE  Dispatch!Next \/ (bar' = bar /\ called' = called)
    <3>1. CASE Exists(h)'
      BY <2>3, <3>1 DEF Exists
    <3>2. CASE ~Exists(h)'
      <4>1. bar' = [bar EXCEPT ![h] = NULL]
        BY <2>3, <3>2 DEF Exists
      <4>2. QED
        BY <2>0, <2>3, <4>1 DEF Dispatch!GiveUp, Dispatch!Next
    <3>3. QED
      BY <3>1, <3>2
  <2>4. ASSUME NEW t \in Threads, OpFree(t) \/ StartReduction(t)
        PROVE  Dispatch!Next \/ (bar' = bar /\ called' = called)
    <3>1. PICK h \in Handles : h = op[t] /\ Exists(h) /\ mpi_op[h] \in Operator
      BY <1>2, <2>4 DEF OpFree, StartReduction, IInv, TypeOK, Held, Exists
    <3>2. /\ UNCHANGED called
          /\ \A g \in Handles \ {h} : mpi_op'[g] = mpi_op[g]
          /\ Exists(h)' => mpi_op'[h].asked = mpi_op[h].asked
      BY <1>2, <2>4, <3>1 DEF OpFree, StartReduction, Settle, IInv, TypeOK, Exists,
         Operator
    <3>3. QED
      BY <2>3, <3>1, <3>2
  <2>5. ASSUME NEW h \in Handles, FinishReduction(h)
        PROVE  Dispatch!Next \/ (bar' = bar /\ called' = called)
    <3>1. Exists(h) /\ mpi_op[h] \in Operator
      BY <1>2, <2>5 DEF FinishReduction, IInv, TypeOK, Exists
    <3>2. /\ UNCHANGED called
          /\ \A g \in Handles \ {h} : mpi_op'[g] = mpi_op[g]
          /\ Exists(h)' => mpi_op'[h].asked = mpi_op[h].asked
      BY <1>2, <2>5, <3>1 DEF FinishReduction, Settle, IInv, TypeOK, Exists, Operator
    <3>3. QED
      BY <2>3, <3>1, <3>2
  <2>6. ASSUME NEW h \in Handles, Fire(h)
        PROVE  Dispatch!Next
    <3>1. bar[h] = call_user_fn(mpi_op[h].tramp) /\ bar[h] # NULL
      BY <1>2, <2>6 DEF Fire, IInv, TypeOK, SlotOwnership, Exists, Operator
    <3>2. bar' = bar
      BY <2>6 DEF Fire, Exists
    <3>3. Dispatch!Call(h)
      BY <2>0, <2>6, <3>1, <3>2 DEF Fire, Dispatch!Call, Dispatch!GiveUp
    <3>4. QED
      BY <3>3 DEF Dispatch!Next
  <2>7. QED
    BY <1>2, <2>1, <2>2, <2>4, <2>5, <2>6 DEF Next, Step, OpCreate, Claim, Skip,
       Exhausted, SetFn, CreateFails, CancelFn, CancelInUse, vars
<1>3. IInv /\ IInv' /\ [Next]_vars => [Dispatch!Next]_(Dispatch!vars)
  BY <1>2 DEF Dispatch!vars
<1>4. QED
  BY <1>1, <1>3, Invariance, PTL DEF Spec, Refinement, Dispatch!Spec
=============================================================================

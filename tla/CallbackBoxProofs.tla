-------------------------- MODULE CallbackBoxProofs --------------------------
(***************************************************************************)
(* Theorems about CallbackBox, for any number of threads, requests,        *)
(* datareps and heap addresses.  The argument is ownership: every          *)
(* allocated block belongs to one wrapper that has not returned, to one    *)
(* object of MPI's, or to the names that were lost, and to nobody else.    *)
(***************************************************************************)
EXTENDS CallbackBox, TLAPS

\* The wrapper owns its box from malloc until MPI has it, and the copy of a
\* name until free(c_datarep).
OwnsBox(t)  == pc[t] \in {"greq_start", "rep_register"}
OwnsName(t) == pc[t] \in {"rep_reserve", "rep_register", "rep_free_name"}

\* MPI's object still has its box.
Holds(o) == Exists(o) /\ mpi[o].phase # "released"

\* What a wrapper has at each point: arguments of its own kind, and blocks that
\* hold what it put there.
Wrappers ==
  \A t \in Threads :
    /\ pc[t] \in {"greq_reserve", "greq_start"} => args[t] \in GrequestArgs
    /\ pc[t] \in {"rep_strdup", "rep_reserve", "rep_register"} => args[t] \in DatarepArgs
    /\ box[t] # NULL <=> OwnsBox(t) \/ pc[t] = "rep_free_name"
    /\ c_name[t] # NULL <=> OwnsName(t)
    /\ OwnsBox(t) => /\ heap[box[t]] \in Boxes
                     /\ heap[box[t]].fns = args[t].fns
                     /\ heap[box[t]].extra = args[t].extra
    /\ OwnsName(t) => heap[c_name[t]] = NAME
    /\ pc[t] = "rep_free_name" => \E d \in Reps : Exists(d) /\ mpi[d].box = box[t]

\* An object that has its box finds its own procedures and state in it; a
\* datarep keeps its box for good; MPI calls the trampolines it was given.
Contents ==
  /\ \A o \in Owners : Holds(o) =>
       /\ heap[mpi[o].box] \in Boxes
       /\ heap[mpi[o].box].fns = mpi[o].asked.fns
       /\ heap[mpi[o].box].extra = mpi[o].extra
  /\ \A r \in Requests : Exists(r) => mpi[r].asked \in GrequestArgs
  /\ \A d \in Reps : Exists(d) => mpi[d].asked \in DatarepArgs /\ mpi[d].phase = "active"
  /\ \A o \in Owners : Exists(o) => mpi[o].fns = c_fns(mpi[o].asked)
  /\ \A a \in lost : heap[a] = NAME

\* No block has two owners.
Apart ==
  /\ \A o, p \in Owners : o # p /\ Holds(o) /\ Holds(p) => mpi[o].box # mpi[p].box
  /\ \A o \in Owners, t \in Threads : Holds(o) /\ OwnsBox(t) => mpi[o].box # box[t]
  /\ \A t, u \in Threads : t # u /\ OwnsBox(t) /\ OwnsBox(u) => box[t] # box[u]
  /\ \A t, u \in Threads : t # u /\ OwnsName(t) /\ OwnsName(u) => c_name[t] # c_name[u]
  /\ \A t \in Threads : OwnsName(t) => c_name[t] \notin lost

\* Every allocated block has an owner.
Accounted ==
  \A a \in Addrs : heap[a] # FREE =>
    \/ a \in lost
    \/ \E o \in Owners : Holds(o) /\ mpi[o].box = a
    \/ \E t \in Threads : OwnsBox(t) /\ box[t] = a
    \/ \E t \in Threads : OwnsName(t) /\ c_name[t] = a

IInv == TypeOK /\ ~fault /\ Wrappers /\ Contents /\ Apart /\ Accounted

-----------------------------------------------------------------------------
(* The inductive invariant                                                 *)

\* Init of CallbackBox satisfies the inductive invariant.
LEMMA InitEstablishes == Init => IInv
<1> SUFFICES ASSUME Init PROVE IInv
  OBVIOUS
<1> USE CallbackBoxAssumption DEF Init
<1>1. TypeOK /\ ~fault
  BY DEF TypeOK
<1>2. Wrappers /\ Accounted
  BY DEF Wrappers, Accounted, OwnsBox, OwnsName
<1>3. Contents /\ Apart
  BY DEF Contents, Apart, OwnsBox, OwnsName, Holds, Exists, Owners
<1>4. QED
  BY <1>1, <1>2, <1>3 DEF IInv

\* The steps of a wrapper before it has a box: the call, the copy of the name,
\* and a malloc that fails.
LEMMA EarlySteps ==
  ASSUME IInv, NEW t \in Threads,
         \/ \E a \in GrequestArgs : GrequestStart(t, a)
         \/ \E a \in DatarepArgs : RegisterDatarep(t, a)
         \/ \E a \in Addrs : Strdup(t, a)
         \/ StrdupAborts(t)
         \/ ReserveFails(t)
  PROVE  IInv'
<1> USE CallbackBoxAssumption DEF IInv, Goto, locals
<1>1. ASSUME NEW a \in GrequestArgs, GrequestStart(t, a) PROVE IInv'
  <2> USE <1>1 DEF GrequestStart
  <2>1. TypeOK' /\ ~fault'
    BY DEF TypeOK
  <2>2. Wrappers'
    BY DEF TypeOK, Wrappers, OwnsBox, OwnsName, Exists
  <2>3. Contents'
    BY DEF TypeOK, Wrappers, Contents, OwnsName, Holds, Exists
  <2>4. Apart'
    BY DEF TypeOK, Wrappers, Contents, Apart, OwnsBox, OwnsName, Holds, Exists
  <2>5. Accounted'
    BY DEF TypeOK, Wrappers, Accounted, OwnsBox, OwnsName, Holds, Exists
  <2>6. QED
    BY <2>1, <2>2, <2>3, <2>4, <2>5
<1>2. ASSUME NEW a \in DatarepArgs, RegisterDatarep(t, a) PROVE IInv'
  <2> USE <1>2 DEF RegisterDatarep
  <2>1. TypeOK' /\ ~fault'
    BY DEF TypeOK
  <2>2. Wrappers'
    BY DEF TypeOK, Wrappers, OwnsBox, OwnsName, Exists
  <2>3. Contents'
    BY DEF TypeOK, Wrappers, Contents, OwnsName, Holds, Exists
  <2>4. Apart'
    BY DEF TypeOK, Wrappers, Contents, Apart, OwnsBox, OwnsName, Holds, Exists
  <2>5. Accounted'
    BY DEF TypeOK, Wrappers, Accounted, OwnsBox, OwnsName, Holds, Exists
  <2>6. QED
    BY <2>1, <2>2, <2>3, <2>4, <2>5
<1>3. ASSUME NEW a \in Addrs, Strdup(t, a) PROVE IInv'
  <2> USE <1>3 DEF Strdup
  <2>1. TypeOK' /\ ~fault'
    BY DEF TypeOK
  <2>2. Wrappers'
    BY DEF TypeOK, Wrappers, OwnsBox, OwnsName, Exists
  <2>3. Contents'
    BY DEF TypeOK, Wrappers, Contents, OwnsName, Holds, Exists
  <2>4. Apart'
    BY DEF TypeOK, Wrappers, Contents, Apart, OwnsBox, OwnsName, Holds, Exists
  <2>5. Accounted'
    BY DEF TypeOK, Wrappers, Accounted, OwnsBox, OwnsName, Holds, Exists
  <2>6. QED
    BY <2>1, <2>2, <2>3, <2>4, <2>5
<1>4. ASSUME StrdupAborts(t) PROVE IInv'
  <2> USE <1>4 DEF StrdupAborts
  <2>1. TypeOK' /\ ~fault'
    BY DEF TypeOK
  <2>2. Wrappers'
    BY DEF TypeOK, Wrappers, OwnsBox, OwnsName, Exists
  <2>3. Contents'
    BY DEF TypeOK, Wrappers, Contents, OwnsName, Holds, Exists
  <2>4. Apart'
    BY DEF TypeOK, Wrappers, Contents, Apart, OwnsBox, OwnsName, Holds, Exists
  <2>5. Accounted'
    BY DEF TypeOK, Wrappers, Accounted, OwnsBox, OwnsName, Holds, Exists
  <2>6. QED
    BY <2>1, <2>2, <2>3, <2>4, <2>5
<1>5. ASSUME ReserveFails(t) PROVE IInv'
  <2> USE <1>5 DEF ReserveFails, Return
  <2>1. TypeOK' /\ ~fault'
    BY DEF TypeOK
  <2>2. Wrappers'
    BY DEF TypeOK, Wrappers, OwnsBox, OwnsName, Exists
  <2>3. Contents'
    BY DEF TypeOK, Wrappers, Contents, OwnsName, Holds, Exists
  <2>4. Apart'
    BY DEF TypeOK, Wrappers, Contents, Apart, OwnsBox, OwnsName, Holds, Exists
  <2>5. Accounted'
    BY DEF TypeOK, Wrappers, Accounted, OwnsBox, OwnsName, Holds, Exists
  <2>6. QED
    BY <2>1, <2>2, <2>3, <2>4, <2>5
<1>6. QED
  BY <1>1, <1>2, <1>3, <1>4, <1>5

\* mpif_grequest_reserve and mpif_datarep_reserve: malloc returns a block that
\* nobody owns, and the wrapper fills it.
LEMMA ReserveBoxStep ==
  ASSUME IInv, NEW t \in Threads, NEW a \in Addrs, ReserveBox(t, a)
  PROVE  IInv'
<1> DEFINE b == [fns |-> args[t].fns, extra |-> args[t].extra]
<1> USE CallbackBoxAssumption DEF IInv
<1>1. /\ b \in Boxes /\ b.fns = args[t].fns /\ b.extra = args[t].extra
      /\ b # FREE /\ b # NAME
  BY DEF ReserveBox, Wrappers, GrequestArgs, DatarepArgs, Boxes
<1>2. /\ \/ pc[t] = "greq_reserve" /\ pc' = [pc EXCEPT ![t] = "greq_start"]
         \/ pc[t] = "rep_reserve" /\ pc' = [pc EXCEPT ![t] = "rep_register"]
      /\ heap[a] = FREE
      /\ heap' = [heap EXCEPT ![a] = b]
      /\ box' = [box EXCEPT ![t] = a]
      /\ UNCHANGED <<args, c_name, mpi, called, fault, lost, aborted>>
  BY DEF ReserveBox, Goto
<1> HIDE DEF b
<1> USE <1>1, <1>2
<1>3. \A x \in Addrs : heap[x] # FREE => heap'[x] = heap[x] /\ x # a
  BY DEF TypeOK
<1>4. TypeOK' /\ ~fault'
  BY DEF TypeOK
<1>5. Wrappers'
  BY <1>3 DEF TypeOK, Wrappers, OwnsBox, OwnsName, Exists
<1>6. Contents'
  BY <1>3 DEF TypeOK, Contents, Holds, Exists, Object
<1>7. Apart'
  BY <1>3 DEF TypeOK, Wrappers, Contents, Apart, OwnsBox, OwnsName, Holds, Exists, Object
<1>8. Accounted'
  BY DEF TypeOK, Accounted, OwnsBox, OwnsName, Holds, Exists
<1>9. QED
  BY <1>4, <1>5, <1>6, <1>7, <1>8

\* The wrappers' own frees: each block is the wrapper's, so it is allocated, and
\* the others' blocks stay.
LEMMA FreeingSteps ==
  ASSUME IInv, NEW t \in Threads, StartFails(t) \/ FreeName(t) \/ RegisterFails(t)
  PROVE  IInv'
<1> USE CallbackBoxAssumption DEF IInv, Goto, Free, Return
<1>1. ASSUME StartFails(t) PROVE IInv'
  <2> USE <1>1 DEF StartFails
  <2>1. TypeOK' /\ ~fault'
    BY DEF TypeOK, Wrappers, OwnsBox, OwnsName
  <2>2. Wrappers'
    BY DEF TypeOK, Wrappers, Apart, OwnsBox, OwnsName, Exists
  <2>3. Contents'
    <3>1. \A x \in Addrs \ {box[t]} : heap'[x] = heap[x]
      OBVIOUS
    <3>2. \A o \in Owners : Holds(o) => mpi[o].box \in Addrs \ {box[t]}
      BY DEF TypeOK, Wrappers, Contents, Apart, OwnsBox, OwnsName, Holds, Exists, Object
    <3>3. \A x \in lost : x \in Addrs \ {box[t]}
      BY DEF TypeOK, Wrappers, Contents, Apart, OwnsBox, OwnsName
    <3>4. QED
      BY <3>1, <3>2, <3>3 DEF Contents, Holds, Exists
  <2>4. Apart'
    BY DEF TypeOK, Apart, OwnsBox, OwnsName, Holds, Exists
  <2>5. Accounted'
    BY DEF TypeOK, Wrappers, Accounted, OwnsBox, OwnsName, Holds, Exists
  <2>6. QED
    BY <2>1, <2>2, <2>3, <2>4, <2>5
<1>2. ASSUME FreeName(t) PROVE IInv'
  <2> USE <1>2 DEF FreeName
  <2>1. TypeOK' /\ ~fault'
    BY DEF TypeOK, Wrappers, OwnsBox, OwnsName
  <2>2. Wrappers'
    BY DEF TypeOK, Wrappers, Apart, OwnsBox, OwnsName, Exists
  <2>3. Contents'
    <3>1. \A x \in Addrs \ {c_name[t]} : heap'[x] = heap[x]
      OBVIOUS
    <3>2. \A o \in Owners : Holds(o) => mpi[o].box \in Addrs \ {c_name[t]}
      BY DEF TypeOK, Wrappers, Contents, Apart, OwnsBox, OwnsName, Holds, Exists, Object
    <3>3. \A x \in lost : x \in Addrs \ {c_name[t]}
      BY DEF TypeOK, Wrappers, Contents, Apart, OwnsBox, OwnsName
    <3>4. QED
      BY <3>1, <3>2, <3>3 DEF Contents, Holds, Exists
  <2>4. Apart'
    BY DEF TypeOK, Apart, OwnsBox, OwnsName, Holds, Exists
  <2>5. Accounted'
    BY DEF TypeOK, Wrappers, Accounted, OwnsBox, OwnsName, Holds, Exists
  <2>6. QED
    BY <2>1, <2>2, <2>3, <2>4, <2>5
<1>3. ASSUME RegisterFails(t) PROVE IInv'
  <2> USE <1>3 DEF RegisterFails
  <2>1. TypeOK' /\ ~fault'
    BY DEF TypeOK, Wrappers, OwnsBox, OwnsName
  <2>2. Wrappers'
    BY DEF TypeOK, Wrappers, Apart, OwnsBox, OwnsName, Exists
  <2>3. Contents'
    <3>1. \A x \in Addrs \ {c_name[t], box[t]} : heap'[x] = heap[x]
      OBVIOUS
    <3>2. \A o \in Owners : Holds(o) => mpi[o].box \in Addrs \ {c_name[t], box[t]}
      BY DEF TypeOK, Wrappers, Contents, Apart, OwnsBox, OwnsName, Holds, Exists, Object
    <3>3. \A x \in lost : x \in Addrs \ {c_name[t], box[t]}
      BY DEF TypeOK, Wrappers, Contents, Apart, OwnsBox, OwnsName
    <3>4. QED
      BY <3>1, <3>2, <3>3 DEF Contents, Holds, Exists
  <2>4. Apart'
    BY DEF TypeOK, Apart, OwnsBox, OwnsName, Holds, Exists
  <2>5. Accounted'
    BY DEF TypeOK, Wrappers, Accounted, OwnsBox, OwnsName, Holds, Exists
  <2>6. QED
    BY <2>1, <2>2, <2>3, <2>4, <2>5
<1>4. QED
  BY <1>1, <1>2, <1>3

\* What a wrapper gives MPI is a C function for each role; a trampoline takes the
\* procedure of its role and calls it as that procedure is declared.
LEMMA TrampolinesGiven ==
  ASSUME NEW a \in GrequestArgs \union DatarepArgs
  PROVE  /\ c_fns(a) \in [GrequestRoles -> Trampolines] \union
                         [DatarepRoles -> Trampolines \union {Predefined}]
         /\ \A role \in DOMAIN a.fns :
              IF a.fns[role] = Predefined THEN c_fns(a)[role] = Predefined
              ELSE c_fns(a)[role] = [fn |-> role, as |-> Declared(a, role)]
<1>1. \A role : cast(a, role) = Declared(a, role) /\ cast(a, role) \in Interfaces
  BY DEF cast, Declared, Interfaces
<1>2. \/ a.fns \in [GrequestRoles -> Procs]
      \/ a.fns \in [DatarepRoles -> Procs \union {Predefined}]
  BY CallbackBoxAssumption DEF GrequestArgs, DatarepArgs
<1>3. \A role \in DOMAIN a.fns :
        IF a.fns[role] = Predefined THEN c_fns(a)[role] = Predefined
        ELSE c_fns(a)[role] = [fn |-> role, as |-> Declared(a, role)]
  BY <1>1 DEF c_fns
<1>4. \A role \in DOMAIN a.fns : [fn |-> role, as |-> cast(a, role)] \in Trampolines
  BY <1>1, <1>2 DEF Trampolines
<1>5. c_fns(a) \in [GrequestRoles -> Trampolines] \union
                  [DatarepRoles -> Trampolines \union {Predefined}]
  BY <1>2, <1>4, CallbackBoxAssumption DEF c_fns
<1>6. QED
  BY <1>3, <1>5

\* MPI takes the box over: MPI_Grequest_start and MPI_Register_datarep succeed.
LEMMA HandOverSteps ==
  ASSUME IInv, NEW t \in Threads, NEW o \in Owners,
         \/ o \in Requests /\ StartSucceeds(t, o)
         \/ o \in Reps /\ RegisterSucceeds(t, o)
  PROVE  IInv'
<1> DEFINE r == [box |-> box[t], fns |-> c_fns(args[t]), asked |-> args[t],
                 extra |-> args[t].extra, phase |-> "active"]
<1> USE CallbackBoxAssumption, NullIsNoObject DEF IInv
<1>1. /\ OwnsBox(t) /\ box[t] \in Addrs
      /\ o \in Requests => pc[t] = "greq_start" /\ args[t] \in GrequestArgs
      /\ o \in Reps => pc[t] = "rep_register" /\ args[t] \in DatarepArgs
      /\ args[t].extra \in Values
  BY DEF StartSucceeds, RegisterSucceeds, Wrappers, OwnsBox, TypeOK, GrequestArgs,
     DatarepArgs
<1>2. /\ r \in Object /\ r # NULL
      /\ r.box = box[t] /\ r.asked = args[t] /\ r.extra = args[t].extra
      /\ r.phase = "active" /\ r.fns = c_fns(args[t])
  BY <1>1, TrampolinesGiven DEF Object, Owners
<1>3. /\ ~Exists(o)
      /\ mpi' = [mpi EXCEPT ![o] = r]
      /\ UNCHANGED <<heap, called, fault, lost, aborted>>
      /\ \/ o \in Requests /\ Return(t)
         \/ o \in Reps /\ pc' = [pc EXCEPT ![t] = "rep_free_name"] /\ UNCHANGED locals
  BY DEF StartSucceeds, RegisterSucceeds, Goto
<1> HIDE DEF r
<1>4. /\ pc' \in [Threads -> {"idle", "greq_reserve", "greq_start", "rep_strdup",
                              "rep_reserve", "rep_register", "rep_free_name"}]
      /\ args' \in [Threads -> GrequestArgs \union DatarepArgs \union {NULL}]
      /\ box' \in [Threads -> Addrs \union {NULL}]
      /\ c_name' \in [Threads -> Addrs \union {NULL}]
      /\ \A u \in Threads \ {t} : /\ pc'[u] = pc[u] /\ args'[u] = args[u]
                                   /\ box'[u] = box[u] /\ c_name'[u] = c_name[u]
      /\ o \in Requests => pc'[t] = "idle" /\ box'[t] = NULL /\ c_name'[t] = NULL
      /\ o \in Reps => /\ pc'[t] = "rep_free_name"
                       /\ box'[t] = box[t] /\ c_name'[t] = c_name[t]
  BY <1>3 DEF TypeOK, Return, Goto, locals
<1>5. /\ mpi' \in [Owners -> Object \union {NULL}]
      /\ mpi'[o] = r /\ mpi[o] = NULL
      /\ \A p \in Owners \ {o} : mpi'[p] = mpi[p]
  BY <1>2, <1>3 DEF TypeOK, Exists
<1>6. TypeOK' /\ ~fault'
  BY <1>3, <1>4, <1>5 DEF TypeOK
<1>7. Wrappers'
  <2> SUFFICES ASSUME NEW u \in Threads PROVE Wrappers!(u)'
    BY DEF Wrappers
  <2>1. CASE u = t
    BY <1>1, <1>2, <1>3, <1>4, <1>5, <2>1 DEF Wrappers, OwnsBox, OwnsName, Exists, Owners
  <2>2. CASE u # t
    <3>1. pc[u] = "rep_free_name" => \E d \in Reps : mpi'[d] # NULL /\ mpi'[d].box = box[u]
      BY <1>5 DEF Wrappers, Exists, Owners
    <3>2. QED
      BY <1>3, <1>4, <2>2, <3>1 DEF Wrappers, OwnsBox, OwnsName, Exists
  <2>3. QED
    BY <2>1, <2>2
<1>8. Contents'
  <2>1. /\ heap[box[t]] \in Boxes /\ heap[box[t]].fns = args[t].fns
        /\ heap[box[t]].extra = args[t].extra
    BY <1>1 DEF Wrappers
  <2>2. QED
    BY <1>1, <1>2, <1>3, <1>5, <2>1 DEF Contents, Holds, Exists, Owners
<1>9. Apart'
  <2>1. \A u \in Threads : OwnsBox(u)' => u # t /\ OwnsBox(u)
    BY <1>3, <1>4 DEF OwnsBox, Owners
  <2>2. \A u \in Threads : OwnsName(u)' => OwnsName(u) /\ c_name'[u] = c_name[u]
    BY <1>1, <1>3, <1>4 DEF OwnsName, Owners
  <2>3. \A p \in Owners \ {o} : Holds(p)' => Holds(p)
    BY <1>5 DEF Holds, Exists
  <2>4. \A p \in Owners \ {o} : Holds(p)' => mpi'[p].box # mpi'[o].box
    BY <1>1, <1>2, <1>5, <2>3 DEF Apart
  <2>5. \A p \in Owners, u \in Threads : Holds(p)' /\ OwnsBox(u)' => mpi'[p].box # box'[u]
    BY <1>1, <1>2, <1>4, <1>5, <2>1, <2>3 DEF Apart
  <2>6. \A p, q \in Owners : p # q /\ Holds(p)' /\ Holds(q)' => mpi'[p].box # mpi'[q].box
    BY <1>5, <2>3, <2>4 DEF Apart
  <2>7. /\ \A u, v \in Threads : u # v /\ OwnsBox(u)' /\ OwnsBox(v)' => box'[u] # box'[v]
        /\ \A u, v \in Threads : u # v /\ OwnsName(u)' /\ OwnsName(v)' => c_name'[u] # c_name'[v]
        /\ \A u \in Threads : OwnsName(u)' => c_name'[u] \notin lost'
    BY <1>3, <1>4, <2>1, <2>2 DEF Apart
  <2>8. QED
    BY <2>5, <2>6, <2>7 DEF Apart
<1>10. Accounted'
  <2> SUFFICES ASSUME NEW a \in Addrs, heap[a] # FREE
               PROVE  Accounted!(a)!2'
    BY <1>3 DEF Accounted
  <2>1. CASE a = box[t]
    BY <1>2, <1>5, <2>1 DEF Holds, Exists
  <2>2. CASE a # box[t]
    <3>1. CASE \E p \in Owners : Holds(p) /\ mpi[p].box = a
      BY <1>5, <3>1 DEF Holds, Exists
    <3>2. CASE a \in lost
      BY <1>3, <3>2
    <3>3. CASE \E u \in Threads : OwnsBox(u) /\ box[u] = a
      BY <1>4, <2>2, <3>3 DEF OwnsBox
    <3>4. CASE \E u \in Threads : OwnsName(u) /\ c_name[u] = a
      BY <1>1, <1>3, <1>4, <3>4 DEF OwnsName, Owners, Wrappers
    <3>5. QED
      BY <3>1, <3>2, <3>3, <3>4 DEF Accounted
  <2>3. QED
    BY <2>1, <2>2
<1>11. QED
  BY <1>6, <1>7, <1>8, <1>9, <1>10

\* A step that changes MPI's record of one object, and its box's extra_state with
\* it, keeps the invariant: the box is that object's alone.
LEMMA ObjectStep ==
  ASSUME IInv, Others, UNCHANGED fault,
         NEW o \in Owners, Holds(o), NEW r \in Object, NEW b \in Boxes,
         mpi' = [mpi EXCEPT ![o] = r], heap' = [heap EXCEPT ![mpi[o].box] = b],
         r.box = mpi[o].box, r.fns = mpi[o].fns, r.asked = mpi[o].asked,
         r.phase # "released",
         o \in Reps => r.phase = mpi[o].phase,
         b.fns = r.asked.fns, b.extra = r.extra
  PROVE  IInv'
<1> USE CallbackBoxAssumption, NullIsNoObject DEF IInv, Others, locals
<1>1. /\ mpi' \in [Owners -> Object \union {NULL}] /\ mpi'[o] = r /\ r # NULL
      /\ \A p \in Owners \ {o} : mpi'[p] = mpi[p]
      /\ mpi[o] # NULL /\ mpi[o].box \in Addrs /\ heap[mpi[o].box] \in Boxes
  BY DEF TypeOK, Holds, Exists, Contents, Object
<1>2. /\ heap' \in [Addrs -> Boxes \union {FREE, NAME}]
      /\ heap'[mpi[o].box] = b /\ b # FREE /\ b # NAME
      /\ \A a \in Addrs \ {mpi[o].box} : heap'[a] = heap[a]
  BY <1>1 DEF TypeOK
<1>3. \A p \in Owners : Holds(p)' <=> Holds(p)
  BY <1>1 DEF Holds, Exists
<1>4. \A p \in Owners : Holds(p)' => mpi'[p].box = mpi[p].box
  BY <1>1
<1>5. TypeOK' /\ ~fault'
  BY <1>1, <1>2 DEF TypeOK
<1>6. Wrappers'
  <2>1. \A t \in Threads : OwnsBox(t) => /\ box[t] \in Addrs /\ box[t] # mpi[o].box
                                          /\ heap'[box[t]] = heap[box[t]]
    BY <1>2 DEF Apart, TypeOK, Wrappers
  <2>2. \A t \in Threads : OwnsName(t) => heap'[c_name[t]] = heap[c_name[t]]
    BY <1>1, <1>2 DEF TypeOK, Wrappers
  <2>3. \A t \in Threads : pc[t] = "rep_free_name" =>
          \E d \in Reps : Exists(d)' /\ mpi'[d].box = box[t]
    BY <1>1 DEF Wrappers, Exists, Owners
  <2>4. QED
    BY <2>1, <2>2, <2>3 DEF Wrappers, OwnsBox, OwnsName, Exists
<1>7. Contents'
  <2>1. ASSUME NEW p \in Owners, Holds(p)'
        PROVE  /\ heap'[mpi'[p].box] \in Boxes
               /\ heap'[mpi'[p].box].fns = mpi'[p].asked.fns
               /\ heap'[mpi'[p].box].extra = mpi'[p].extra
    <3>1. CASE p = o
      BY <1>1, <1>2, <3>1
    <3>2. CASE p # o
      <4>1. Holds(p) /\ mpi[p].box # mpi[o].box /\ mpi[p].box \in Addrs
        BY <1>3, <2>1, <3>2 DEF Apart, TypeOK, Holds, Exists, Object
      <4>2. QED
        BY <1>1, <1>2, <3>2, <4>1 DEF Contents
    <3>3. QED
      BY <3>1, <3>2
  <2>2. \A a \in lost : heap'[a] = NAME
    BY <1>1, <1>2 DEF Contents, TypeOK
  <2>3. /\ \A q \in Requests : Exists(q)' => mpi'[q].asked \in GrequestArgs
        /\ \A d \in Reps : Exists(d)' => /\ mpi'[d].asked \in DatarepArgs
                                         /\ mpi'[d].phase = "active"
        /\ \A p \in Owners : Exists(p)' => mpi'[p].fns = c_fns(mpi'[p].asked)
    BY <1>1 DEF Contents, Exists, Owners
  <2>4. QED
    BY <2>1, <2>2, <2>3 DEF Contents
<1>8. Apart'
  BY <1>3, <1>4 DEF Apart, OwnsBox, OwnsName
<1>9. Accounted'
  BY <1>1, <1>2, <1>3, <1>4 DEF Accounted, OwnsBox, OwnsName
<1>10. QED
  BY <1>5, <1>6, <1>7, <1>8, <1>9

\* The trampoline of an object that has its box: the box is intact, the call is
\* the one the trampoline's own field and cast make, and nothing else of the box
\* changes.
LEMMA TrampolineRuns ==
  ASSUME IInv, NEW o \in Owners, Holds(o), NEW role, NEW v \in Values,
         Trampoline(o, role, v)
  PROVE  LET b == [heap[mpi[o].box] EXCEPT !.extra = v]
         IN  /\ b \in Boxes /\ b.fns = mpi[o].asked.fns /\ b.extra = v
             /\ heap' = [heap EXCEPT ![mpi[o].box] = b]
             /\ called' = <<<<o, role>>, <<mpi[o].asked.fns[mpi[o].fns[role].fn],
                                           mpi[o].fns[role].as>>>>
             /\ UNCHANGED fault
<1> DEFINE b == [heap[mpi[o].box] EXCEPT !.extra = v]
<1>1. /\ heap[mpi[o].box] \in Boxes /\ heap[mpi[o].box].fns = mpi[o].asked.fns
      /\ heap[mpi[o].box] \notin {FREE, NAME}
  BY CallbackBoxAssumption DEF IInv, Contents
<1>2. b \in Boxes /\ b.fns = mpi[o].asked.fns /\ b.extra = v
  BY <1>1 DEF Boxes
<1>3. heap' = [heap EXCEPT ![mpi[o].box] = b]
  BY <1>1 DEF Trampoline
<1>4. called' = <<<<o, role>>, <<mpi[o].asked.fns[mpi[o].fns[role].fn],
                                  mpi[o].fns[role].as>>>>
  BY <1>1 DEF Trampoline
<1>5. UNCHANGED fault
  BY <1>1 DEF Trampoline
<1>6. QED
  BY <1>2, <1>3, <1>4, <1>5

\* MPI's callbacks keep the invariant.
LEMMA CallbackSteps ==
  ASSUME IInv, NEW o \in Owners, NEW role, NEW v \in Values,
         \/ o \in Requests /\ role = "query" /\ Query(o, v)
         \/ o \in Requests /\ role = "cancel" /\ Cancel(o, v)
         \/ o \in Requests /\ role = "free" /\ FreeCall(o, v)
         \/ o \in Reps /\ Convert(o, role, v)
  PROVE  IInv' /\ Holds(o) /\ Trampoline(o, role, v)
<1> DEFINE same == [mpi[o] EXCEPT !.extra = v]
           last == [mpi[o] EXCEPT !.extra = v, !.phase = "freeing"]
<1>1. Holds(o) /\ Trampoline(o, role, v) /\ Others /\ mpi[o] \in Object
  BY CallbackBoxAssumption DEF Query, Cancel, FreeCall, Convert, Holds, Callable, Exists,
     IInv, Contents, TypeOK
<1>2. PICK r \in Object : /\ mpi' = [mpi EXCEPT ![o] = r]
                          /\ r.box = mpi[o].box /\ r.asked = mpi[o].asked
                          /\ r.fns = mpi[o].fns
                          /\ r.phase # "released" /\ r.extra = v
                          /\ o \in Reps => r.phase = mpi[o].phase
  <2>1. CASE mpi' = [mpi EXCEPT ![o] = same]
    <3>1. /\ same \in Object /\ same.box = mpi[o].box /\ same.asked = mpi[o].asked
          /\ same.phase = mpi[o].phase /\ same.extra = v /\ same.fns = mpi[o].fns
      BY <1>1 DEF Object
    <3>2. QED
      BY <1>1, <2>1, <3>1 DEF Holds
  <2>2. CASE mpi' = [mpi EXCEPT ![o] = last] /\ o \in Requests
    <3>1. /\ last \in Object /\ last.box = mpi[o].box /\ last.asked = mpi[o].asked
          /\ last.phase = "freeing" /\ last.extra = v /\ last.fns = mpi[o].fns
      BY <1>1 DEF Object
    <3>2. QED
      BY <2>2, <3>1, CallbackBoxAssumption
  <2>3. QED
    BY <2>1, <2>2 DEF Query, Cancel, FreeCall, Convert
<1>3. PICK b \in Boxes : /\ b.fns = mpi[o].asked.fns /\ b.extra = v
                         /\ heap' = [heap EXCEPT ![mpi[o].box] = b]
                         /\ UNCHANGED fault
  <2> DEFINE b == [heap[mpi[o].box] EXCEPT !.extra = v]
  <2>1. /\ b \in Boxes /\ b.fns = mpi[o].asked.fns /\ b.extra = v
        /\ heap' = [heap EXCEPT ![mpi[o].box] = b]
        /\ UNCHANGED fault
    BY <1>1, TrampolineRuns
  <2> HIDE DEF b
  <2>2. QED
    BY <2>1
<1>4. QED
  BY <1>1, <1>2, <1>3, ObjectStep

\* mpi_grequest_complete_ keeps the invariant.
LEMMA CompleteStep ==
  ASSUME IInv, NEW r \in Requests, GrequestComplete(r) PROVE IInv'
<1> DEFINE q == [mpi[r] EXCEPT !.phase = "complete"]
           b == heap[mpi[r].box]
<1> USE CallbackBoxAssumption DEF IInv
<1>1. r \in Owners /\ r \notin Reps /\ Holds(r) /\ mpi[r] \in Object
  BY DEF GrequestComplete, Owners, Holds, Exists, TypeOK
<1>2. /\ q \in Object /\ q.box = mpi[r].box /\ q.asked = mpi[r].asked
      /\ q.phase = "complete" /\ q.extra = mpi[r].extra /\ q.fns = mpi[r].fns
  BY <1>1 DEF Object
<1>3. /\ b \in Boxes /\ b.fns = q.asked.fns /\ b.extra = q.extra
  BY <1>1, <1>2 DEF Contents
<1>4. /\ mpi' = [mpi EXCEPT ![r] = q] /\ UNCHANGED fault /\ Others
  BY DEF GrequestComplete
<1>5. heap' = [heap EXCEPT ![mpi[r].box] = b]
  BY DEF GrequestComplete, TypeOK
<1> HIDE DEF q, b
<1>6. QED
  BY <1>1, <1>2, <1>3, <1>4, <1>5, ObjectStep

\* The free trampoline's free() keeps the invariant: the box is the request's,
\* and from here on nobody's.
LEMMA FreeBoxStep ==
  ASSUME IInv, NEW r \in Requests, FreeBox(r) PROVE IInv'
<1> DEFINE q == [mpi[r] EXCEPT !.phase = "released"]
           a == mpi[r].box
<1> USE CallbackBoxAssumption, NullIsNoObject DEF IInv
<1>1. /\ r \in Owners /\ r \notin Reps /\ Holds(r) /\ mpi[r] \in Object
      /\ a \in Addrs /\ heap[a] \in Boxes
  BY DEF FreeBox, Owners, Holds, Exists, TypeOK, Contents, Object
<1>2. /\ q \in Object /\ q.asked = mpi[r].asked /\ q.phase = "released"
      /\ q.fns = mpi[r].fns
  BY <1>1 DEF Object
<1>3. /\ mpi' = [mpi EXCEPT ![r] = q]
      /\ UNCHANGED <<pc, args, box, c_name, lost, aborted, called>>
      /\ heap' = [x \in Addrs |-> IF x \in {a} THEN FREE ELSE heap[x]]
      /\ fault' \in BOOLEAN /\ ~fault'
  BY <1>1 DEF FreeBox, Free, Others, locals
<1> HIDE DEF q, a
<1>4. /\ mpi' \in [Owners -> Object \union {NULL}] /\ mpi'[r] = q
      /\ \A p \in Owners \ {r} : mpi'[p] = mpi[p]
      /\ heap' \in [Addrs -> Boxes \union {FREE, NAME}] /\ heap'[a] = FREE
      /\ \A x \in Addrs \ {a} : heap'[x] = heap[x]
  BY <1>1, <1>2, <1>3 DEF TypeOK
<1>5. \A p \in Owners : Holds(p)' <=> Holds(p) /\ p # r
  BY <1>2, <1>4 DEF Holds, Exists
<1>6. TypeOK' /\ ~fault'
  BY <1>3, <1>4 DEF TypeOK
<1>7. Wrappers'
  <2>1. \A t \in Threads : OwnsBox(t) => heap'[box[t]] = heap[box[t]]
    BY <1>1, <1>4 DEF a, Apart, TypeOK, Wrappers
  <2>2. \A t \in Threads : OwnsName(t) => heap'[c_name[t]] = heap[c_name[t]]
    BY <1>1, <1>4 DEF TypeOK, Wrappers
  <2>3. \A t \in Threads : pc[t] = "rep_free_name" =>
          \E d \in Reps : Exists(d)' /\ mpi'[d].box = box[t]
    BY <1>1, <1>4 DEF Wrappers, Exists, Owners
  <2>4. QED
    BY <1>3, <2>1, <2>2, <2>3 DEF Wrappers, OwnsBox, OwnsName, Exists
<1>8. Contents'
  <2>1. \A p \in Owners : Holds(p)' => /\ mpi[p].box \in Addrs \ {a} /\ mpi'[p] = mpi[p]
                                        /\ Holds(p)
    BY <1>1, <1>4, <1>5 DEF a, Apart, TypeOK, Holds, Exists, Object
  <2>2. \A x \in lost : heap'[x] = NAME
    BY <1>1, <1>4 DEF Contents, TypeOK
  <2>3. /\ \A p \in Requests : Exists(p)' => mpi'[p].asked \in GrequestArgs
        /\ \A d \in Reps : Exists(d)' => /\ mpi'[d].asked \in DatarepArgs
                                         /\ mpi'[d].phase = "active"
        /\ \A p \in Owners : Exists(p)' => mpi'[p].fns = c_fns(mpi'[p].asked)
    BY <1>1, <1>2, <1>4 DEF Contents, Exists, Owners, Holds
  <2>4. QED
    BY <1>3, <1>4, <2>1, <2>2, <2>3 DEF Contents
<1>9. Apart'
  BY <1>3, <1>4, <1>5 DEF Apart, OwnsBox, OwnsName
<1>10. Accounted'
  BY <1>3, <1>4, <1>5 DEF a, Accounted, OwnsBox, OwnsName
<1>11. QED
  BY <1>6, <1>7, <1>8, <1>9, <1>10

\* MPI deallocates a request whose box is gone.
LEMMA DeallocateStep ==
  ASSUME IInv, NEW r \in Requests, Deallocate(r) PROVE IInv'
<1> USE CallbackBoxAssumption DEF IInv
<1>1. /\ r \in Owners /\ r \notin Reps /\ ~Holds(r)
      /\ mpi' \in [Owners -> Object \union {NULL}] /\ mpi'[r] = NULL
      /\ \A p \in Owners \ {r} : mpi'[p] = mpi[p]
      /\ UNCHANGED <<heap, fault, pc, args, box, c_name, lost, aborted>>
  BY DEF Deallocate, Owners, Holds, TypeOK, Others, locals
<1>2. \A p \in Owners : Holds(p)' <=> Holds(p)
  BY <1>1 DEF Holds, Exists
<1>3. TypeOK' /\ ~fault'
  BY <1>1 DEF TypeOK
<1>4. Wrappers'
  <2>1. \A t \in Threads : pc[t] = "rep_free_name" =>
          \E d \in Reps : Exists(d)' /\ mpi'[d].box = box[t]
    BY <1>1 DEF Wrappers, Exists, Owners
  <2>2. QED
    BY <1>1, <2>1 DEF Wrappers, OwnsBox, OwnsName, Exists
<1>5. Contents'
  <2>1. \A p \in Owners : Holds(p)' => mpi'[p] = mpi[p]
    BY <1>1, <1>2
  <2>2. QED
    BY <1>1, <1>2, <2>1 DEF Contents, Exists, Owners
<1>6. Apart'
  BY <1>1, <1>2 DEF Apart, OwnsBox, OwnsName
<1>7. Accounted'
  BY <1>1, <1>2 DEF Accounted, OwnsBox, OwnsName
<1>8. QED
  BY <1>3, <1>4, <1>5, <1>6, <1>7

\* Every step preserves the inductive invariant.
LEMMA StepPreserves == IInv /\ [Next]_vars => IInv'
<1> SUFFICES ASSUME IInv, [Next]_vars PROVE IInv'
  OBVIOUS
<1>1. ASSUME NEW r \in Requests, NEW v \in Values,
             Query(r, v) \/ Cancel(r, v) \/ FreeCall(r, v)
      PROVE  IInv'
  <2>1. r \in Owners
    BY DEF Owners
  <2>2. QED
    BY <1>1, <2>1, CallbackSteps
<1>2. ASSUME NEW d \in Reps, NEW role \in DatarepRoles, NEW v \in Values,
             Convert(d, role, v)
      PROVE  IInv'
  <2>1. d \in Owners
    BY DEF Owners
  <2>2. QED
    BY <1>2, <2>1, CallbackSteps
<1>3. ASSUME NEW t \in Threads, ThreadStep(t) PROVE IInv'
  <2>1. ASSUME NEW r \in Requests, StartSucceeds(t, r) PROVE IInv'
    BY <2>1, HandOverSteps DEF Owners
  <2>2. ASSUME NEW d \in Reps, RegisterSucceeds(t, d) PROVE IInv'
    BY <2>2, HandOverSteps DEF Owners
  <2>3. QED
    BY <1>3, <2>1, <2>2, EarlySteps, ReserveBoxStep, FreeingSteps DEF ThreadStep
<1>4. CASE UNCHANGED vars
  BY <1>4 DEF vars, locals, IInv, TypeOK, Wrappers, Contents, Apart, Accounted, OwnsBox,
     OwnsName, Holds, Exists
<1>5. QED
  BY <1>1, <1>2, <1>3, <1>4, CompleteStep, FreeBoxStep, DeallocateStep DEF Next, MpiStep

\* The inductive invariant holds throughout.
LEMMA Invariance == Spec => []IInv
BY InitEstablishes, StepPreserves, PTL DEF Spec

-----------------------------------------------------------------------------
(* The theorems                                                            *)

\* For any number of threads, requests, datareps and addresses: nobody uses or
\* frees a block that is not allocated, and a box MPI may still use holds what
\* its own callbacks left in it, however addresses are reused.
THEOREM MemoryIsSafe == Spec => []MemorySafe
<1>1. IInv => MemorySafe
  <2> SUFFICES ASSUME IInv PROVE BoxesIntact
    BY DEF IInv, MemorySafe
  <2>1. ASSUME NEW o \in Owners, Callable(o)
        PROVE  heap[mpi[o].box] = [fns |-> mpi[o].asked.fns, extra |-> mpi[o].extra]
    <3>1. Holds(o)
      BY <2>1 DEF Callable, Holds
    <3>2. /\ heap[mpi[o].box] \in Boxes
          /\ heap[mpi[o].box].fns = mpi[o].asked.fns
          /\ heap[mpi[o].box].extra = mpi[o].extra
      BY <3>1 DEF IInv, Contents
    <3>3. QED
      BY <3>2 DEF Boxes
  <2>2. ASSUME NEW o \in Owners, Callable(o), NEW p \in Owners \ {o}, Callable(p)
        PROVE  mpi[p].box # mpi[o].box
    BY <2>2 DEF Callable, IInv, Apart, Holds
  <2>3. QED
    BY <2>1, <2>2 DEF BoxesIntact
<1>2. QED
  BY <1>1, Invariance, PTL

\* Every allocated block has an owner and every owner its block: nothing but the
\* name of a datarep whose box could not be allocated is ever lost.
THEOREM NoBlockIsLost == Spec => []NoBlockLost
<1>1. IInv => NoBlockLost
  <2> SUFFICES ASSUME IInv, NEW a
               PROVE  /\ a \in Addrs
                      /\ heap[a] # FREE
                      <=>
                      \/ \E o \in Owners : Holds(o) /\ a = mpi[o].box
                      \/ \E t \in Threads : a = box[t] /\ a # NULL
                      \/ \E t \in Threads : a = c_name[t] /\ a # NULL
                      \/ a \in lost
    BY DEF NoBlockLost, Holds
  <2> USE CallbackBoxAssumption DEF IInv
  <2>1. ASSUME NEW o \in Owners, Holds(o) PROVE mpi[o].box \in Addrs /\ heap[mpi[o].box] # FREE
    BY <2>1 DEF TypeOK, Contents, Holds, Exists, Object
  <2>2. ASSUME NEW t \in Threads, box[t] # NULL PROVE box[t] \in Addrs /\ heap[box[t]] # FREE
    <3>1. CASE OwnsBox(t)
      BY <2>2, <3>1 DEF TypeOK, Wrappers
    <3>2. CASE pc[t] = "rep_free_name"
      <4>1. PICK d \in Reps : Exists(d) /\ mpi[d].box = box[t]
        BY <3>2 DEF Wrappers
      <4>2. d \in Owners /\ Holds(d)
        BY <4>1 DEF Owners, Holds, Contents
      <4>3. QED
        BY <2>1, <4>1, <4>2
    <3>3. QED
      BY <2>2, <3>1, <3>2 DEF Wrappers
  <2>3. ASSUME NEW t \in Threads, c_name[t] # NULL
        PROVE  c_name[t] \in Addrs /\ heap[c_name[t]] # FREE
    BY <2>3 DEF TypeOK, Wrappers
  <2>4. ASSUME a \in lost PROVE a \in Addrs /\ heap[a] # FREE
    BY <2>4 DEF TypeOK, Contents
  <2>5. ASSUME a \in Addrs, heap[a] # FREE
        PROVE  \/ \E o \in Owners : Holds(o) /\ a = mpi[o].box
               \/ \E t \in Threads : a = box[t] /\ a # NULL
               \/ \E t \in Threads : a = c_name[t] /\ a # NULL
               \/ a \in lost
    BY <2>5 DEF Accounted
  <2>6. QED
    BY <2>1, <2>2, <2>3, <2>4, <2>5
<1>2. QED
  BY <1>1, Invariance, PTL

-----------------------------------------------------------------------------
(* The refinement                                                          *)

\* What the program registered: the procedure and interface of a role of object
\* o, while MPI may call it.
Given(objects, o, role) ==
  IF /\ objects[o] # NULL
     /\ objects[o].phase \in {"active", "complete"}
     /\ objects[o].asked.fns[role] # Predefined
  THEN <<objects[o].asked.fns[role], Declared(objects[o].asked, role)>> ELSE NULL

\* A registration is one of the dispatch, whatever objects MPI holds.
LEMMA GivenType ==
  ASSUME NEW objects, NEW o, NEW role,
         \/ /\ role \in GrequestRoles
            /\ objects[o] # NULL => objects[o].asked \in GrequestArgs
         \/ /\ role \in DatarepRoles
            /\ objects[o] # NULL => objects[o].asked \in DatarepArgs
  PROVE  Given(objects, o, role) \in (Procs \X Interfaces) \union {NULL}
<1>0. Declared(objects[o].asked, role) \in Interfaces
  BY DEF Declared, Interfaces
<1>1. CASE /\ role \in GrequestRoles
           /\ objects[o] # NULL => objects[o].asked \in GrequestArgs
  BY <1>0, <1>1, CallbackBoxAssumption DEF Given, GrequestArgs
<1>2. CASE /\ role \in DatarepRoles
           /\ objects[o] # NULL => objects[o].asked \in DatarepArgs
  BY <1>0, <1>2, CallbackBoxAssumption DEF Given, DatarepArgs
<1>3. QED
  BY <1>1, <1>2

\* An object's step leaves what the program registered for it, or gives it up.
LEMMA GivenKept ==
  ASSUME NEW before, NEW after, NEW o, NEW role,
         \/ after[o] = before[o]
         \/ after[o] = NULL
         \/ after[o].phase \notin {"active", "complete"}
         \/ /\ before[o] # NULL /\ before[o].phase \in {"active", "complete"}
            /\ after[o] # NULL /\ after[o].asked = before[o].asked
  PROVE  Given(after, o, role) \in {Given(before, o, role), NULL}
BY DEF Given

\* The boxes implement CallbackDispatch: from the start of a request to the call
\* of its free_fn, and from the registration of a datarep on, each trampoline
\* MPI holds reaches the procedure the program passed in that role, and calls it
\* as the standard declares it for the routine it was passed to.
THEOREM BoxesImplementDispatch == Spec => Refinement
<1> DEFINE bar == [h \in Callbacks |->
                    IF Callable(h[1]) /\ mpi[h[1]].asked.fns[h[2]] # Predefined
                    THEN <<mpi[h[1]].asked.fns[h[2]], Declared(mpi[h[1]].asked, h[2])>>
                    ELSE NULL]
<1> USE CallbackBoxAssumption, NullIsNoObject
<1>1. Init => Dispatch!Init
  BY DEF Init, Dispatch!Init, Callable, Exists, Callbacks, Owners
<1>2. ASSUME IInv, IInv', [Next]_vars
      PROVE  Dispatch!Next \/ (bar' = bar /\ called' = called)
  <2>t. TypeOK /\ TypeOK'
    BY <1>2 DEF IInv
  <2>b. /\ bar = [h \in Callbacks |-> Given(mpi, h[1], h[2])]
        /\ bar' = [h \in Callbacks |-> Given(mpi', h[1], h[2])]
    BY DEF Given, Callable, Exists
  <2> HIDE DEF bar
  <2>h. \A h \in Callbacks : /\ h = <<h[1], h[2]>> /\ h[1] \in Owners
                             /\ \/ h[1] \in Requests /\ h[2] \in GrequestRoles
                                \/ h[1] \in Reps /\ h[2] \in DatarepRoles
    BY DEF Callbacks, Owners
  <2>0. /\ bar \in [Callbacks -> Dispatch!Registrations]
        /\ bar' \in [Callbacks -> Dispatch!Registrations]
    <3>1. \A h \in Callbacks : Given(mpi, h[1], h[2]) \in Dispatch!Registrations
      BY <1>2, <2>h, GivenType DEF IInv, Contents, Exists, Dispatch!Registrations
    <3>2. \A h \in Callbacks : Given(mpi', h[1], h[2]) \in Dispatch!Registrations
      BY <1>2, <2>h, GivenType DEF IInv, Contents, Exists, Dispatch!Registrations
    <3>3. QED
      BY <2>b, <3>1, <3>2
  <2>1. ASSUME UNCHANGED <<mpi, called>>
        PROVE  bar' = bar /\ called' = called
    BY <2>1, <2>b
  <2>2. ASSUME NEW o \in Owners, mpi[o] = NULL, UNCHANGED called,
               \A p \in Owners \ {o} : mpi'[p] = mpi[p]
        PROVE  Dispatch!Next
    <3>1. \A h \in Callbacks : bar[h] # NULL => bar'[h] = bar[h]
      BY <2>b, <2>h, <2>2 DEF Given
    <3>2. QED
      BY <2>0, <2>2, <3>1 DEF bar, Dispatch!Register, Dispatch!Next
  <2>3. ASSUME NEW o \in Owners, \A p \in Owners \ {o} : mpi'[p] = mpi[p],
               \/ mpi'[o] = NULL
               \/ mpi'[o].phase \notin {"active", "complete"}
               \/ /\ Callable(o)
                  /\ mpi'[o] # NULL /\ mpi'[o].asked = mpi[o].asked
        PROVE  \A h \in Callbacks : bar'[h] \in {bar[h], NULL}
    <3>1. \A p \in Owners : \A role : Given(mpi', p, role) \in {Given(mpi, p, role), NULL}
      BY <2>3, GivenKept DEF Callable, Exists
    <3>2. QED
      BY <2>b, <2>h, <3>1
  <2>4. ASSUME NEW r \in Requests, GrequestComplete(r) \/ FreeBox(r) \/ Deallocate(r)
        PROVE  Dispatch!Next
    <3>1. /\ r \in Owners /\ UNCHANGED called /\ mpi[r] \in Object
          /\ \A p \in Owners \ {r} : mpi'[p] = mpi[p]
      BY <2>t, <2>4 DEF GrequestComplete, FreeBox, Deallocate, Owners, TypeOK, Exists
    <3>2. \/ mpi'[r] = NULL
          \/ mpi'[r].phase = "released"
          \/ /\ Callable(r) /\ mpi'[r] # NULL /\ mpi'[r].asked = mpi[r].asked
      BY <2>t, <2>4, <3>1 DEF GrequestComplete, FreeBox, Deallocate, Callable, TypeOK, Object
    <3>3. \A h \in Callbacks : bar'[h] \in {bar[h], NULL}
      BY <2>3, <3>1, <3>2
    <3>4. QED
      BY <2>0, <3>1, <3>3 DEF bar, Dispatch!GiveUp, Dispatch!Next
  <2>5. ASSUME NEW o \in Owners, NEW role, NEW v \in Values,
               \/ o \in Requests /\ role = "query" /\ Query(o, v)
               \/ o \in Requests /\ role = "cancel" /\ Cancel(o, v)
               \/ o \in Requests /\ role = "free" /\ FreeCall(o, v)
               \/ o \in Reps /\ role \in DatarepRoles /\ Convert(o, role, v)
        PROVE  Dispatch!Next
    <3>1. Holds(o) /\ Trampoline(o, role, v)
      BY <1>2, <2>5, CallbackSteps
    <3>2. called' = <<<<o, role>>, <<mpi[o].asked.fns[mpi[o].fns[role].fn],
                                      mpi[o].fns[role].as>>>>
      BY <1>2, <3>1, TrampolineRuns
    <3>3. Callable(o) /\ mpi[o] \in Object
      BY <1>2, <2>t, <2>5 DEF Query, Cancel, FreeCall, Convert, Callable, Exists, IInv,
         Contents, TypeOK
    <3>4. <<o, role>> \in Callbacks
      BY <2>5 DEF Callbacks, GrequestRoles
    <3>c. /\ mpi[o].fns = c_fns(mpi[o].asked)
          /\ mpi[o].asked \in GrequestArgs \union DatarepArgs
      BY <1>2, <3>3 DEF IInv, Contents, Callable, Object
    <3>5. /\ mpi[o].asked.fns[role] \in Procs
          /\ role \in DOMAIN mpi[o].asked.fns
      <4>1. CASE o \in Requests /\ role \in GrequestRoles
        <5>1. mpi[o].asked \in GrequestArgs
          BY <1>2, <3>3, <4>1 DEF IInv, Contents, Callable
        <5>2. QED
          BY <4>1, <5>1 DEF GrequestArgs
      <4>2. CASE o \in Reps /\ role \in DatarepRoles /\ Convert(o, role, v)
        <5>1. mpi[o].asked \in DatarepArgs /\ mpi[o].fns[role] # Predefined
          BY <1>2, <3>3, <4>2 DEF IInv, Contents, Callable, Convert
        <5>2. mpi[o].asked.fns \in [DatarepRoles -> Procs \union {Predefined}]
          BY <5>1 DEF DatarepArgs
        <5>3. mpi[o].asked.fns[role] # Predefined
          BY <3>c, <4>2, <5>1, <5>2, TrampolinesGiven
        <5>4. QED
          BY <4>2, <5>2, <5>3
      <4>3. QED
        BY <2>5, <4>1, <4>2 DEF GrequestRoles
    <3>e. mpi[o].fns[role] = [fn |-> role, as |-> Declared(mpi[o].asked, role)]
      BY <3>c, <3>5, TrampolinesGiven, CallbackBoxAssumption
    <3>d. /\ mpi[o].fns[role].fn = role
          /\ mpi[o].fns[role].as = Declared(mpi[o].asked, role)
      BY <3>e
    <3>6. /\ bar[<<o, role>>] = <<mpi[o].asked.fns[role], Declared(mpi[o].asked, role)>>
          /\ called' = <<<<o, role>>, bar[<<o, role>>]>>
          /\ Declared(mpi[o].asked, role) \in Interfaces
      BY <2>b, <3>2, <3>3, <3>4, <3>5, <3>d DEF Given, Callable, Exists, Declared, Interfaces
    <3>7. bar[<<o, role>>] # NULL
      BY <3>5, <3>6
    <3>8. /\ \A p \in Owners \ {o} : mpi'[p] = mpi[p]
          /\ mpi'[o] # NULL /\ mpi'[o].asked = mpi[o].asked
      BY <2>t, <2>5, <3>3 DEF Query, Cancel, FreeCall, Convert, TypeOK, Object
    <3>9. \A h \in Callbacks : bar'[h] \in {bar[h], NULL}
      BY <2>3, <3>3, <3>8
    <3>10. Dispatch!Call(<<o, role>>)
      BY <2>0, <3>6, <3>7, <3>9 DEF bar, Dispatch!Call, Dispatch!GiveUp
    <3>11. QED
      BY <3>4, <3>10 DEF Dispatch!Next
  <2>6. ASSUME NEW t \in Threads, ThreadStep(t)
        PROVE  Dispatch!Next \/ (bar' = bar /\ called' = called)
    <3>1. ASSUME NEW o \in Owners, StartSucceeds(t, o) \/ RegisterSucceeds(t, o)
          PROVE  Dispatch!Next
      <4>1. /\ mpi[o] = NULL /\ UNCHANGED called
            /\ \A p \in Owners \ {o} : mpi'[p] = mpi[p]
        BY <2>t, <3>1 DEF StartSucceeds, RegisterSucceeds, Exists, TypeOK
      <4>2. QED
        BY <2>2, <4>1
    <3>2. CASE UNCHANGED <<mpi, called>>
      BY <2>1, <3>2
    <3>3. \/ UNCHANGED <<mpi, called>>
          \/ \E o \in Owners : StartSucceeds(t, o) \/ RegisterSucceeds(t, o)
      BY <2>6 DEF ThreadStep, GrequestStart, RegisterDatarep, ReserveBox, Strdup,
         ReserveFails, StrdupAborts, StartFails, FreeName, RegisterFails, Owners
    <3>4. QED
      BY <3>1, <3>2, <3>3
  <2>7. ASSUME MpiStep PROVE Dispatch!Next
    <3>1. ASSUME NEW r \in Requests, NEW v \in Values,
                 Query(r, v) \/ Cancel(r, v) \/ FreeCall(r, v)
          PROVE  Dispatch!Next
      <4>1. r \in Owners
        BY DEF Owners
      <4>2. QED
        BY <2>5, <3>1, <4>1
    <3>2. ASSUME NEW d \in Reps, NEW role \in DatarepRoles, NEW v \in Values,
                 Convert(d, role, v)
          PROVE  Dispatch!Next
      <4>1. d \in Owners
        BY DEF Owners
      <4>2. QED
        BY <2>5, <3>2, <4>1
    <3>3. QED
      BY <2>4, <2>7, <3>1, <3>2 DEF MpiStep
  <2>8. CASE UNCHANGED vars
    BY <2>1, <2>8 DEF vars
  <2>9. QED
    BY <1>2, <2>6, <2>7, <2>8 DEF Next
<1>3. IInv /\ IInv' /\ [Next]_vars => [Dispatch!Next]_(Dispatch!vars)
  BY <1>2 DEF Dispatch!vars
<1>4. QED
  BY <1>1, <1>3, Invariance, PTL DEF Spec, Refinement, Dispatch!Spec
=============================================================================

---------------------------- MODULE CdescEntry ------------------------------
(***************************************************************************)
(* One call of a cdesc entry point (gen/mpif_f08_cdesc.c), from the        *)
(* Fortran wrapper's bind(C) call to the return.  What a routine does with *)
(* its arguments is its row of CdescRoutines; this module gives the rows   *)
(* their meaning, statement by statement.  The descriptor walk itself is   *)
(* CdescWalker; here it succeeds, with a datatype of the entry's own, or   *)
(* fails.                                                                  *)
(***************************************************************************)
EXTENDS CdescRoutines, CommLookup, Sequences

CONSTANT Routines    \* the routines called: rows of CdescRoutines

ASSUME RoutinesAssumption == Routines \subseteq CdescRoutines

VARIABLES
  routine,     \* the routine called
  call,        \* its arguments and the communicator they name
  pc,          \* the entry's progress
  i,           \* the buffer whose layout is tested next
  q_at_root,   \* the entry's opinion of whether this process is the root
  q_len,       \* per buffer: the length of its datatype array
  q_type,      \* per buffer: the datatype the entry holds for it
  read,        \* per buffer: the elements read of the program's type array
  owned,       \* the buffers whose q_type the entry must free
  types,       \* the datatypes that exist: the program's and the walked ones
  string,      \* the C copy of the string argument
  q_cdesc_err, \* MPI_SUCCESS or why the entry refuses the call
  fault,       \* whether an MPI function the entry called has failed
  given,       \* per buffer: the datatype MPI was called with, or <<>>
  ierror,      \* the program's ierror
  outs,        \* the program's output handles
  mpi          \* the objects behind those handles, as MPI knows them

input == <<routine, call>>
locals == <<i, q_at_root, q_len, q_type, read, owned, string, q_cdesc_err>>
vars == <<input, pc, locals, types, fault, given, ierror, outs, mpi>>

-----------------------------------------------------------------------------
(* The arguments *)

\* What a choice buffer's descriptor says: a sentinel's address, rank 0, or
\* an array that is contiguous or is not.
Layouts == {"in_place", "bottom", "scalar", "contiguous", "strided"}

Rooted(r) == \E b \in DOMAIN r.bufs : r.bufs[b].test_at_root

\* The question the entry asks about the communicator.
Lookup(r) == IF Rooted(r) THEN "root" ELSE r.arrays

Calls(r) == [layout : [DOMAIN r.bufs -> Layouts], comm : Comms(Lookup(r))]

PerBuffer(x) == [b \in DOMAIN routine.bufs |-> x]

\* The program's datatypes are distinct from the walked ones.
UserType(b) == [of |-> "program", buf |-> b]
WalkedType(b) == [of |-> "walk", buf |-> b]
NullType == [of |-> "null", buf |-> 0]

Init ==
  /\ routine \in Routines
  /\ call \in Calls(routine)
  /\ pc = "lookup"
  /\ i = 1
  /\ q_at_root = FALSE
  /\ q_len = PerBuffer(0)
  /\ q_type = PerBuffer(NullType)
  /\ read = PerBuffer(0)
  /\ owned = {}
  /\ types = {UserType(b) : b \in DOMAIN routine.bufs}
  /\ string = "none"
  /\ q_cdesc_err = "MPI_SUCCESS"
  /\ fault = FALSE
  /\ given = <<>>
  /\ ierror = "unset"
  /\ outs = [o \in routine.outs |-> IF o = "message" THEN "live" ELSE "unset"]
  /\ mpi = [o \in routine.outs |-> IF o = "message" THEN "live" ELSE "none"]

-----------------------------------------------------------------------------
(* Questions about the communicator *)

LookUpRoot ==
  /\ pc = "lookup"
  /\ Rooted(routine)
  /\ q_at_root' = AtRootTest(call.comm)
  /\ pc' = "convert"
  /\ UNCHANGED <<input, i, q_len, q_type, read, owned, string, q_cdesc_err,
                 types, fault, given, ierror, outs, mpi>>

LookUpLengths ==
  /\ pc = "lookup"
  /\ routine.arrays # "none"
  /\ q_len' = ArrayLengths(routine.arrays, call.comm)
  /\ pc' = "convert"
  /\ UNCHANGED <<input, i, q_at_root, q_type, read, owned, string,
                 q_cdesc_err, types, fault, given, ierror, outs, mpi>>

\* One of the questions fails: its code goes to ierror and nothing else
\* happens.
LookUpFails ==
  /\ pc = "lookup"
  /\ Rooted(routine) \/ routine.arrays # "none"
  /\ fault' = TRUE
  /\ ierror' = "MPI_ERR_COMM"
  /\ pc' = "returned"
  /\ UNCHANGED <<input, locals, types, given, outs, mpi>>

AsksNothing ==
  /\ pc = "lookup"
  /\ ~Rooted(routine) /\ routine.arrays = "none"
  /\ pc' = "convert"
  /\ UNCHANGED <<input, locals, types, fault, given, ierror, outs, mpi>>

-----------------------------------------------------------------------------
(* Conversion of the arguments *)

\* The datatype of buffer b is read where the routine's row says so.
ConvertType(b) ==
  IF routine.bufs[b].type_at_root /\ ~q_at_root THEN NullType ELSE UserType(b)

\* The elements read of buffer b's array of datatypes: with MPI_IN_PLACE the
\* send side's is filled with MPI_DATATYPE_NULL instead.
ReadTypes(b) ==
  IF b = 1 /\ call.layout[1] = "in_place" THEN 0 ELSE q_len[b]

\* The string is copied, the datatypes and arrays of them are converted.
Convert ==
  /\ pc = "convert"
  /\ string' = IF routine.string THEN "held" ELSE "none"
  /\ q_type' = [b \in DOMAIN routine.bufs |-> ConvertType(b)]
  /\ read' = [b \in DOMAIN routine.bufs |-> ReadTypes(b)]
  /\ pc' = "test"
  /\ UNCHANGED <<input, i, q_at_root, q_len, owned, q_cdesc_err, types, fault,
                 given, ierror, outs, mpi>>

-----------------------------------------------------------------------------
(* The layouts, buffer by buffer *)

\* mpif_cdesc_is_sentinel, rank and CFI_is_contiguous.
NotContiguous(b) == call.layout[b] = "strided"

Guarded(b) == routine.bufs[b].test_at_root => q_at_root

\* The walk of a buffer is tried while nothing has failed.
WalksAtRoot(b) ==    \* mutant: a rooted call's buffers are walked there only
  /\ routine.bufs[b].class = "walk"
  /\ q_cdesc_err = "MPI_SUCCESS"
  /\ Rooted(routine) => q_at_root
  /\ NotContiguous(b)
Walks(b) ==
  /\ routine.bufs[b].class = "walk"
  /\ q_cdesc_err = "MPI_SUCCESS"
  /\ Guarded(b)
  /\ NotContiguous(b)

\* The test of a contig buffer, made whatever happened before.
RefusesAnywhere(b) ==    \* mutant: the test is not guarded by q_at_root
  routine.bufs[b].class = "contig" /\ NotContiguous(b)
Refuses(b) ==
  /\ routine.bufs[b].class = "contig"
  /\ Guarded(b)
  /\ NotContiguous(b)

Testing == pc = "test" /\ i \in DOMAIN routine.bufs

\* mpif_cdesc_create_datatype returns a committed datatype: the call gets
\* one of it.
WalkBuffer ==
  /\ Testing
  /\ Walks(i)
  /\ q_type[i] # NullType
  /\ q_type' = [q_type EXCEPT ![i] = WalkedType(i)]
  /\ owned' = owned \cup {i}
  /\ types' = types \cup {WalkedType(i)}
  /\ i' = i + 1
  /\ UNCHANGED <<input, pc, q_at_root, q_len, read, string, q_cdesc_err,
                 fault, given, ierror, outs, mpi>>

\* It fails, as it must on MPI_DATATYPE_NULL.
WalkFails ==
  /\ Testing
  /\ Walks(i)
  /\ q_cdesc_err' = IF q_type[i] = NullType THEN "MPI_ERR_TYPE"
                                            ELSE "MPI_ERR_OTHER"
  /\ fault' = (fault \/ q_type[i] # NullType)
  /\ i' = i + 1
  /\ UNCHANGED <<input, pc, q_at_root, q_len, q_type, read, owned, string,
                 types, given, ierror, outs, mpi>>

RefuseBuffer ==
  /\ Testing
  /\ Refuses(i)
  /\ q_cdesc_err' = "MPI_ERR_BUFFER"
  /\ i' = i + 1
  /\ UNCHANGED <<input, pc, q_at_root, q_len, q_type, read, owned, string,
                 types, fault, given, ierror, outs, mpi>>

\* The buffer's address, count and datatype go on untouched.
PassBuffer ==
  /\ Testing
  /\ ~Walks(i) /\ ~Refuses(i)
  /\ i' = i + 1
  /\ UNCHANGED <<input, pc, q_at_root, q_len, q_type, read, owned, string,
                 q_cdesc_err, types, fault, given, ierror, outs, mpi>>

-----------------------------------------------------------------------------
(* The call and the returns *)

Tested == pc = "test" /\ i > Len(routine.bufs)

\* PMPI_Type_free on the datatype of every buffer that owns one, and free()
\* on the copied string.
FreeTemporaries ==
  /\ types' = types \ {q_type[b] : b \in owned}
  /\ owned' = {}
  /\ string' = IF string = "held" THEN "freed" ELSE string

\* The entry gives up before the call: the output arguments stay as they are.
GiveUpLeaks ==    \* mutant: the error return frees nothing
  /\ Tested
  /\ q_cdesc_err # "MPI_SUCCESS"
  /\ ierror' = q_cdesc_err
  /\ pc' = "returned"
  /\ UNCHANGED <<input, locals, types, fault, given, outs, mpi>>
GiveUp ==
  /\ Tested
  /\ q_cdesc_err # "MPI_SUCCESS"
  /\ FreeTemporaries
  /\ ierror' = q_cdesc_err
  /\ pc' = "returned"
  /\ UNCHANGED <<input, i, q_at_root, q_len, q_type, read, q_cdesc_err, fault,
                 given, outs, mpi>>

\* The output arguments after MPI left its objects as m: c_request and c_win
\* start as the null handles, c_message as the program's.
WriteNewOutputs(m) ==    \* mutant: the message is not written back
  outs' = [o \in routine.outs |->
             IF o = "message" THEN outs[o]
             ELSE IF m[o] = "live" THEN "live" ELSE "null"]
WriteOutputs(m) ==
  outs' = [o \in routine.outs |-> IF m[o] = "live" THEN "live" ELSE "null"]

\* MPI performs the call: it makes the request or window and takes the
\* message.
Accepted ==
  [o \in routine.outs |-> IF o = "message" THEN "none" ELSE "live"]

CallMPI ==
  /\ Tested
  /\ q_cdesc_err = "MPI_SUCCESS"
  /\ given' = q_type
  /\ \/ /\ mpi' = Accepted
        /\ ierror' = "MPI_SUCCESS"
        /\ fault' = fault
     \/ /\ mpi' = mpi
        /\ ierror' = "MPI_ERR_OTHER"
        /\ fault' = TRUE
  /\ WriteOutputs(mpi')
  /\ FreeTemporaries
  /\ pc' = "returned"
  /\ UNCHANGED <<input, i, q_at_root, q_len, q_type, read, q_cdesc_err>>

Returned == pc = "returned" /\ UNCHANGED vars

Next ==
  \/ LookUpRoot \/ LookUpLengths \/ LookUpFails \/ AsksNothing
  \/ Convert
  \/ WalkBuffer \/ WalkFails \/ RefuseBuffer \/ PassBuffer
  \/ GiveUp \/ CallMPI
  \/ Returned

Spec == Init /\ [][Next]_vars

-----------------------------------------------------------------------------
(* What the MPI standard says of the arguments *)

\* The datatype of buffer b may be given here: it is not marked significant
\* only at a root that is another process.
SignificantType(b) ==
  TypeAtRootOnly(routine.name, b) => IsRoot(call.comm)

\* Buffer b takes part in this call: one that is marked, at the root; any
\* other except in the root's group of an intercommunicator.
Significant(b) ==
  IF BufferAtRootOnly(routine.name, b)
  THEN IsRoot(call.comm)
  ELSE ~(Rooted(routine) /\ InRootGroup(call.comm))

\* The elements the program supplies of buffer b's array of datatypes: none
\* for a send side that is in place.
Supplied(b) ==
  IF b = 1 /\ call.layout[1] = "in_place" THEN 0
  ELSE SuppliedTypes(routine.arrays, call.comm, b)

-----------------------------------------------------------------------------
(* Properties *)

\* The state variables keep their types.
TypeOK ==
  /\ routine \in Routines
  /\ call \in Calls(routine)
  /\ pc \in {"lookup", "convert", "test", "returned"}
  /\ i \in 1 .. Len(routine.bufs) + 1
  /\ q_at_root \in BOOLEAN /\ fault \in BOOLEAN
  /\ \A b \in DOMAIN routine.bufs :
       /\ q_len[b] \in Nat /\ read[b] \in Nat
       /\ q_type[b] \in {NullType, UserType(b), WalkedType(b)}
  /\ owned \subseteq DOMAIN routine.bufs
  /\ types \subseteq {UserType(b) : b \in DOMAIN routine.bufs}
                       \cup {WalkedType(b) : b \in DOMAIN routine.bufs}
  /\ string \in {"none", "held", "freed"}
  /\ given = <<>> \/ DOMAIN given = DOMAIN routine.bufs
  /\ DOMAIN outs = routine.outs /\ DOMAIN mpi = routine.outs

\* When MPI is called, every buffer that is significant on this process is
\* described to it: an array section by a datatype walked from its
\* descriptor, anything else by the program's own count and datatype (CODE.md
\* "The cdesc layer").  An undescribed section would be sent or filled as if
\* it were contiguous.
SectionDescribed ==
  given # <<>> =>
    \A b \in DOMAIN routine.bufs :
      Significant(b) /\ routine.bufs[b].class # "addr" =>
        given[b] = IF call.layout[b] = "strided" THEN WalkedType(b)
                                                 ELSE UserType(b)

\* What is read of the datatypes is what the program supplies: one that is
\* significant at the root only is read there only, and of an array of them
\* as many as MPI defines are read, no more and, once MPI is called, no
\* fewer, whichever group or topology that is the size of.
ReadsWhatIsSupplied ==
  \A b \in DOMAIN routine.bufs :
    /\ read[b] <= Supplied(b)
    /\ given # <<>> => read[b] = Supplied(b)
    /\ q_type[b] # NullType => SignificantType(b)

\* The send buffer of a reduction, on a process of the root's group of an
\* intercommunicator: nothing is sent from there, and the code tests it.
UnsentReduction(b) ==
  b = 1 /\ routine.name \in ReduceNames /\ InRootGroup(call.comm)

\* A call fails because an MPI function failed on valid arguments, or
\* because a buffer that takes part in it here is an array section the
\* routine cannot take.  The one buffer that takes no part and is refused
\* all the same is the send buffer of MPI_Reduce and its relatives in the
\* root's group of an intercommunicator: the test of sendbuf is not guarded.
RefusedForAReason ==
  pc = "returned" /\ ierror # "MPI_SUCCESS" =>
    \/ fault
    \/ \E b \in DOMAIN routine.bufs :
         /\ Significant(b) \/ UnsentReduction(b)
         /\ routine.bufs[b].class = "contig"
         /\ call.layout[b] = "strided"

\* The variables keep their types, and on every way out of the entry the
\* datatypes that exist are those that existed before the call: walked ones
\* are freed, also when a later buffer's test fails, and the program's never
\* are; and no string copy is left behind.
TypesBalanced ==
  LET Program == {UserType(b) : b \in DOMAIN routine.bufs}
  IN  /\ TypeOK
      /\ Program \subseteq types
      /\ pc = "returned" => types = Program /\ string # "held"

\* A request or window MPI made is in the program's variable, a message MPI
\* took is not, and a message a refused receive did not take still is.
OutputsTruthful ==
  pc = "returned" =>
    \A o \in routine.outs : outs[o] = "live" <=> mpi[o] = "live"
=============================================================================

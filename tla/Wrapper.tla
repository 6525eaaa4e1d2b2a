------------------------------ MODULE Wrapper -------------------------------
(***************************************************************************)
(* One call of a Fortran-callable entry point (gen/mpif_functions.c): the  *)
(* questions about the communicator, the conversion of the arguments, the  *)
(* MPI call, the conversion of the results.  Which arguments are converted *)
(* and how is the routine's row of TransferRoutines or ObjectRoutines;     *)
(* this module says what each crossing does.                               *)
(***************************************************************************)
EXTENDS TransferRoutines, ObjectRoutines, CommLookup, FortranStrings,
        FiniteSets, Functions

WrapperRoutines == TransferRoutines \cup ObjectRoutines

CONSTANTS
  Routines,     \* the routines called: some of WrapperRoutines
  MaxName,      \* the longest string MPI returns (it fixes MPI_MAX_...)
  MaxRequests,  \* the longest array of requests
  MaxWords,     \* the most words of an argument vector
  Strings,      \* the Fortran strings a program passes, one string per character
  Words         \* the words of its argument vectors

ASSUME RoutinesAssumption == Routines \subseteq WrapperRoutines
ASSUME SizesAssumption ==
  MaxName \in Nat /\ MaxRequests \in Nat /\ MaxWords \in Nat
ASSUME StringsAssumption == Strings \cup Words \subseteq Seq(STRING)

VARIABLES
  routine,     \* the routine called
  call,        \* the program's arguments and the communicator they name
  pc,          \* the entry's progress
  q_at_root,   \* the entry's opinion of whether this process is the root
  c,           \* per crossing: the value on the C side
  read,        \* per crossing: the elements read of an array of datatypes
  c_str,       \* the C copy of the string arguments
  c_argv,      \* per command: the argument vector on the C side
  copies,      \* the crossings that hold malloc'ed copies
  array,       \* the C array a string is returned in
  c_len,       \* the length handed to MPI with it
  stored,      \* the bytes MPI stored in it
  c_reqs,      \* the C array of requests
  reply,       \* what MPI answered
  ierror,      \* the program's ierror
  var,         \* per crossing: the program's variable
  text,        \* the program's string variable
  len,         \* the program's length variable
  reqs,        \* the program's array of requests
  outcount,    \* the program's count of completed requests
  indices      \* the program's index or array of indices

input == <<routine, call>>
c_side == <<q_at_root, c, read, c_str, c_argv, copies, array, c_len, stored,
            c_reqs>>
program == <<ierror, var, text, len, reqs, outcount, indices>>
vars == <<input, pc, c_side, reply, program>>

-----------------------------------------------------------------------------
(* Sentinels *)

\* The cells of include/mpif_sentinels.h an argument may be the address of.
BufferCells == {"mpif_bottom_", "mpif_in_place_", "mpif_buffer_automatic_"}
StatusCells == {"mpif_status_ignore_", "mpif_f08_status_ignore_",
                "mpif_statuses_ignore_", "mpif_f08_statuses_ignore_"}
WeightsCells == {"mpif_unweighted_", "mpif_weights_empty_"}
Cells == BufferCells \cup StatusCells \cup WeightsCells
           \cup {"mpif_errcodes_ignore_", "mpif_argv_null_", "mpif_argvs_null_"}

mpif_c_buffer(p) ==
  CASE p = "mpif_bottom_" -> "MPI_BOTTOM"
    [] p = "mpif_in_place_" -> "MPI_IN_PLACE"
    [] p = "mpif_buffer_automatic_" -> "MPI_BUFFER_AUTOMATIC"
    [] OTHER -> p

mpif_f_buffer_addr(p) ==
  IF p = "MPI_BUFFER_AUTOMATIC" THEN "mpif_buffer_automatic_" ELSE p

mpif_c_status_mpif_h(p) ==    \* mutant: the cells of mpi_f08 are forgotten
  CASE p = "mpif_status_ignore_" -> "MPI_STATUS_IGNORE"
    [] p = "mpif_statuses_ignore_" -> "MPI_STATUSES_IGNORE"
    [] OTHER -> p
mpif_c_status(p) ==
  CASE p \in {"mpif_status_ignore_", "mpif_f08_status_ignore_"} ->
         "MPI_STATUS_IGNORE"
    [] p \in {"mpif_statuses_ignore_", "mpif_f08_statuses_ignore_"} ->
         "MPI_STATUSES_IGNORE"
    [] OTHER -> p

mpif_c_weights(p) ==
  CASE p = "mpif_unweighted_" -> "MPI_UNWEIGHTED"
    [] p = "mpif_weights_empty_" -> "MPI_WEIGHTS_EMPTY"
    [] OTHER -> p

mpif_c_errcodes(p) ==
  IF p = "mpif_errcodes_ignore_" THEN "MPI_ERRCODES_IGNORE" ELSE p

\* mpif_logical2bool: anything but .FALSE. is true.
mpif_logical2bool(value) == IF value # ".FALSE." THEN "1" ELSE "0"

mpif_bool2logical(value) == IF value = "1" THEN ".TRUE." ELSE ".FALSE."

-----------------------------------------------------------------------------
(* The arguments *)

Uses(r, kinds) == \E k \in DOMAIN r.args : r.args[k].kind \in kinds

StringKinds == {"string", "trimmed"}
VectorKinds == {"argv", "argvs", "commands"}
TextKinds == {"text", "caller_text", "text_if_flag", "bounded",
              "bounded_if_flag"}
BoundedKinds == {"bounded", "bounded_if_flag"}
RequestKinds == {"requests", "requests_in"}

\* The routines some of whose arguments are significant only at the root.
RootOnlyNames ==
  GatherNames \cup ScatterNames
    \cup {"MPI_Comm_accept", "MPI_Comm_connect", "MPI_Comm_spawn",
          "MPI_Comm_spawn_multiple"}

\* Argument k of routine r means something on this process.
Significant(r, k, comm) ==
  (/\ r.name \in RootOnlyNames
   /\ r.args[k].kind \in {"handle"} \cup StringKinds \cup VectorKinds)
    => IsRoot(comm)

\* What the program passes for an argument: "data" stands for any address of
\* its own, "junk" for an argument it need not set, "old" for the value of a
\* variable the call is to define.
Inputs(r, k, comm) ==
  LET kind == r.args[k].kind IN
  IF ~Significant(r, k, comm) THEN {"junk"}
  ELSE CASE kind = "buffer" -> {"data"} \cup BufferCells
         [] kind = "status" -> {"data"} \cup StatusCells
         [] kind = "weights" -> {"data"} \cup WeightsCells
         [] kind = "errcodes" -> {"data", "mpif_errcodes_ignore_"}
         [] kind = "argv" -> {"data", "mpif_argv_null_"}
         [] kind = "argvs" -> {"data", "mpif_argvs_null_"}
         [] kind = "logical" -> {".TRUE.", ".FALSE.", "odd"}
         [] kind = "inout" -> {"live"}
         [] kind \in {"handle", "send_types", "recv_types", "commands"}
                     \cup StringKinds -> {"data"}
         [] OTHER -> {"old"}

Arguments(r, comm) ==
  {f \in [DOMAIN r.args -> UNION {Inputs(r, k, comm) : k \in DOMAIN r.args}] :
     \A k \in DOMAIN r.args : f[k] \in Inputs(r, k, comm)}

\* The words of argument vectors, row by row: the last column is blank.
Matrices(rows) ==
  {m \in [0 .. rows - 1 -> [0 .. MaxWords -> Words]] :
     \A i \in 0 .. rows - 1 : Blanks(m[i][MaxWords])}

Rows(r) == IF Uses(r, {"argvs"}) THEN 2 ELSE 1

\* The length of the variable a string is returned in: MPI's maximum where
\* the binding fixes it, any other the program declares.  MPI_Info_get's
\* binding declares CHARACTER*(valuelen), so there it is that argument.
Lengths(r) == IF Uses(r, {"text"}) THEN {MaxName} ELSE 0 .. MaxName + 1

Calls(r) ==
  UNION {[comm : {comm}, arg : Arguments(r, comm),
          str : IF Uses(r, StringKinds) THEN Strings ELSE {<<>>},
          argv : IF Uses(r, {"argv", "argvs"}) THEN Matrices(Rows(r))
                                               ELSE {<<>>},
          text_len : IF Uses(r, TextKinds) THEN Lengths(r) ELSE {0},
          len : IF Uses(r, BoundedKinds) THEN 0 .. MaxName + 1 ELSE {0},
          reqs : IF Uses(r, RequestKinds)
                   THEN UNION {[1 .. n -> {"live", "null"}] :
                                 n \in 0 .. MaxRequests}
                   ELSE {<<>>}] :
         comm \in Comms(r.lookup)}

\* A count or an index before the call may be anything, beyond the array too.
OldIndex == 7
NoReply == [outcome |-> "none"]
PerCrossing(x) == [k \in DOMAIN routine.args |-> x]

Init ==
  /\ routine \in Routines
  /\ call \in Calls(routine)
  /\ pc = "lookup"
  /\ q_at_root = FALSE
  /\ c = PerCrossing("unset")
  /\ read = PerCrossing(0)
  /\ c_str = <<>> /\ c_argv = <<>> /\ copies = {}
  /\ array = <<>> /\ c_len = 0 /\ stored = <<>>
  /\ c_reqs = <<>>
  /\ reply = NoReply
  /\ ierror = "unset"
  /\ var = call.arg
  /\ text = [n \in 1 .. call.text_len |-> "o"]
  /\ len = call.len
  /\ reqs = call.reqs
  /\ outcount = OldIndex
  /\ indices = IF Uses(routine, {"index"}) THEN <<OldIndex>>
               ELSE [n \in DOMAIN call.reqs |-> OldIndex]

-----------------------------------------------------------------------------
(* Before the call *)

\* The questions about the communicator are answered, or need not be asked.
LookUp ==
  /\ pc = "lookup"
  /\ q_at_root' = IF routine.lookup = "root" THEN AtRootTest(call.comm)
                                             ELSE FALSE
  /\ pc' = "convert"
  /\ UNCHANGED <<input, c, read, c_str, c_argv, copies, array, c_len, stored,
                 c_reqs, reply, program>>

\* A question fails: its code goes to ierror and nothing else happens.
LookUpFails ==
  /\ pc = "lookup"
  /\ routine.lookup # "none"
  /\ ierror' = "MPI_ERR_COMM"
  /\ pc' = "returned"
  /\ UNCHANGED <<input, c_side, reply, var, text, len, reqs, outcount,
                 indices>>

\* The C side of crossing k.  Local handles and flags start as null and 0, so
\* that there is something to write back when MPI fails; an attribute's
\* value does not.
ConvertArg(k) ==
  LET kind == routine.args[k].kind
      v == call.arg[k]
  IN  IF routine.args[k].at_root /\ ~q_at_root THEN "null"
      ELSE CASE kind = "buffer" -> mpif_c_buffer(v)
             [] kind = "status" -> mpif_c_status(v)
             [] kind = "weights" -> mpif_c_weights(v)
             [] kind = "errcodes" -> mpif_c_errcodes(v)
             [] kind = "argv" /\ v = "mpif_argv_null_" -> "MPI_ARGV_NULL"
             [] kind = "argvs" /\ v = "mpif_argvs_null_" -> "MPI_ARGVS_NULL"
             [] kind \in VectorKinds /\ v \notin Cells -> "vector"
             [] kind \in StringKinds -> "copy"
             [] kind = "logical" -> mpif_logical2bool(v)
             [] kind = "new" -> "null"
             [] kind = "flag" -> "0"
             [] kind = "attribute" -> "garbage"
             [] OTHER -> v

\* Whether crossing k allocates: strings where they are read, vectors at the
\* root unless they are the null vector.
Allocates(k) ==
  \/ routine.args[k].kind \in StringKinds
     /\ (routine.args[k].at_root => q_at_root)
  \/ routine.args[k].kind \in VectorKinds
     /\ q_at_root /\ call.arg[k] \notin Cells

\* The elements read of an array of datatypes; with MPI_IN_PLACE the send
\* side's is filled with MPI_DATATYPE_NULL instead.
ReadTypes(k) ==
  LET lengths == ArrayLengths(routine.lookup, call.comm)
  IN  CASE routine.args[k].kind = "send_types" ->
             IF mpif_c_buffer(call.arg[k - 1]) = "MPI_IN_PLACE" THEN 0
                                                                ELSE lengths[1]
        [] routine.args[k].kind = "recv_types" -> lengths[2]
        [] OTHER -> 0

\* mpif_strdup_f2c or mpif_strdup_f2c_trim.
CopyString ==
  IF Uses(routine, {"trimmed"}) THEN strdup_f2c_trim(call.str)
                                ELSE strdup_f2c(call.str)

\* The program's argument vectors as Fortran stores them, by columns, and
\* the vectors made of them.
Storage ==
  LET rows == Rows(routine)
  IN  [n \in 0 .. rows * (MaxWords + 1) - 1 |->
         call.argv[n % rows][n \div rows]]
ConvertArgv ==
  LET rows == Rows(routine)
  IN  [i \in 0 .. rows - 1 |->
         [n \in 1 .. fcount2d(Storage, rows, i) |->
            strdup_f2c_trim(Storage[i + (n - 1) * rows])]]

\* buflen_x: MPI's maximum, or the length the caller declares.
TextBuflen == IF Uses(routine, {"text"}) THEN MaxName + 1 ELSE call.text_len

\* The length told to MPI.  With a handshake it counts the NUL, and is
\* clamped to the caller's variable.
ToldLengthUnclamped ==    \* mutant: the length the program states is believed
  CASE Uses(routine, {"text_if_flag"}) -> call.text_len
    [] Uses(routine, BoundedKinds) /\ call.len > 0 -> call.len + 1
    [] OTHER -> 0
ToldLength ==
  CASE Uses(routine, {"text_if_flag"}) -> call.text_len
    [] Uses(routine, BoundedKinds) /\ call.len > 0 ->
         IF call.len <= call.text_len THEN call.len + 1 ELSE call.text_len + 1
    [] OTHER -> 0

Convert ==
  /\ pc = "convert"
  /\ c' = [k \in DOMAIN routine.args |-> ConvertArg(k)]
  /\ read' = [k \in DOMAIN routine.args |-> ReadTypes(k)]
  /\ copies' = {k \in DOMAIN routine.args : Allocates(k)}
  /\ c_str' = IF \E k \in copies' : routine.args[k].kind \in StringKinds
              THEN CopyString ELSE <<>>
  /\ c_argv' = IF \E k \in copies' : routine.args[k].kind \in {"argv", "argvs"}
               THEN ConvertArgv ELSE <<>>
  /\ array' = IF Uses(routine, TextKinds) THEN TextArray(TextBuflen) ELSE <<>>
  /\ c_len' = ToldLength
  /\ c_reqs' = call.reqs
  /\ pc' = "call"
  /\ UNCHANGED <<input, q_at_root, stored, reply, program>>

-----------------------------------------------------------------------------
(* The MPI call *)

LiveRequests == {n \in DOMAIN call.reqs : call.reqs[n] = "live"}

\* What MPI may answer: success, failure that leaves the results alone, and
\* MPI_ERR_IN_STATUS, which some requests completing comes with.  `object'
\* tells whether MPI returns or keeps an object; `cut' that a string too long
\* for the length MPI was told is returned without a NUL; `reports' that MPI
\* answers a length with the one the string needs.  Where no flag asks for
\* that, the implementations do not (MISSING.md, MPI_SESSION_GET_NTH_PSET).
Replies ==
  {r \in [outcome : {"ok", "error", "in_status"}, flag : BOOLEAN,
          object : BOOLEAN, cut : BOOLEAN, reports : BOOLEAN,
          str : {[n \in 1 .. m |-> "a"] : m \in 0 .. MaxName},
          done : SUBSET LiveRequests] :
     /\ r.outcome = "in_status" => Uses(routine, {"requests"})
     /\ r.flag => Uses(routine, {"flag"})
     /\ r.object => Uses(routine, {"new", "inout", "detached", "requests"})
     /\ r.cut => Uses(routine, BoundedKinds)
     /\ ~r.reports => Uses(routine, {"bounded"})
     /\ r.str # <<>> => Uses(routine, TextKinds)
     /\ Uses(routine, {"index"}) => Cardinality(r.done) <= 1
     /\ r.outcome = "error" => r.done = {}}

\* The C side of crossing k after the call.
Answer(k, r) ==
  LET kind == routine.args[k].kind
  IN  IF r.outcome = "error" THEN c[k]
      ELSE CASE kind = "new" -> IF r.object THEN "live" ELSE "null"
             [] kind = "inout" -> IF r.object THEN c[k] ELSE "null"
             [] kind = "flag" -> IF r.flag THEN "1" ELSE "0"
             [] kind = "attribute" -> IF r.flag THEN "value" ELSE c[k]
             [] kind = "detached" -> IF r.object THEN "address"
                                                 ELSE "MPI_BUFFER_AUTOMATIC"
             [] OTHER -> c[k]

\* The bytes MPI stores in the array, told that it has length `told'.
AnswerText(r, told) ==
  IF \/ r.outcome = "error"
     \/ Uses(routine, {"text_if_flag", "bounded_if_flag"}) /\ ~r.flag
     \/ Uses(routine, BoundedKinds) /\ told = 0
     \/ ~Uses(routine, TextKinds)
  THEN <<>>
  ELSE LET room == CASE Uses(routine, BoundedKinds) -> told - 1
                     [] Uses(routine, {"text_if_flag"}) -> told
                     [] OTHER -> MaxName
       IN  IF r.cut /\ Len(r.str) > room THEN SubSeq(r.str, 1, room + 1)
           ELSE SubSeq(r.str, 1, Min({room, Len(r.str)})) \o <<NUL>>

MPI_UNDEFINED == -32766

\* The positions, from 0, of the completed requests in order.
Positions(done) ==
  [j \in 1 .. Cardinality(done) |->
     (CHOOSE n \in done : Cardinality({m \in done : m <= n}) = j) - 1]

AnswerIndices(r) ==
  IF r.outcome = "error" THEN indices
  ELSE IF Uses(routine, {"index"}) THEN
    IF r.done = {} THEN <<MPI_UNDEFINED>> ELSE Positions(r.done)
  ELSE [j \in DOMAIN indices |->
          IF j <= Cardinality(r.done) THEN Positions(r.done)[j] ELSE indices[j]]

AnswerOutcount(r) ==
  IF r.outcome = "error" \/ ~Uses(routine, {"indices"}) THEN outcount
  ELSE IF LiveRequests = {} THEN MPI_UNDEFINED
  ELSE Cardinality(r.done)

\* The length MPI leaves: what the string needs, where it reports it, which
\* it always does when asked for nothing else.
AnswerLength(r, told) ==
  IF /\ Uses(routine, BoundedKinds) /\ r.outcome = "ok"
     /\ Uses(routine, {"bounded_if_flag"}) => r.flag
     /\ r.reports \/ told = 0
  THEN Len(r.str) + 1 ELSE told

\* MPI may store more than the array holds: that is the end of what can be
\* said of the call.
CallMPI ==
  /\ pc = "call"
  /\ \E r \in Replies :
       /\ reply' = r
       /\ ierror' = IF r.outcome = "ok" THEN "MPI_SUCCESS" ELSE "error"
       /\ c' = [k \in DOMAIN routine.args |-> Answer(k, r)]
       /\ stored' = AnswerText(r, c_len)
       /\ array' = Store(array, stored')
       /\ c_len' = AnswerLength(r, c_len)
       /\ c_reqs' = [n \in DOMAIN c_reqs |->
                       IF n \in r.done /\ ~r.object /\ Uses(routine, {"requests"})
                       THEN "null" ELSE c_reqs[n]]
       /\ indices' = AnswerIndices(r)
       /\ outcount' = AnswerOutcount(r)
  /\ pc' = IF Len(stored') <= Len(array) THEN "back" ELSE "overrun"
  /\ UNCHANGED <<input, q_at_root, read, c_str, c_argv, copies, var, text, len,
                 reqs>>

-----------------------------------------------------------------------------
(* After the call *)

\* The local c_flag.
CFlag ==
  \E k \in DOMAIN routine.args :
    routine.args[k].kind = "flag" /\ c[k] = "1"

\* What the program's variable k becomes.
WriteBack(k) ==
  LET kind == routine.args[k].kind
  IN  CASE kind \in {"new", "inout"} -> c[k]
        [] kind = "flag" -> mpif_bool2logical(c[k])
        [] kind = "attribute" ->
             IF ierror # "MPI_SUCCESS" \/ ~CFlag THEN "zero" ELSE c[k]
        [] kind = "detached" ->
             IF ierror = "MPI_SUCCESS" THEN mpif_f_buffer_addr(c[k]) ELSE c[k]
        [] OTHER -> var[k]

\* Whether the string is copied to the program's variable.
CopiesText ==
  /\ Uses(routine, TextKinds)
  /\ Uses(routine, {"text_if_flag", "bounded_if_flag"}) => CFlag
  /\ Uses(routine, BoundedKinds) => call.len > 0

ReturnText ==
  IF CopiesText
  THEN strcpy_c2f(SubSeq(array, 1, strlen(array)), call.text_len)
  ELSE text

ReturnLength ==
  IF Uses(routine, {"bounded"}) \/ (Uses(routine, {"bounded_if_flag"}) /\ CFlag)
  THEN IF c_len > 0 THEN c_len - 1 ELSE 0
  ELSE len

\* q_count: as many positions as were returned and as there can be.
OutcountTrusted == outcount    \* mutant: not bounded by incount
PositionsReturned ==
  IF outcount < Len(call.reqs) THEN outcount ELSE Len(call.reqs)

\* C positions become Fortran positions, one index unless it is negative.
ReturnIndices ==
  IF Uses(routine, {"index"}) THEN
    [j \in DOMAIN indices |-> IF indices[j] >= 0 THEN indices[j] + 1
                                                 ELSE indices[j]]
  ELSE IF Uses(routine, {"indices"}) THEN
    [j \in DOMAIN indices \cup (1 .. PositionsReturned) |->
       IF j \notin DOMAIN indices THEN 1
       ELSE IF j <= PositionsReturned THEN indices[j] + 1 ELSE indices[j]]
  ELSE indices

\* The requests are converted back whatever MPI answered.
ReturnRequestsOnSuccess ==    \* mutant: only after MPI_SUCCESS
  IF Uses(routine, {"requests"}) /\ ierror = "MPI_SUCCESS" THEN c_reqs ELSE reqs
ReturnRequests == IF Uses(routine, {"requests"}) THEN c_reqs ELSE reqs

\* free(): a string on the processes that read it, a vector word by word as
\* far as its words were counted, which is nowhere but at the root.
FreesStrings(k) ==    \* mutant: the argument vectors are not freed
  /\ routine.args[k].kind \in StringKinds
  /\ routine.args[k].at_root => q_at_root
Frees(k) ==
  \/ routine.args[k].kind \in StringKinds
     /\ (routine.args[k].at_root => q_at_root)
  \/ routine.args[k].kind \in VectorKinds
     /\ q_at_root /\ call.arg[k] \notin Cells

Return ==
  /\ pc = "back"
  /\ var' = [k \in DOMAIN routine.args |-> WriteBack(k)]
  /\ text' = ReturnText
  /\ len' = ReturnLength
  /\ reqs' = ReturnRequests
  /\ indices' = ReturnIndices
  /\ copies' = {k \in copies : ~Frees(k)}
  /\ pc' = "returned"
  /\ UNCHANGED <<input, q_at_root, c, read, c_str, c_argv, array, c_len,
                 stored, c_reqs, reply, ierror, outcount>>

Returned == pc \in {"returned", "overrun"} /\ UNCHANGED vars

Next == LookUp \/ LookUpFails \/ Convert \/ CallMPI \/ Return \/ Returned

Spec == Init /\ [][Next]_vars

-----------------------------------------------------------------------------
(* Properties *)

\* The state variables keep their types.
TypeOK ==
  /\ routine \in Routines
  /\ pc \in {"lookup", "convert", "call", "back", "returned", "overrun"}
  /\ q_at_root \in BOOLEAN
  /\ DOMAIN c = DOMAIN routine.args /\ DOMAIN var = DOMAIN routine.args
  /\ \A k \in DOMAIN routine.args : read[k] \in Nat
  /\ copies \subseteq DOMAIN routine.args
  /\ c_len \in Nat /\ len \in Nat /\ outcount \in Int
  /\ Len(text) = call.text_len
  /\ Len(reqs) = Len(call.reqs)
  /\ ierror \in {"unset", "MPI_SUCCESS", "MPI_ERR_COMM", "error"}

\* The C constant each cell stands for.
Meaning ==
  [mpif_bottom_ |-> "MPI_BOTTOM", mpif_in_place_ |-> "MPI_IN_PLACE",
   mpif_buffer_automatic_ |-> "MPI_BUFFER_AUTOMATIC",
   mpif_status_ignore_ |-> "MPI_STATUS_IGNORE",
   mpif_f08_status_ignore_ |-> "MPI_STATUS_IGNORE",
   mpif_statuses_ignore_ |-> "MPI_STATUSES_IGNORE",
   mpif_f08_statuses_ignore_ |-> "MPI_STATUSES_IGNORE",
   mpif_unweighted_ |-> "MPI_UNWEIGHTED",
   mpif_weights_empty_ |-> "MPI_WEIGHTS_EMPTY",
   mpif_errcodes_ignore_ |-> "MPI_ERRCODES_IGNORE",
   mpif_argv_null_ |-> "MPI_ARGV_NULL",
   mpif_argvs_null_ |-> "MPI_ARGVS_NULL"]

\* A sentinel reaches MPI as the constant it stands for, whichever of the
\* Fortran interfaces it comes from, an ordinary address never as one; and
\* the one sentinel MPI returns reaches the program as the object of that
\* name (CODE.md "Sentinels are translated, and every crossing is checked").
SentinelsTranslated ==
  \A k \in DOMAIN routine.args :
    /\ pc = "call" =>
         IF call.arg[k] \in Cells THEN c[k] = Meaning[call.arg[k]]
                                  ELSE c[k] \notin Range(Meaning)
    /\ pc = "returned" => var[k] \notin Range(Meaning)

\* The elements of an array of datatypes that the program supplies: none
\* for a send side that is in place.
Supplied(k) ==
  CASE routine.args[k].kind = "send_types" ->
         IF call.arg[1] = "mpif_in_place_" THEN 0
         ELSE SuppliedTypes(routine.lookup, call.comm, 1)
    [] routine.args[k].kind = "recv_types" ->
         SuppliedTypes(routine.lookup, call.comm, 2)
    [] OTHER -> 0

\* What is read is what the program supplies.  Arguments significant only at
\* the root are not looked at elsewhere, on an intercommunicator either; what
\* is significant here reaches MPI, no handle or string replaced by a null
\* one; and arrays of datatypes are read as far as MPI defines them, no
\* further and no less.
ReadsWhatIsSupplied ==
  pc = "call" =>
    \A k \in DOMAIN routine.args :
      LET kind == routine.args[k].kind IN
      /\ c[k] # "junk"
      /\ read[k] = Supplied(k)
      /\ kind \in {"handle"} \cup StringKinds =>
           (Significant(routine, k, call.comm) <=> c[k] # "null")
      /\ kind \in VectorKinds =>
           (k \in copies <=>
              Significant(routine, k, call.comm) /\ call.arg[k] = "data")

\* The strings MPI is given are the program's without the blanks that
\* padded them, and each command's argument vector is its own row of the
\* array up to the first blank string.
StringsCross ==
  pc = "call" =>
    /\ \A k \in copies :
         routine.args[k].kind \in StringKinds =>
           IsTrimmed(c_str, call.str, routine.args[k].kind = "trimmed")
    /\ \A k \in copies :
         routine.args[k].kind \in {"argv", "argvs"} =>
           \A i \in 0 .. Rows(routine) - 1 :
             LET words == call.argv[i]
                 blank == {n \in DOMAIN words : Blanks(words[n])}
             IN  /\ Len(c_argv[i]) = Min(blank)
                 /\ \A n \in DOMAIN c_argv[i] :
                      IsTrimmed(c_argv[i][n], words[n - 1], TRUE)

\* A handle variable names an object exactly when MPI has one, also after a
\* failure, and after MPI_ERR_IN_STATUS, when some requests of an array are
\* gone and others are not; and whatever the outcome, no variable of the
\* program is set from a C local that was never given a value.  Nor does a
\* string hold bytes MPI did not store where MPI ends its strings with a NUL;
\* behind one that Open MPI cut without a NUL (MISSING.md) it may.
ResultsTruthful ==
  pc = "returned" /\ reply # NoReply =>
    /\ \A k \in DOMAIN routine.args : var[k] \notin {"garbage", "unset"}
    /\ ~reply.cut => Uninit \notin Range(text)
    /\ \A k \in DOMAIN routine.args :
         LET gone == reply.outcome # "error" /\ ~reply.object
         IN  CASE routine.args[k].kind = "new" ->
                    var[k] = "live" <=> reply.outcome # "error" /\ reply.object
               [] routine.args[k].kind = "inout" -> var[k] = "live" <=> ~gone
               [] OTHER -> TRUE
    /\ \A n \in DOMAIN reqs :
         LET gone == /\ n \in reply.done /\ ~reply.object
                     /\ Uses(routine, {"requests"})
         IN  reqs[n] = "live" <=> call.reqs[n] = "live" /\ ~gone

\* The positions a completion routine returns name, from 1, the requests
\* that completed, and none beyond the array is touched even when MPI failed
\* before it set the count.
IndicesNameRequests ==
  pc = "returned" =>
    /\ Uses(routine, {"indices"}) => Len(indices) = Len(call.reqs)
    /\ reply # NoReply /\ reply.outcome # "error" =>
         /\ Uses(routine, {"index"}) =>
              IF reply.done = {} THEN indices[1] = MPI_UNDEFINED
                                 ELSE reply.done = {indices[1]}
         /\ Uses(routine, {"indices"}) =>
              {indices[j] : j \in 1 .. Cardinality(reply.done)} = reply.done

\* MPI's bytes fit the array made for them, unless MPI is told no length and
\* its string is longer by two than a variable of the program's choosing, the
\* only size the code has (MPI_Info_get_nthkey, MPI_File_get_view); strlen
\* stops inside the array whatever MPI wrote, a string without a NUL too; the
\* program gets as much of MPI's string as it has declared room for, padded
\* with blanks; and the length it gets back is the string's or, where MPI
\* reports none, the room it has, without the NUL in either case.
TextDelivered ==
  /\ pc = "overrun" => /\ Uses(routine, {"caller_text"})
                       /\ Len(reply.str) > call.text_len + 1
  /\ pc = "back" /\ CopiesText => strlen(array) < Len(array)
  /\ pc = "returned" /\ ierror = "MPI_SUCCESS" =>
       LET room == IF Uses(routine, BoundedKinds)
                     THEN Min({call.len, call.text_len}) ELSE call.text_len
           n == Min({room, Len(reply.str)})
       IN  /\ CopiesText /\ ~reply.cut =>
                text = strcpy_c2f(SubSeq(reply.str, 1, n), call.text_len)
           /\ (/\ Uses(routine, BoundedKinds)
               /\ Uses(routine, {"bounded_if_flag"}) => reply.flag)
                => len = IF reply.reports \/ call.len = 0 THEN Len(reply.str)
                                                          ELSE room

\* The variables keep their types; every copy made for the call is there as
\* long as MPI has it and freed when the entry returns, and nothing is freed
\* that was not made.
CopiesFreed ==
  /\ TypeOK
  /\ pc = "returned" => copies = {}
  /\ pc = "back" => {k \in DOMAIN routine.args : Frees(k)} \subseteq copies
  /\ pc \in {"call", "back"} =>
       \A k \in DOMAIN routine.args : c[k] = "copy" => k \in copies
=============================================================================

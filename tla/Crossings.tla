------------------------------ MODULE Crossings -----------------------------
(***************************************************************************)
(* How the Fortran-callable entry points of gen/mpif_functions.c are       *)
(* described, one definition per MPI routine, in TransferRoutines and      *)
(* ObjectRoutines.  A routine has up to four entries in the source         *)
(* (mpi_ and pmpi_ names, small and large counts) that differ in the MPI   *)
(* function they call and the width of their counts only.  A definition    *)
(* lists, in the order of the call, the arguments that cross from Fortran  *)
(* to C or back in another form; Wrapper says what each crossing does.     *)
(* Arguments handed on as they are, and handles converted by a bare        *)
(* MPI_X_fromint, are not listed, nor are routines that have no others.    *)
(***************************************************************************)

Crossing(kind) == [kind |-> kind, at_root |-> FALSE]
AtRoot(a) == [a EXCEPT !.at_root = TRUE]

\* Addresses that may be a sentinel's: mpif_c_buffer and its siblings.
Buffer   == Crossing("buffer")
Status   == Crossing("status")
Weights  == Crossing("weights")
Errcodes == Crossing("errcodes")

\* Handles: one that is read (listed where only the root reads it, and where
\* it is an array), one that is returned, one that is changed.
Handle == Crossing("handle")
New    == Crossing("new")
InOut  == Crossing("inout")

\* Arrays of datatypes, as long as the group or the neighborhood.
SendTypes == Crossing("send_types")
RecvTypes == Crossing("recv_types")

\* LOGICAL arguments and results.
Logical == Crossing("logical")
Flag    == Crossing("flag")

\* Strings that are read, as they are or without leading blanks, and arrays
\* of them.
String   == Crossing("string")
Trimmed  == Crossing("trimmed")
Argv     == Crossing("argv")
Argvs    == Crossing("argvs")
Commands == Crossing("commands")

\* Strings that are returned: in a variable of the length MPI fixes, of the
\* caller's length, of the length an argument names, and with a length
\* handshake; the last two may depend on a flag.
Text          == Crossing("text")
CallerText    == Crossing("caller_text")
TextIfFlag    == Crossing("text_if_flag")
Bounded       == Crossing("bounded")
BoundedIfFlag == Crossing("bounded_if_flag")

\* Arrays of requests, changed or read, and positions in them.
Requests   == Crossing("requests")
RequestsIn == Crossing("requests_in")
Index      == Crossing("index")
Indices    == Crossing("indices")

\* An attribute's value, and the address of a detached buffer.
Attribute == Crossing("attribute")
Detached  == Crossing("detached")

\* A routine: its name, what it asks about its communicator, its crossings.
Routine(name, lookup, args) == [name |-> name, lookup |-> lookup, args |-> args]

Call(name, args)         == Routine(name, "none", args)
RootedCall(name, args)   == Routine(name, "root", args)
GroupCall(name, args)    == Routine(name, "members", args)
NeighborCall(name, args) == Routine(name, "neighbors", args)
DimsCall(name, args)     == Routine(name, "dims", args)
=============================================================================

-------------------------- MODULE CdescEntryProofs --------------------------
(***************************************************************************)
(* Theorems about CdescEntry, for communicators and topologies of any size *)
(* and any set of the routines of CdescRoutines.  The argument has two     *)
(* halves: what the table says of each routine agrees with what the MPI    *)
(* standard says of it, and after i - 1 buffers the entry's locals say     *)
(* exactly what the tests of those buffers found.                          *)
(***************************************************************************)
EXTENDS CdescEntry, TLAPS

\* A row has up to three buffers; a routine with arrays of datatypes has a send
\* and a receive side and no root; and the root's privileges are the standard's.
RowShape(r) ==
  /\ Len(r.bufs) \in 1 .. 3 /\ DOMAIN r.bufs = 1 .. Len(r.bufs)
  /\ \A b \in DOMAIN r.bufs : r.bufs[b].class \in {"walk", "contig", "addr"}
  /\ r.arrays \in {"none", "members", "neighbors"}
  /\ r.arrays # "none" => Len(r.bufs) = 2 /\ ~Rooted(r)
RowRoots(r) ==
  \A b \in DOMAIN r.bufs :
    /\ r.bufs[b].type_at_root <=> TypeAtRootOnly(r.name, b)
    /\ BufferAtRootOnly(r.name, b) => r.bufs[b].test_at_root
RowTests(r) ==
  \A b \in DOMAIN r.bufs :
    r.bufs[b].test_at_root => BufferAtRootOnly(r.name, b)

\* Of the buffers a rooted routine tests everywhere, only the send buffer of
\* a reduction must be contiguous.
RowContig(r) ==
  Rooted(r) =>
    \A b \in DOMAIN r.bufs :
      r.bufs[b].class = "contig" =>
        BufferAtRootOnly(r.name, b) \/ (b = 1 /\ r.name \in ReduceNames)

-----------------------------------------------------------------------------
(* The table *)

\* MPI_Scatterv_init tests a receive buffer at the root that every process has.
RowOK(r) ==
  /\ RowShape(r) /\ RowRoots(r) /\ RowContig(r)
  /\ r # MPI_Scatterv_init => RowTests(r)

PlainBufs ==
  {<<Walk>>, <<Contig>>, <<Addr>>, <<Walk, Walk>>, <<Walk, Contig>>, <<Contig, Walk>>,
   <<Contig, Contig>>, <<Addr, Addr>>, <<Addr, Addr, Addr>>}

\* A routine without a root: rows of plain buffers under a name that the
\* standard gives no root.
LEMMA PlainRow ==
  ASSUME NEW r, r.bufs \in PlainBufs,
         r.name \notin GatherNames \cup ReduceNames \cup ScatterNames,
         r.arrays \in {"none", "members", "neighbors"},
         r.arrays # "none" => Len(r.bufs) = 2
  PROVE  RowOK(r)
<1>1. \A x \in {Walk, Contig, Addr} : /\ x.class \in {"walk", "contig", "addr"}
                                      /\ ~x.test_at_root /\ ~x.type_at_root
  BY DEF Walk, Contig, Addr, Buffer
<1>2. /\ Len(r.bufs) \in 1 .. 3 /\ DOMAIN r.bufs = 1 .. Len(r.bufs)
      /\ \A b \in DOMAIN r.bufs : r.bufs[b] \in {Walk, Contig, Addr}
  BY DEF PlainBufs
<1>3. RowShape(r)
  BY <1>1, <1>2 DEF Rooted, RowShape
<1>4. QED
  BY <1>1, <1>2, <1>3 DEF RowOK, RowRoots, RowTests, RowContig, Rooted,
     BufferAtRootOnly, TypeAtRootOnly

\* A rooted routine: a side that only the root has carries the root's flags.
LEMMA RootedRow ==
  ASSUME NEW r, r.arrays = "none",
         \/ /\ r.name \in GatherNames
            /\ r.bufs \in {<<Walk, AtRoot(Walk)>>, <<Walk, AtRoot(Contig)>>}
         \/ /\ r.name \in ScatterNames
            /\ r.bufs \in {<<AtRoot(Walk), Walk>>, <<AtRoot(Contig), Walk>>}
         \/ /\ r.name \in ReduceNames
            /\ r.bufs = <<Contig, CheckedAtRoot(Contig)>>
         \/ /\ r.name \in ScatterNames
            /\ r.bufs = <<AtRoot(Contig), CheckedAtRoot(Walk)>>
            /\ r = MPI_Scatterv_init
  PROVE  RowOK(r)
<1>1. /\ Walk.class = "walk" /\ ~Walk.test_at_root /\ ~Walk.type_at_root
      /\ Contig.class = "contig" /\ ~Contig.test_at_root /\ ~Contig.type_at_root
  BY DEF Walk, Contig, Buffer
<1>2. /\ AtRoot(Walk).class = "walk" /\ AtRoot(Contig).class = "contig"
      /\ AtRoot(Walk).test_at_root /\ AtRoot(Walk).type_at_root
      /\ AtRoot(Contig).test_at_root /\ AtRoot(Contig).type_at_root
  BY DEF AtRoot, Walk, Contig, Buffer
<1>3. /\ CheckedAtRoot(Walk).class = "walk" /\ CheckedAtRoot(Contig).class = "contig"
      /\ CheckedAtRoot(Walk).test_at_root /\ ~CheckedAtRoot(Walk).type_at_root
      /\ CheckedAtRoot(Contig).test_at_root /\ ~CheckedAtRoot(Contig).type_at_root
  BY DEF CheckedAtRoot, Walk, Contig, Buffer
<1>4. GatherNames \cap ScatterNames = {} /\ ReduceNames \cap (ScatterNames \cup GatherNames) = {}
  BY DEF GatherNames, ReduceNames, ScatterNames
<1>5. Len(r.bufs) = 2 /\ DOMAIN r.bufs = 1 .. 2
  OBVIOUS
<1>6. RowShape(r)
  BY <1>1, <1>2, <1>3, <1>5 DEF RowShape
<1>7. RowRoots(r)
  BY <1>1, <1>2, <1>3, <1>4, <1>5 DEF RowRoots, TypeAtRootOnly, BufferAtRootOnly
<1>8. r # MPI_Scatterv_init => RowTests(r)
  BY <1>1, <1>2, <1>3, <1>4, <1>5 DEF RowTests, TypeAtRootOnly, BufferAtRootOnly
<1>9. RowContig(r)
  BY <1>1, <1>2, <1>3, <1>4, <1>5 DEF RowContig, TypeAtRootOnly, BufferAtRootOnly
<1>10. QED
  BY <1>6, <1>7, <1>8, <1>9 DEF RowOK

\* Every routine's row is in order.
LEMMA TableOK == \A r \in CdescRoutines : RowOK(r)
<1> USE DEF Call, Start, Receive, StartReceive, CreateWin, Entry, PerMember, PerNeighbor,
            WithString
<1>1. \A r \in {MPI_Accumulate, MPI_Allgather, MPI_Allgather_init, MPI_Allgatherv,
                MPI_Allgatherv_init, MPI_Allreduce, MPI_Allreduce_init,
                MPI_Alltoall, MPI_Alltoall_init, MPI_Alltoallv, MPI_Alltoallv_init,
                MPI_Alltoallw, MPI_Alltoallw_init, MPI_Bcast, MPI_Bcast_init,
                MPI_Bsend, MPI_Bsend_init, MPI_Buffer_attach,
                MPI_Comm_attach_buffer, MPI_Compare_and_swap} :
        RowOK(r)
  BY PlainRow DEF PlainBufs, GatherNames, ReduceNames, ScatterNames,
     MPI_Accumulate, MPI_Allgather, MPI_Allgather_init, MPI_Allgatherv,
     MPI_Allgatherv_init, MPI_Allreduce, MPI_Allreduce_init, MPI_Alltoall,
     MPI_Alltoall_init, MPI_Alltoallv, MPI_Alltoallv_init, MPI_Alltoallw,
     MPI_Alltoallw_init, MPI_Bcast, MPI_Bcast_init, MPI_Bsend, MPI_Bsend_init,
     MPI_Buffer_attach, MPI_Comm_attach_buffer, MPI_Compare_and_swap
<1>2. \A r \in {MPI_Exscan, MPI_Exscan_init, MPI_Fetch_and_op, MPI_File_iread, MPI_File_iread_all,
                MPI_File_iread_at, MPI_File_iread_at_all, MPI_File_iread_shared,
                MPI_File_iwrite, MPI_File_iwrite_all, MPI_File_iwrite_at,
                MPI_File_iwrite_at_all, MPI_File_iwrite_shared, MPI_File_read,
                MPI_File_read_all, MPI_File_read_all_begin, MPI_File_read_all_end,
                MPI_File_read_at, MPI_File_read_at_all, MPI_File_read_at_all_begin} :
        RowOK(r)
  BY PlainRow DEF PlainBufs, GatherNames, ReduceNames, ScatterNames,
     MPI_Exscan, MPI_Exscan_init, MPI_Fetch_and_op, MPI_File_iread, MPI_File_iread_all,
     MPI_File_iread_at, MPI_File_iread_at_all, MPI_File_iread_shared,
     MPI_File_iwrite, MPI_File_iwrite_all, MPI_File_iwrite_at,
     MPI_File_iwrite_at_all, MPI_File_iwrite_shared, MPI_File_read,
     MPI_File_read_all, MPI_File_read_all_begin, MPI_File_read_all_end,
     MPI_File_read_at, MPI_File_read_at_all, MPI_File_read_at_all_begin
<1>3. \A r \in {MPI_File_read_at_all_end, MPI_File_read_ordered, MPI_File_read_ordered_begin,
                MPI_File_read_ordered_end, MPI_File_read_shared, MPI_File_write,
                MPI_File_write_all, MPI_File_write_all_begin,
                MPI_File_write_all_end, MPI_File_write_at, MPI_File_write_at_all,
                MPI_File_write_at_all_begin, MPI_File_write_at_all_end,
                MPI_File_write_ordered, MPI_File_write_ordered_begin,
                MPI_File_write_ordered_end, MPI_File_write_shared, MPI_Free_mem,
                MPI_Get, MPI_Get_accumulate} :
        RowOK(r)
  BY PlainRow DEF PlainBufs, GatherNames, ReduceNames, ScatterNames,
     MPI_File_read_at_all_end, MPI_File_read_ordered, MPI_File_read_ordered_begin,
     MPI_File_read_ordered_end, MPI_File_read_shared, MPI_File_write,
     MPI_File_write_all, MPI_File_write_all_begin, MPI_File_write_all_end,
     MPI_File_write_at, MPI_File_write_at_all, MPI_File_write_at_all_begin,
     MPI_File_write_at_all_end, MPI_File_write_ordered,
     MPI_File_write_ordered_begin, MPI_File_write_ordered_end,
     MPI_File_write_shared, MPI_Free_mem, MPI_Get, MPI_Get_accumulate
<1>4. \A r \in {MPI_Get_address, MPI_Iallgather, MPI_Iallgatherv, MPI_Iallreduce, MPI_Ialltoall,
                MPI_Ialltoallv, MPI_Ialltoallw, MPI_Ibcast, MPI_Ibsend, MPI_Iexscan,
                MPI_Imrecv, MPI_Ineighbor_allgather, MPI_Ineighbor_allgatherv,
                MPI_Ineighbor_alltoall, MPI_Ineighbor_alltoallv,
                MPI_Ineighbor_alltoallw, MPI_Irecv, MPI_Ireduce_scatter,
                MPI_Ireduce_scatter_block, MPI_Irsend} :
        RowOK(r)
  BY PlainRow DEF PlainBufs, GatherNames, ReduceNames, ScatterNames,
     MPI_Get_address, MPI_Iallgather, MPI_Iallgatherv, MPI_Iallreduce, MPI_Ialltoall,
     MPI_Ialltoallv, MPI_Ialltoallw, MPI_Ibcast, MPI_Ibsend, MPI_Iexscan,
     MPI_Imrecv, MPI_Ineighbor_allgather, MPI_Ineighbor_allgatherv,
     MPI_Ineighbor_alltoall, MPI_Ineighbor_alltoallv, MPI_Ineighbor_alltoallw,
     MPI_Irecv, MPI_Ireduce_scatter, MPI_Ireduce_scatter_block, MPI_Irsend
<1>5. \A r \in {MPI_Iscan, MPI_Isend, MPI_Isendrecv, MPI_Isendrecv_replace, MPI_Issend, MPI_Mrecv,
                MPI_Neighbor_allgather, MPI_Neighbor_allgather_init,
                MPI_Neighbor_allgatherv, MPI_Neighbor_allgatherv_init,
                MPI_Neighbor_alltoall, MPI_Neighbor_alltoall_init,
                MPI_Neighbor_alltoallv, MPI_Neighbor_alltoallv_init,
                MPI_Neighbor_alltoallw, MPI_Neighbor_alltoallw_init, MPI_Pack,
                MPI_Pack_external, MPI_Precv_init, MPI_Psend_init} :
        RowOK(r)
  BY PlainRow DEF PlainBufs, GatherNames, ReduceNames, ScatterNames,
     MPI_Iscan, MPI_Isend, MPI_Isendrecv, MPI_Isendrecv_replace, MPI_Issend, MPI_Mrecv,
     MPI_Neighbor_allgather, MPI_Neighbor_allgather_init, MPI_Neighbor_allgatherv,
     MPI_Neighbor_allgatherv_init, MPI_Neighbor_alltoall,
     MPI_Neighbor_alltoall_init, MPI_Neighbor_alltoallv,
     MPI_Neighbor_alltoallv_init, MPI_Neighbor_alltoallw,
     MPI_Neighbor_alltoallw_init, MPI_Pack, MPI_Pack_external, MPI_Precv_init,
     MPI_Psend_init
<1>6. \A r \in {MPI_Put, MPI_Raccumulate, MPI_Recv, MPI_Recv_init, MPI_Reduce_local,
                MPI_Reduce_scatter, MPI_Reduce_scatter_block,
                MPI_Reduce_scatter_block_init, MPI_Reduce_scatter_init, MPI_Rget,
                MPI_Rget_accumulate, MPI_Rput, MPI_Rsend, MPI_Rsend_init, MPI_Scan,
                MPI_Scan_init, MPI_Send, MPI_Send_init, MPI_Sendrecv,
                MPI_Sendrecv_replace} :
        RowOK(r)
  BY PlainRow DEF PlainBufs, GatherNames, ReduceNames, ScatterNames,
     MPI_Put, MPI_Raccumulate, MPI_Recv, MPI_Recv_init, MPI_Reduce_local,
     MPI_Reduce_scatter, MPI_Reduce_scatter_block, MPI_Reduce_scatter_block_init,
     MPI_Reduce_scatter_init, MPI_Rget, MPI_Rget_accumulate, MPI_Rput, MPI_Rsend,
     MPI_Rsend_init, MPI_Scan, MPI_Scan_init, MPI_Send, MPI_Send_init, MPI_Sendrecv,
     MPI_Sendrecv_replace
<1>7. \A r \in {MPI_Session_attach_buffer, MPI_Ssend, MPI_Ssend_init, MPI_Unpack,
                MPI_Unpack_external, MPI_Win_attach, MPI_Win_create, MPI_Win_detach} :
        RowOK(r)
  BY PlainRow DEF PlainBufs, GatherNames, ReduceNames, ScatterNames,
     MPI_Session_attach_buffer, MPI_Ssend, MPI_Ssend_init, MPI_Unpack,
     MPI_Unpack_external, MPI_Win_attach, MPI_Win_create, MPI_Win_detach
<1>8. \A r \in {MPI_Gather, MPI_Gather_init, MPI_Gatherv, MPI_Gatherv_init, MPI_Igather,
                  MPI_Igatherv, MPI_Ireduce, MPI_Iscatter, MPI_Iscatterv,
                  MPI_Reduce, MPI_Reduce_init, MPI_Scatter, MPI_Scatter_init,
                  MPI_Scatterv, MPI_Scatterv_init} : RowOK(r)
  BY RootedRow DEF GatherNames, ReduceNames, ScatterNames,
     MPI_Gather, MPI_Gather_init, MPI_Gatherv, MPI_Gatherv_init, MPI_Igather,
     MPI_Igatherv, MPI_Ireduce, MPI_Iscatter, MPI_Iscatterv, MPI_Reduce,
     MPI_Reduce_init, MPI_Scatter, MPI_Scatter_init, MPI_Scatterv, MPI_Scatterv_init
<1>9. QED
  BY <1>1, <1>2, <1>3, <1>4, <1>5, <1>6, <1>7, <1>8 DEF CdescRoutines

-----------------------------------------------------------------------------
(* The communicator *)

\* The code's answer to "am I the root" is the standard's.
LEMMA RootAnswer ==
  ASSUME NEW comm \in RootedComms
  PROVE  AtRootTest(comm) \in BOOLEAN /\ (AtRootTest(comm) <=> IsRoot(comm))
BY DEF RootedComms, AtRootTest, IsRoot

\* The lengths the code computes for the two arrays of datatypes are what the
\* standard lets the program supply, on any communicator.
LEMMA LengthAnswer ==
  ASSUME NEW lookup \in {"members", "neighbors"}, NEW comm \in Comms(lookup),
         NEW b \in 1 .. 2
  PROVE  /\ ArrayLengths(lookup, comm)[b] \in Nat
         /\ ArrayLengths(lookup, comm)[b] = SuppliedTypes(lookup, comm, b)
<1> USE BoundsAssumption
<1>1. CASE lookup = "members"
  <2>1. comm \in GroupComms
    BY <1>1 DEF Comms
  <2>2. QED
    BY <1>1, <2>1 DEF GroupComms, GroupSize, ArrayLengths, SuppliedTypes
<1>2. CASE lookup = "neighbors"
  <2>1. comm \in NeighborComms
    BY <1>2 DEF Comms
  <2>2. /\ ArrayLengths(lookup, comm) = Degrees(comm)
        /\ SuppliedTypes(lookup, comm, b) =
             IF comm.topology = "cart" THEN 2 * comm.ndims
             ELSE IF comm.topology = "graph" THEN comm.nneighbors
             ELSE IF comm.topology = "dist_graph" THEN
               (IF b = 1 THEN comm.outdegree ELSE comm.indegree)
             ELSE 0
    BY <1>2 DEF ArrayLengths, SuppliedTypes
  <2>3. QED
    BY <2>1, <2>2 DEF NeighborComms, Degrees
<1>3. QED
  BY <1>1, <1>2

-----------------------------------------------------------------------------
(* The inductive invariant *)

\* The entry's opinions about the communicator.
Answers ==
  /\ pc = "lookup" => \A b \in DOMAIN routine.bufs : q_len[b] = 0
  /\ pc \in {"convert", "test"} \/ given # <<>> =>
       /\ Rooted(routine) => (q_at_root <=> IsRoot(call.comm))
       /\ \A b \in DOMAIN routine.bufs :
            q_len[b] = SuppliedTypes(routine.arrays, call.comm, b)

\* Before the layouts are tested nothing is held.
Untested ==
  pc \in {"lookup", "convert"} =>
    /\ i = 1 /\ owned = {} /\ string = "none" /\ q_cdesc_err = "MPI_SUCCESS"
    /\ given = <<>>
    /\ \A b \in DOMAIN routine.bufs : q_type[b] = NullType /\ read[b] = 0

\* After i - 1 tests: which buffers were walked, and what no error means.
TestsDone ==
  pc = "test" =>
    /\ given = <<>>
    /\ owned \subseteq 1 .. (i - 1)
    /\ \A b \in DOMAIN routine.bufs :
         q_type[b] = IF b \in owned THEN WalkedType(b) ELSE ConvertType(b)
    /\ \A b \in owned : NotContiguous(b)
    /\ q_cdesc_err = "MPI_SUCCESS" =>
         \A b \in DOMAIN routine.bufs : b < i /\ Guarded(b) /\ NotContiguous(b) =>
           \/ b \in owned
           \/ routine.bufs[b].class = "addr"

\* Why a call may be refused.
Reason ==
  \/ fault
  \/ \E b \in DOMAIN routine.bufs :
       /\ Significant(b) \/ UnsentReduction(b)
       /\ routine.bufs[b].class = "contig"
       /\ call.layout[b] = "strided"
Reasons ==
  /\ q_cdesc_err # "MPI_SUCCESS" => Reason
  /\ pc = "returned" /\ ierror # "MPI_SUCCESS" => Reason

\* The entry owns the walked datatypes, and nothing once it has returned.
Program == {UserType(b) : b \in DOMAIN routine.bufs}
Balance ==
  /\ types = Program \cup {WalkedType(b) : b \in owned}
  /\ \A b \in owned : q_type[b] = WalkedType(b)
  /\ pc = "returned" => owned = {} /\ string # "held"

\* What MPI was called with, seen from the entry's own tests.
Described ==
  given # <<>> =>
    /\ pc = "returned"
    /\ \A b \in DOMAIN routine.bufs :
         Guarded(b) /\ routine.bufs[b].class # "addr" =>
           given[b] = IF NotContiguous(b) THEN WalkedType(b) ELSE ConvertType(b)

\* What the program's handles say, at every point of the entry.
Outputs == \A o \in routine.outs : outs[o] = "live" <=> mpi[o] = "live"

\* The entry has a datatype per buffer of its row.
Tables == DOMAIN q_type = DOMAIN routine.bufs /\ RowOK(routine)

\* By the time the layouts are tested, all the program supplies has been read.
Reads ==
  /\ ReadsWhatIsSupplied
  /\ pc = "test" => \A b \in DOMAIN routine.bufs : read[b] = Supplied(b)

IInv ==
  /\ TypeOK /\ Tables /\ Answers /\ Untested /\ TestsDone /\ Reads /\ Reasons
  /\ Balance /\ Described /\ Outputs

\* The program's datatypes, the walked ones and MPI_DATATYPE_NULL differ.
LEMMA TypesDiffer ==
  ASSUME NEW b, NEW c
  PROVE  /\ UserType(b) # WalkedType(c) /\ UserType(b) # NullType /\ WalkedType(b) # NullType
         /\ UserType(b) = UserType(c) => b = c
         /\ WalkedType(b) = WalkedType(c) => b = c
BY DEF UserType, WalkedType, NullType

\* No mark in the argument lists takes buffer b from this process.
Unmarked(b) == BufferAtRootOnly(routine.name, b) => IsRoot(call.comm)

\* What the row and the answers say of a buffer: its datatype is converted
\* and its layout tested where the marks leave it to this process; so every
\* buffer that takes part is tested, and one that is tested and must be
\* contiguous takes part or is the send buffer of a reduction.
LEMMA RootsAgree ==
  ASSUME RowOK(routine), Rooted(routine) => (q_at_root <=> IsRoot(call.comm)),
         NEW b \in DOMAIN routine.bufs
  PROVE  /\ ConvertType(b) = IF SignificantType(b) THEN UserType(b) ELSE NullType
         /\ Guarded(b) => SignificantType(b)
         /\ Guarded(b) /\ routine.bufs[b].class = "contig" =>
              Significant(b) \/ UnsentReduction(b)
         /\ Significant(b) => SignificantType(b)
         /\ Significant(b) /\ routine # MPI_Scatterv_init => Guarded(b)
<1> DEFINE row == routine.bufs[b]
<1>1. /\ row.type_at_root <=> TypeAtRootOnly(routine.name, b)
      /\ BufferAtRootOnly(routine.name, b) => row.test_at_root
      /\ routine # MPI_Scatterv_init /\ row.test_at_root => BufferAtRootOnly(routine.name, b)
  BY DEF RowOK, RowRoots, RowTests
<1>2. row.test_at_root => Rooted(routine)
  BY DEF Rooted
<1> HIDE DEF row
<1>3. row.type_at_root => row.test_at_root
  BY <1>1 DEF BufferAtRootOnly
<1>4. SignificantType(b) <=> (row.type_at_root => q_at_root)
  BY <1>1, <1>2, <1>3 DEF SignificantType, TypeAtRootOnly
<1>5. (row.test_at_root => q_at_root) => Unmarked(b)
  BY <1>1, <1>2 DEF Unmarked
<1>6. Unmarked(b) /\ routine # MPI_Scatterv_init => (row.test_at_root => q_at_root)
  BY <1>1, <1>2 DEF Unmarked
<1>7. Unmarked(b) => SignificantType(b)
  BY DEF Unmarked, SignificantType, BufferAtRootOnly
<1>8. Significant(b) => Unmarked(b)
  BY DEF Significant, Unmarked
<1>9. Unmarked(b) /\ row.class = "contig" => Significant(b) \/ UnsentReduction(b)
  BY DEF RowOK, RowContig, row, Unmarked, Significant, UnsentReduction
<1>10. QED
  BY <1>4, <1>5, <1>6, <1>7, <1>8, <1>9 DEF row, ConvertType, Guarded

\* What the program supplies of the arrays is a number, the one the code
\* computes where it asks.
LEMMA SuppliedCount ==
  ASSUME RowOK(routine), call \in Calls(routine), NEW b \in DOMAIN routine.bufs
  PROVE  /\ Supplied(b) \in Nat
         /\ SuppliedTypes(routine.arrays, call.comm, b) \in Nat
         /\ routine.arrays = "none" => SuppliedTypes(routine.arrays, call.comm, b) = 0
         /\ routine.arrays # "none" =>
              ArrayLengths(routine.arrays, call.comm)[b] =
                SuppliedTypes(routine.arrays, call.comm, b)
<1> DEFINE n == SuppliedTypes(routine.arrays, call.comm, b)
<1>1. CASE routine.arrays = "none"
  <2>1. n = 0
    BY <1>1 DEF SuppliedTypes
  <2>2. QED
    BY <1>1, <2>1 DEF Supplied
<1>2. CASE routine.arrays # "none"
  <2>1. /\ routine.arrays \in {"members", "neighbors"} /\ ~Rooted(routine)
        /\ b \in 1 .. 2
    BY <1>2 DEF RowOK, RowShape
  <2>2. call.comm \in Comms(routine.arrays)
    BY <2>1 DEF Calls, Lookup
  <2>3. n \in Nat /\ ArrayLengths(routine.arrays, call.comm)[b] = n
    BY <2>1, <2>2, LengthAnswer
  <2> HIDE DEF n
  <2>4. QED
    BY <1>2, <2>3 DEF n, Supplied
<1>3. QED
  BY <1>1, <1>2

\* Init of CdescEntry satisfies the inductive invariant.
LEMMA InitEstablishes == Init => IInv
<1> SUFFICES ASSUME Init PROVE IInv
  OBVIOUS
<1>1. /\ RowOK(routine) /\ Len(routine.bufs) \in 1 .. 3
      /\ DOMAIN routine.bufs = 1 .. Len(routine.bufs)
  BY RoutinesAssumption, TableOK DEF Init, RowOK, RowShape
<1>2. TypeOK
  <2>1. i \in 1 .. Len(routine.bufs) + 1
    BY <1>1 DEF Init
  <2>2. \A b \in DOMAIN routine.bufs :
          /\ q_len[b] \in Nat /\ read[b] \in Nat
          /\ q_type[b] \in {NullType, UserType(b), WalkedType(b)}
    BY DEF Init, PerBuffer
  <2>3. types \subseteq {UserType(b) : b \in DOMAIN routine.bufs}
                          \cup {WalkedType(b) : b \in DOMAIN routine.bufs}
    BY DEF Init
  <2>4. q_at_root \in BOOLEAN /\ fault \in BOOLEAN
    BY DEF Init
  <2>5. QED
    BY <2>1, <2>2, <2>3, <2>4 DEF Init, TypeOK
<1>3. Tables
  BY <1>1 DEF Init, Tables, PerBuffer
<1>4. Answers /\ Untested /\ TestsDone /\ Described
  BY DEF Init, Answers, Untested, TestsDone, Described, PerBuffer
<1>5. \A b \in DOMAIN routine.bufs : Supplied(b) \in Nat
  BY <1>1, SuppliedCount DEF Init
<1>6. Reads
  BY <1>5 DEF Init, Reads, ReadsWhatIsSupplied, PerBuffer
<1>7. Reasons /\ Outputs
  BY DEF Init, Reasons, Outputs
<1>8. Balance
  BY DEF Init, Balance, Program
<1>9. QED
  BY <1>2, <1>3, <1>4, <1>6, <1>7, <1>8 DEF IInv

\* A question to MPI keeps the invariant: it is answered as the standard says,
\* or nothing is held when the entry returns.
LEMMA LookUpSteps ==
  ASSUME IInv, LookUpRoot \/ LookUpLengths \/ LookUpFails \/ AsksNothing
  PROVE  IInv'
<1> USE DEF IInv, input
<1>1. /\ pc = "lookup" /\ pc' \in {"convert", "returned"}
      /\ UNCHANGED <<routine, call, i, q_type, read, owned, string, q_cdesc_err, types,
                     given, outs, mpi>>
      /\ given = <<>> /\ i = 1 /\ owned = {} /\ string = "none"
      /\ q_cdesc_err = "MPI_SUCCESS"
      /\ \A b \in DOMAIN routine.bufs : q_type[b] = NullType /\ read[b] = 0
  BY DEF LookUpRoot, LookUpLengths, LookUpFails, AsksNothing, locals, Untested
<1>2. Rooted(routine) => call.comm \in RootedComms
  BY DEF TypeOK, Calls, Lookup, Comms
<1>3. \A b \in DOMAIN routine.bufs : q_len'[b] \in Nat
  BY SuppliedCount DEF LookUpRoot, LookUpLengths, LookUpFails, AsksNothing, locals, TypeOK,
     Tables
<1>4. q_at_root' \in BOOLEAN /\ fault' \in BOOLEAN
  BY <1>2, RootAnswer DEF LookUpRoot, LookUpLengths, LookUpFails, AsksNothing, locals, TypeOK
<1>5. TypeOK'
  BY <1>1, <1>3, <1>4 DEF TypeOK
<1>6. Answers'
  <2>1. ASSUME LookUpRoot PROVE Answers'
    BY <1>1, <1>2, <2>1, RootAnswer, SuppliedCount DEF LookUpRoot, Answers, Tables, TypeOK,
       RowOK, RowShape
  <2>2. ASSUME LookUpLengths PROVE Answers'
    BY <1>1, <2>2, SuppliedCount DEF LookUpLengths, Answers, Tables, TypeOK, RowOK, RowShape
  <2>3. ASSUME LookUpFails PROVE Answers'
    BY <1>1, <2>3 DEF LookUpFails, Answers
  <2>4. ASSUME AsksNothing PROVE Answers'
    BY <1>1, <2>4, SuppliedCount DEF AsksNothing, locals, Answers, Tables, TypeOK
  <2>5. QED
    BY <2>1, <2>2, <2>3, <2>4
<1>7. Tables' /\ Untested' /\ TestsDone' /\ Balance' /\ Described' /\ Outputs'
  BY <1>1 DEF Tables, Untested, TestsDone, Balance, Program, Described, Outputs
<1>8. Reads'
  BY <1>1 DEF Reads, ReadsWhatIsSupplied, Supplied
<1>9. Reasons'
  BY <1>1 DEF LookUpRoot, LookUpLengths, LookUpFails, AsksNothing, Reasons, Reason
<1>10. QED
  BY <1>5, <1>6, <1>7, <1>8, <1>9

\* The conversion keeps the invariant.
LEMMA ConvertStep == ASSUME IInv, Convert PROVE IInv'
<1> USE DEF IInv, input
<1>1. /\ pc = "convert" /\ pc' = "test"
      /\ UNCHANGED <<routine, call, i, q_at_root, q_len, owned, q_cdesc_err, types, fault,
                     given, ierror, outs, mpi>>
      /\ given = <<>> /\ i = 1 /\ owned = {} /\ q_cdesc_err = "MPI_SUCCESS"
      /\ string' \in {"none", "held"}
      /\ DOMAIN q_type' = DOMAIN routine.bufs
  BY DEF Convert, Untested
<1>2. \A b \in DOMAIN routine.bufs :
        /\ q_type'[b] = ConvertType(b)
        /\ ConvertType(b) \in {NullType, UserType(b)}
        /\ read'[b] = Supplied(b) /\ Supplied(b) \in Nat
        /\ q_type'[b] # NullType => SignificantType(b)
  BY <1>1, SuppliedCount, RootsAgree, TypesDiffer DEF Convert, ConvertType, ReadTypes, Supplied,
     Answers, Tables, TypeOK
<1>3. TypeOK'
  BY <1>1, <1>2 DEF TypeOK
<1>4. Tables' /\ Answers' /\ Untested' /\ Balance' /\ Described' /\ Outputs'
  BY <1>1 DEF Tables, Answers, Untested, Balance, Program, Described, Outputs
<1>5. TestsDone'
  <2>1. \A b \in DOMAIN routine.bufs : ConvertType(b)' = ConvertType(b)
    BY <1>1 DEF ConvertType
  <2>2. QED
    BY <1>1, <1>2, <2>1 DEF TestsDone, Tables, RowOK, RowShape
<1>6. Reads'
  <2>1. \A b \in DOMAIN routine.bufs : /\ Supplied(b)' = Supplied(b)
                                       /\ SignificantType(b)' <=> SignificantType(b)
    BY <1>1 DEF Supplied, SignificantType
  <2>2. QED
    BY <1>1, <1>2, <2>1 DEF Reads, ReadsWhatIsSupplied
<1>7. Reasons'
  BY <1>1 DEF Reasons
<1>8. QED
  BY <1>3, <1>4, <1>5, <1>6, <1>7

\* The test of buffer i keeps the invariant, whatever it finds.
LEMMA TestSteps ==
  ASSUME IInv, WalkBuffer \/ WalkFails \/ RefuseBuffer \/ PassBuffer
  PROVE  IInv'
<1> USE DEF IInv, input
<1>1. /\ pc = "test" /\ pc' = "test" /\ i \in DOMAIN routine.bufs /\ i' = i + 1
      /\ UNCHANGED <<routine, call, q_at_root, q_len, read, string, given, ierror, outs, mpi>>
      /\ given = <<>>
  BY DEF WalkBuffer, WalkFails, RefuseBuffer, PassBuffer, Testing, TestsDone
<1>2. /\ RowOK(routine) /\ i \in 1 .. Len(routine.bufs) /\ Len(routine.bufs) \in Nat
      /\ DOMAIN routine.bufs = 1 .. Len(routine.bufs)
      /\ routine.bufs[i].class \in {"walk", "contig", "addr"}
  BY <1>1 DEF Tables, RowOK, RowShape
<1>3. \A b \in DOMAIN routine.bufs :
        /\ Guarded(b) => SignificantType(b)
        /\ Guarded(b) /\ routine.bufs[b].class = "contig" =>
             Significant(b) \/ UnsentReduction(b)
        /\ ConvertType(b) = IF SignificantType(b) THEN UserType(b) ELSE NullType
  BY <1>1, <1>2, RootsAgree DEF Answers
<1>4. \A b \in DOMAIN routine.bufs :
        /\ ConvertType(b)' = ConvertType(b) /\ Supplied(b)' = Supplied(b)
        /\ SignificantType(b)' <=> SignificantType(b)
        /\ Significant(b)' <=> Significant(b)
        /\ UnsentReduction(b)' <=> UnsentReduction(b)
        /\ Guarded(b)' <=> Guarded(b)
        /\ NotContiguous(b)' <=> NotContiguous(b)
  BY <1>1 DEF ConvertType, Supplied, SignificantType, Significant, UnsentReduction,
     Guarded, NotContiguous
<1>5. i \notin owned /\ q_type[i] = ConvertType(i)
  BY <1>1, <1>2 DEF TestsDone
<1>6. Answers' /\ Untested' /\ Described' /\ Outputs'
  BY <1>1 DEF Answers, Untested, Described, Outputs
<1>7. ASSUME WalkBuffer PROVE IInv'
  <2>1. /\ q_type' = [q_type EXCEPT ![i] = WalkedType(i)] /\ owned' = owned \cup {i}
        /\ types' = types \cup {WalkedType(i)} /\ UNCHANGED <<q_cdesc_err, fault>>
        /\ q_type[i] # NullType /\ Walks(i)
    BY <1>7 DEF WalkBuffer
  <2>2. /\ DOMAIN q_type' = DOMAIN routine.bufs /\ q_type'[i] = WalkedType(i)
        /\ \A b \in DOMAIN routine.bufs \ {i} : q_type'[b] = q_type[b]
    BY <1>1, <2>1 DEF Tables
  <2>3. TypeOK' /\ Tables'
    BY <1>1, <1>2, <2>1, <2>2 DEF TypeOK, Tables
  <2>4. TestsDone'
    BY <1>1, <1>2, <1>4, <2>1, <2>2 DEF TestsDone, Walks
  <2>5. Reads'
    BY <1>1, <1>3, <1>4, <1>5, <2>1, <2>2 DEF Reads, ReadsWhatIsSupplied
  <2>6. Reasons'
    BY <1>1, <1>4, <2>1 DEF Reasons, Reason
  <2>7. Balance'
    BY <1>1, <1>5, <2>1, <2>2 DEF Balance, Program, TestsDone
  <2>8. QED
    BY <1>6, <2>3, <2>4, <2>5, <2>6, <2>7
<1>8. ASSUME WalkFails PROVE IInv'
  <2>1. /\ UNCHANGED <<q_type, owned, types>> /\ q_cdesc_err' # "MPI_SUCCESS"
        /\ fault' = (fault \/ q_type[i] # NullType) /\ Walks(i)
    BY <1>8 DEF WalkFails
  <2>2. q_type[i] # NullType
    BY <1>1, <1>3, <1>5, <2>1, TypesDiffer DEF Walks
  <2>3. fault' = TRUE
    BY <2>1, <2>2
  <2>4. TypeOK' /\ Tables'
    BY <1>1, <1>2, <2>1, <2>3 DEF TypeOK, Tables
  <2>5. TestsDone'
    BY <1>1, <1>2, <1>4, <2>1 DEF TestsDone
  <2>6. Reads'
    BY <1>1, <1>4, <2>1 DEF Reads, ReadsWhatIsSupplied
  <2>7. Reasons' /\ Balance'
    BY <1>1, <2>1, <2>3 DEF Reasons, Reason, Balance, Program
  <2>8. QED
    BY <1>6, <2>4, <2>5, <2>6, <2>7
<1>9. ASSUME RefuseBuffer PROVE IInv'
  <2>1. /\ UNCHANGED <<q_type, owned, types, fault>> /\ q_cdesc_err' # "MPI_SUCCESS"
        /\ Refuses(i)
    BY <1>9 DEF RefuseBuffer
  <2>2. TypeOK' /\ Tables'
    BY <1>1, <1>2, <2>1 DEF TypeOK, Tables
  <2>3. TestsDone'
    BY <1>1, <1>2, <1>4, <2>1 DEF TestsDone
  <2>4. Reads'
    BY <1>1, <1>4, <2>1 DEF Reads, ReadsWhatIsSupplied
  <2>5. Reason'
    <3>1. PICK b \in DOMAIN routine.bufs :
            (Significant(b) \/ UnsentReduction(b)) /\ Refuses(b)
      BY <1>1, <1>3, <2>1 DEF Refuses
    <3>2. /\ Significant(b)' \/ UnsentReduction(b)'
          /\ routine'.bufs[b].class = "contig"
          /\ call'.layout[b] = "strided"
      BY <1>1, <1>4, <3>1 DEF Refuses, NotContiguous
    <3>3. QED
      BY <1>1, <3>2 DEF Reason
  <2>6. Reasons' /\ Balance'
    BY <1>1, <2>1, <2>5 DEF Reasons, Balance, Program
  <2>7. QED
    BY <1>6, <2>2, <2>3, <2>4, <2>6
<1>10. ASSUME PassBuffer PROVE IInv'
  <2>1. /\ UNCHANGED <<q_type, owned, types, fault, q_cdesc_err>>
        /\ ~Walks(i) /\ ~Refuses(i)
    BY <1>10 DEF PassBuffer
  <2>2. TypeOK' /\ Tables'
    BY <1>1, <1>2, <2>1 DEF TypeOK, Tables
  <2>3. TestsDone'
    BY <1>1, <1>2, <1>4, <2>1 DEF TestsDone, Walks, Refuses
  <2>4. Reads'
    BY <1>1, <1>4, <2>1 DEF Reads, ReadsWhatIsSupplied
  <2>5. Reasons' /\ Balance'
    BY <1>1, <1>4, <2>1 DEF Reasons, Reason, Balance, Program
  <2>6. QED
    BY <1>6, <2>2, <2>3, <2>4, <2>5
<1>11. QED
  BY <1>7, <1>8, <1>9, <1>10

\* Both returns after the tests keep the invariant.
LEMMA ReturnSteps == ASSUME IInv, GiveUp \/ CallMPI PROVE IInv'
<1> USE DEF IInv, input
<1>1. /\ pc = "test" /\ pc' = "returned" /\ i > Len(routine.bufs)
      /\ UNCHANGED <<routine, call, i, q_at_root, q_len, q_type, read, q_cdesc_err>>
      /\ owned' = {} /\ types' = types \ {q_type[b] : b \in owned}
      /\ string' \in {"none", "freed"} /\ given = <<>>
  BY DEF GiveUp, CallMPI, Tested, FreeTemporaries, TypeOK, TestsDone
<1>2. /\ RowOK(routine) /\ Len(routine.bufs) \in Nat
      /\ DOMAIN routine.bufs = 1 .. Len(routine.bufs)
      /\ \A b \in DOMAIN routine.bufs : b < i
  BY <1>1 DEF TypeOK, Tables, RowOK, RowShape
<1>3. \A b \in DOMAIN routine.bufs :
        /\ ConvertType(b)' = ConvertType(b) /\ Supplied(b)' = Supplied(b)
        /\ SignificantType(b)' <=> SignificantType(b)
        /\ Significant(b)' <=> Significant(b)
        /\ UnsentReduction(b)' <=> UnsentReduction(b)
        /\ Guarded(b)' <=> Guarded(b)
        /\ NotContiguous(b)' <=> NotContiguous(b)
  BY <1>1 DEF ConvertType, Supplied, SignificantType, Significant, UnsentReduction,
     Guarded, NotContiguous
<1>4. types' = Program
  BY <1>1, TypesDiffer DEF Balance, Program
<1>5. Balance' /\ Untested' /\ TestsDone' /\ Tables'
  BY <1>1, <1>4 DEF Balance, Program, Untested, TestsDone, Tables
<1>6. Answers'
  BY <1>1 DEF Answers
<1>7. Reads'
  BY <1>1, <1>3 DEF Reads, ReadsWhatIsSupplied
<1>8. ASSUME GiveUp PROVE IInv'
  <2>1. UNCHANGED <<fault, given, outs, mpi>> /\ q_cdesc_err # "MPI_SUCCESS"
    BY <1>8 DEF GiveUp
  <2>2. TypeOK' /\ Described' /\ Outputs'
    BY <1>1, <1>4, <2>1 DEF TypeOK, Program, Described, Outputs
  <2>3. Reasons'
    BY <1>1, <1>3, <2>1 DEF Reasons, Reason
  <2>4. QED
    BY <1>5, <1>6, <1>7, <2>2, <2>3
<1>9. ASSUME CallMPI PROVE IInv'
  <2>1. /\ given' = q_type /\ q_cdesc_err = "MPI_SUCCESS" /\ fault' \in BOOLEAN
        /\ ierror' # "MPI_SUCCESS" => fault'
        /\ DOMAIN mpi' = routine.outs /\ DOMAIN outs' = routine.outs
        /\ \A o \in routine.outs : outs'[o] = IF mpi'[o] = "live" THEN "live" ELSE "null"
    BY <1>9 DEF CallMPI, WriteOutputs, Accepted, TypeOK
  <2>2. TypeOK'
    BY <1>1, <1>4, <2>1 DEF TypeOK, Program, Tables
  <2>3. Described'
    BY <1>1, <1>2, <1>3, <2>1 DEF Described, TestsDone
  <2>4. Outputs' /\ Reasons'
    BY <1>1, <2>1 DEF Outputs, Reasons, Reason
  <2>5. QED
    BY <1>5, <1>6, <1>7, <2>2, <2>3, <2>4
<1>10. QED
  BY <1>8, <1>9

\* Every step preserves the inductive invariant.
LEMMA StepPreserves == IInv /\ [Next]_vars => IInv'
<1> SUFFICES ASSUME IInv, [Next]_vars PROVE IInv'
  OBVIOUS
<1>1. CASE UNCHANGED vars
  BY <1>1 DEF vars, input, locals, IInv, TypeOK, Tables, Answers, Untested, TestsDone, Reads,
     ReadsWhatIsSupplied, Reasons, Reason, Balance, Program, Described, Outputs, Supplied,
     SignificantType, Significant, UnsentReduction, ConvertType, Guarded, NotContiguous
<1>2. QED
  BY <1>1, LookUpSteps, ConvertStep, TestSteps, ReturnSteps DEF Next, Returned

\* The inductive invariant holds throughout.
LEMMA Invariance == Spec => []IInv
BY InitEstablishes, StepPreserves, PTL DEF Spec

-----------------------------------------------------------------------------
(* The theorems *)

\* On every way out of any entry point the datatypes are those the program had,
\* and the copied string is freed.
THEOREM TypesAreBalanced == Spec => []TypesBalanced
<1>1. IInv => TypesBalanced
  BY DEF IInv, Balance, Program, TypesBalanced
<1>2. QED
  BY <1>1, Invariance, PTL

\* Whatever the communicator, group or topology, an entry point reads of the
\* program's datatypes what the program supplies, and no more.
THEOREM ReadsAreSupplied == Spec => []ReadsWhatIsSupplied
<1>1. IInv => ReadsWhatIsSupplied
  BY DEF IInv, Reads
<1>2. QED
  BY <1>1, Invariance, PTL

\* An entry point refuses a call because MPI failed, or over an array section
\* it cannot take in a buffer that takes part in the call on this process; the
\* one buffer that takes no part and is refused is the send buffer of a
\* reduction in the root's group of an intercommunicator.
THEOREM RefusalsHaveReasons == Spec => []RefusedForAReason
<1>1. IInv => RefusedForAReason
  BY DEF IInv, Reasons, Reason, RefusedForAReason
<1>2. QED
  BY <1>1, Invariance, PTL

\* The output handles of a returned call say what MPI holds.
THEOREM OutputsAreTruthful == Spec => []OutputsTruthful
<1>1. IInv => OutputsTruthful
  BY DEF IInv, Outputs, OutputsTruthful
<1>2. QED
  BY <1>1, Invariance, PTL

\* Every entry point but that of MPI_Scatterv_init describes to MPI every
\* section that is significant on its process.
THEOREM SectionsAreDescribed ==
  MPI_Scatterv_init \notin Routines => (Spec => []SectionDescribed)
<1> SUFFICES ASSUME MPI_Scatterv_init \notin Routines PROVE Spec => []SectionDescribed
  OBVIOUS
<1>1. IInv => SectionDescribed
  <2> SUFFICES ASSUME IInv, given # <<>>, NEW b \in DOMAIN routine.bufs, Significant(b),
                      routine.bufs[b].class # "addr"
               PROVE  given[b] = IF call.layout[b] = "strided" THEN WalkedType(b)
                                                               ELSE UserType(b)
    BY DEF SectionDescribed
  <2>1. routine # MPI_Scatterv_init
    BY DEF IInv, TypeOK
  <2>2. Guarded(b) /\ ConvertType(b) = UserType(b)
    BY <2>1, RootsAgree DEF IInv, Tables, Answers
  <2>3. QED
    BY <2>2 DEF IInv, Described, NotContiguous
<1>2. QED
  BY <1>1, Invariance, PTL
=============================================================================

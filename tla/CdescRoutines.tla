--------------------------- MODULE CdescRoutines ----------------------------
(***************************************************************************)
(* The cdesc entry points of gen/mpif_f08_cdesc.c, one definition per MPI  *)
(* routine.  A routine has up to four entries there (mpi_ and pmpi_ names, *)
(* small and large counts) that differ in the MPI function they call and   *)
(* the width of their counts only.  A definition says what an entry does   *)
(* with its arguments; CdescEntry says what that means.                    *)
(*                                                                         *)
(* MPI_F_sync_reg, whose entry is empty, is left out.                      *)
(***************************************************************************)

\* A choice buffer: its class, whether the class's test is made at the root
\* only, and whether its datatype is converted at the root only (and is
\* MPI_DATATYPE_NULL elsewhere).
Buffer(class) == [class |-> class, test_at_root |-> FALSE, type_at_root |-> FALSE]

\* Described by a datatype of its own when it is not contiguous.
Walk == Buffer("walk")

\* Refused when it is not contiguous.
Contig == Buffer("contig")

\* Its address is passed on, whatever the layout.
Addr == Buffer("addr")

AtRoot(b) == [b EXCEPT !.test_at_root = TRUE, !.type_at_root = TRUE]
CheckedAtRoot(b) == [b EXCEPT !.test_at_root = TRUE]

\* A routine: its name, its buffers, the handles it returns or changes, the
\* datatype arrays it converts (one element per group member or neighbor),
\* and whether it makes a C copy of a string.
Entry(name, bufs, outs) ==
  [name |-> name, bufs |-> bufs, outs |-> outs, arrays |-> "none",
   string |-> FALSE]

Call(name, bufs)         == Entry(name, bufs, {})
Start(name, bufs)        == Entry(name, bufs, {"request"})
Receive(name, bufs)      == Entry(name, bufs, {"message"})
StartReceive(name, bufs) == Entry(name, bufs, {"message", "request"})
CreateWin(name, bufs)    == Entry(name, bufs, {"win"})

PerMember(e)   == [e EXCEPT !.arrays = "members"]
PerNeighbor(e) == [e EXCEPT !.arrays = "neighbors"]
WithString(e)  == [e EXCEPT !.string = TRUE]

-----------------------------------------------------------------------------

MPI_Accumulate == Call("MPI_Accumulate", <<Walk>>)
MPI_Allgather == Call("MPI_Allgather", <<Walk, Walk>>)
MPI_Allgather_init == Start("MPI_Allgather_init", <<Walk, Walk>>)
MPI_Allgatherv == Call("MPI_Allgatherv", <<Walk, Contig>>)
MPI_Allgatherv_init == Start("MPI_Allgatherv_init", <<Walk, Contig>>)
MPI_Allreduce == Call("MPI_Allreduce", <<Contig, Contig>>)
MPI_Allreduce_init == Start("MPI_Allreduce_init", <<Contig, Contig>>)
MPI_Alltoall == Call("MPI_Alltoall", <<Walk, Walk>>)
MPI_Alltoall_init == Start("MPI_Alltoall_init", <<Walk, Walk>>)
MPI_Alltoallv == Call("MPI_Alltoallv", <<Contig, Contig>>)
MPI_Alltoallv_init == Start("MPI_Alltoallv_init", <<Contig, Contig>>)
MPI_Alltoallw == PerMember(Call("MPI_Alltoallw", <<Contig, Contig>>))
MPI_Alltoallw_init ==
  PerMember(Start("MPI_Alltoallw_init", <<Contig, Contig>>))
MPI_Bcast == Call("MPI_Bcast", <<Walk>>)
MPI_Bcast_init == Start("MPI_Bcast_init", <<Walk>>)
MPI_Bsend == Call("MPI_Bsend", <<Walk>>)
MPI_Bsend_init == Start("MPI_Bsend_init", <<Walk>>)
MPI_Buffer_attach == Call("MPI_Buffer_attach", <<Addr>>)
MPI_Comm_attach_buffer == Call("MPI_Comm_attach_buffer", <<Addr>>)
MPI_Compare_and_swap == Call("MPI_Compare_and_swap", <<Addr, Addr, Addr>>)
MPI_Exscan == Call("MPI_Exscan", <<Contig, Contig>>)
MPI_Exscan_init == Start("MPI_Exscan_init", <<Contig, Contig>>)
MPI_Fetch_and_op == Call("MPI_Fetch_and_op", <<Addr, Addr>>)
MPI_File_iread == Start("MPI_File_iread", <<Walk>>)
MPI_File_iread_all == Start("MPI_File_iread_all", <<Walk>>)
MPI_File_iread_at == Start("MPI_File_iread_at", <<Walk>>)
MPI_File_iread_at_all == Start("MPI_File_iread_at_all", <<Walk>>)
MPI_File_iread_shared == Start("MPI_File_iread_shared", <<Walk>>)
MPI_File_iwrite == Start("MPI_File_iwrite", <<Walk>>)
MPI_File_iwrite_all == Start("MPI_File_iwrite_all", <<Walk>>)
MPI_File_iwrite_at == Start("MPI_File_iwrite_at", <<Walk>>)
MPI_File_iwrite_at_all == Start("MPI_File_iwrite_at_all", <<Walk>>)
MPI_File_iwrite_shared == Start("MPI_File_iwrite_shared", <<Walk>>)
MPI_File_read == Call("MPI_File_read", <<Walk>>)
MPI_File_read_all == Call("MPI_File_read_all", <<Walk>>)
MPI_File_read_all_begin == Call("MPI_File_read_all_begin", <<Walk>>)
MPI_File_read_all_end == Call("MPI_File_read_all_end", <<Addr>>)
MPI_File_read_at == Call("MPI_File_read_at", <<Walk>>)
MPI_File_read_at_all == Call("MPI_File_read_at_all", <<Walk>>)
MPI_File_read_at_all_begin == Call("MPI_File_read_at_all_begin", <<Walk>>)
MPI_File_read_at_all_end == Call("MPI_File_read_at_all_end", <<Addr>>)
MPI_File_read_ordered == Call("MPI_File_read_ordered", <<Walk>>)
MPI_File_read_ordered_begin == Call("MPI_File_read_ordered_begin", <<Walk>>)
MPI_File_read_ordered_end == Call("MPI_File_read_ordered_end", <<Addr>>)
MPI_File_read_shared == Call("MPI_File_read_shared", <<Walk>>)
MPI_File_write == Call("MPI_File_write", <<Walk>>)
MPI_File_write_all == Call("MPI_File_write_all", <<Walk>>)
MPI_File_write_all_begin == Call("MPI_File_write_all_begin", <<Walk>>)
MPI_File_write_all_end == Call("MPI_File_write_all_end", <<Addr>>)
MPI_File_write_at == Call("MPI_File_write_at", <<Walk>>)
MPI_File_write_at_all == Call("MPI_File_write_at_all", <<Walk>>)
MPI_File_write_at_all_begin == Call("MPI_File_write_at_all_begin", <<Walk>>)
MPI_File_write_at_all_end == Call("MPI_File_write_at_all_end", <<Addr>>)
MPI_File_write_ordered == Call("MPI_File_write_ordered", <<Walk>>)
MPI_File_write_ordered_begin == Call("MPI_File_write_ordered_begin", <<Walk>>)
MPI_File_write_ordered_end == Call("MPI_File_write_ordered_end", <<Addr>>)
MPI_File_write_shared == Call("MPI_File_write_shared", <<Walk>>)
MPI_Free_mem == Call("MPI_Free_mem", <<Addr>>)
MPI_Gather == Call("MPI_Gather", <<Walk, AtRoot(Walk)>>)
MPI_Gather_init == Start("MPI_Gather_init", <<Walk, AtRoot(Walk)>>)
MPI_Gatherv == Call("MPI_Gatherv", <<Walk, AtRoot(Contig)>>)
MPI_Gatherv_init == Start("MPI_Gatherv_init", <<Walk, AtRoot(Contig)>>)
MPI_Get == Call("MPI_Get", <<Walk>>)
MPI_Get_accumulate == Call("MPI_Get_accumulate", <<Walk, Walk>>)
MPI_Get_address == Call("MPI_Get_address", <<Addr>>)
MPI_Iallgather == Start("MPI_Iallgather", <<Walk, Walk>>)
MPI_Iallgatherv == Start("MPI_Iallgatherv", <<Walk, Contig>>)
MPI_Iallreduce == Start("MPI_Iallreduce", <<Contig, Contig>>)
MPI_Ialltoall == Start("MPI_Ialltoall", <<Walk, Walk>>)
MPI_Ialltoallv == Start("MPI_Ialltoallv", <<Contig, Contig>>)
MPI_Ialltoallw == PerMember(Start("MPI_Ialltoallw", <<Contig, Contig>>))
MPI_Ibcast == Start("MPI_Ibcast", <<Walk>>)
MPI_Ibsend == Start("MPI_Ibsend", <<Walk>>)
MPI_Iexscan == Start("MPI_Iexscan", <<Contig, Contig>>)
MPI_Igather == Start("MPI_Igather", <<Walk, AtRoot(Walk)>>)
MPI_Igatherv == Start("MPI_Igatherv", <<Walk, AtRoot(Contig)>>)
MPI_Imrecv == StartReceive("MPI_Imrecv", <<Walk>>)
MPI_Ineighbor_allgather == Start("MPI_Ineighbor_allgather", <<Walk, Walk>>)
MPI_Ineighbor_allgatherv == Start("MPI_Ineighbor_allgatherv", <<Walk, Contig>>)
MPI_Ineighbor_alltoall == Start("MPI_Ineighbor_alltoall", <<Walk, Walk>>)
MPI_Ineighbor_alltoallv == Start("MPI_Ineighbor_alltoallv", <<Contig, Contig>>)
MPI_Ineighbor_alltoallw ==
  PerNeighbor(Start("MPI_Ineighbor_alltoallw", <<Contig, Contig>>))
MPI_Irecv == Start("MPI_Irecv", <<Walk>>)
MPI_Ireduce == Start("MPI_Ireduce", <<Contig, CheckedAtRoot(Contig)>>)
MPI_Ireduce_scatter == Start("MPI_Ireduce_scatter", <<Contig, Contig>>)
MPI_Ireduce_scatter_block ==
  Start("MPI_Ireduce_scatter_block", <<Contig, Contig>>)
MPI_Irsend == Start("MPI_Irsend", <<Walk>>)
MPI_Iscan == Start("MPI_Iscan", <<Contig, Contig>>)
MPI_Iscatter == Start("MPI_Iscatter", <<AtRoot(Walk), Walk>>)
MPI_Iscatterv == Start("MPI_Iscatterv", <<AtRoot(Contig), Walk>>)
MPI_Isend == Start("MPI_Isend", <<Walk>>)
MPI_Isendrecv == Start("MPI_Isendrecv", <<Walk, Walk>>)
MPI_Isendrecv_replace == Start("MPI_Isendrecv_replace", <<Walk>>)
MPI_Issend == Start("MPI_Issend", <<Walk>>)
MPI_Mrecv == Receive("MPI_Mrecv", <<Walk>>)
MPI_Neighbor_allgather == Call("MPI_Neighbor_allgather", <<Walk, Walk>>)
MPI_Neighbor_allgather_init ==
  Start("MPI_Neighbor_allgather_init", <<Walk, Walk>>)
MPI_Neighbor_allgatherv == Call("MPI_Neighbor_allgatherv", <<Walk, Contig>>)
MPI_Neighbor_allgatherv_init ==
  Start("MPI_Neighbor_allgatherv_init", <<Walk, Contig>>)
MPI_Neighbor_alltoall == Call("MPI_Neighbor_alltoall", <<Walk, Walk>>)
MPI_Neighbor_alltoall_init ==
  Start("MPI_Neighbor_alltoall_init", <<Walk, Walk>>)
MPI_Neighbor_alltoallv == Call("MPI_Neighbor_alltoallv", <<Contig, Contig>>)
MPI_Neighbor_alltoallv_init ==
  Start("MPI_Neighbor_alltoallv_init", <<Contig, Contig>>)
MPI_Neighbor_alltoallw ==
  PerNeighbor(Call("MPI_Neighbor_alltoallw", <<Contig, Contig>>))
MPI_Neighbor_alltoallw_init ==
  PerNeighbor(Start("MPI_Neighbor_alltoallw_init", <<Contig, Contig>>))
MPI_Pack == Call("MPI_Pack", <<Walk, Contig>>)
MPI_Pack_external == WithString(Call("MPI_Pack_external", <<Walk, Contig>>))
MPI_Precv_init == Start("MPI_Precv_init", <<Contig>>)
MPI_Psend_init == Start("MPI_Psend_init", <<Contig>>)
MPI_Put == Call("MPI_Put", <<Walk>>)
MPI_Raccumulate == Start("MPI_Raccumulate", <<Walk>>)
MPI_Recv == Call("MPI_Recv", <<Walk>>)
MPI_Recv_init == Start("MPI_Recv_init", <<Walk>>)
MPI_Reduce == Call("MPI_Reduce", <<Contig, CheckedAtRoot(Contig)>>)
MPI_Reduce_init == Start("MPI_Reduce_init", <<Contig, CheckedAtRoot(Contig)>>)
MPI_Reduce_local == Call("MPI_Reduce_local", <<Contig, Contig>>)
MPI_Reduce_scatter == Call("MPI_Reduce_scatter", <<Contig, Contig>>)
MPI_Reduce_scatter_block ==
  Call("MPI_Reduce_scatter_block", <<Contig, Contig>>)
MPI_Reduce_scatter_block_init ==
  Start("MPI_Reduce_scatter_block_init", <<Contig, Contig>>)
MPI_Reduce_scatter_init == Start("MPI_Reduce_scatter_init", <<Contig, Contig>>)
MPI_Rget == Start("MPI_Rget", <<Walk>>)
MPI_Rget_accumulate == Start("MPI_Rget_accumulate", <<Walk, Walk>>)
MPI_Rput == Start("MPI_Rput", <<Walk>>)
MPI_Rsend == Call("MPI_Rsend", <<Walk>>)
MPI_Rsend_init == Start("MPI_Rsend_init", <<Walk>>)
MPI_Scan == Call("MPI_Scan", <<Contig, Contig>>)
MPI_Scan_init == Start("MPI_Scan_init", <<Contig, Contig>>)
MPI_Scatter == Call("MPI_Scatter", <<AtRoot(Walk), Walk>>)
MPI_Scatter_init == Start("MPI_Scatter_init", <<AtRoot(Walk), Walk>>)
MPI_Scatterv == Call("MPI_Scatterv", <<AtRoot(Contig), Walk>>)
MPI_Scatterv_init ==
  Start("MPI_Scatterv_init", <<AtRoot(Contig), CheckedAtRoot(Walk)>>)
MPI_Send == Call("MPI_Send", <<Walk>>)
MPI_Send_init == Start("MPI_Send_init", <<Walk>>)
MPI_Sendrecv == Call("MPI_Sendrecv", <<Walk, Walk>>)
MPI_Sendrecv_replace == Call("MPI_Sendrecv_replace", <<Walk>>)
MPI_Session_attach_buffer == Call("MPI_Session_attach_buffer", <<Addr>>)
MPI_Ssend == Call("MPI_Ssend", <<Walk>>)
MPI_Ssend_init == Start("MPI_Ssend_init", <<Walk>>)
MPI_Unpack == Call("MPI_Unpack", <<Contig, Walk>>)
MPI_Unpack_external ==
  WithString(Call("MPI_Unpack_external", <<Contig, Walk>>))
MPI_Win_attach == Call("MPI_Win_attach", <<Addr>>)
MPI_Win_create == CreateWin("MPI_Win_create", <<Addr>>)
MPI_Win_detach == Call("MPI_Win_detach", <<Addr>>)

CdescRoutines ==
  {MPI_Accumulate, MPI_Allgather, MPI_Allgather_init, MPI_Allgatherv,
   MPI_Allgatherv_init, MPI_Allreduce, MPI_Allreduce_init, MPI_Alltoall,
   MPI_Alltoall_init, MPI_Alltoallv, MPI_Alltoallv_init, MPI_Alltoallw,
   MPI_Alltoallw_init, MPI_Bcast, MPI_Bcast_init, MPI_Bsend, MPI_Bsend_init,
   MPI_Buffer_attach, MPI_Comm_attach_buffer, MPI_Compare_and_swap, MPI_Exscan,
   MPI_Exscan_init, MPI_Fetch_and_op, MPI_File_iread, MPI_File_iread_all,
   MPI_File_iread_at, MPI_File_iread_at_all, MPI_File_iread_shared,
   MPI_File_iwrite, MPI_File_iwrite_all, MPI_File_iwrite_at,
   MPI_File_iwrite_at_all, MPI_File_iwrite_shared, MPI_File_read,
   MPI_File_read_all, MPI_File_read_all_begin, MPI_File_read_all_end,
   MPI_File_read_at, MPI_File_read_at_all, MPI_File_read_at_all_begin,
   MPI_File_read_at_all_end, MPI_File_read_ordered,
   MPI_File_read_ordered_begin, MPI_File_read_ordered_end,
   MPI_File_read_shared, MPI_File_write, MPI_File_write_all,
   MPI_File_write_all_begin, MPI_File_write_all_end, MPI_File_write_at,
   MPI_File_write_at_all, MPI_File_write_at_all_begin,
   MPI_File_write_at_all_end, MPI_File_write_ordered,
   MPI_File_write_ordered_begin, MPI_File_write_ordered_end,
   MPI_File_write_shared, MPI_Free_mem, MPI_Gather, MPI_Gather_init,
   MPI_Gatherv, MPI_Gatherv_init, MPI_Get, MPI_Get_accumulate, MPI_Get_address,
   MPI_Iallgather, MPI_Iallgatherv, MPI_Iallreduce, MPI_Ialltoall,
   MPI_Ialltoallv, MPI_Ialltoallw, MPI_Ibcast, MPI_Ibsend, MPI_Iexscan,
   MPI_Igather, MPI_Igatherv, MPI_Imrecv, MPI_Ineighbor_allgather,
   MPI_Ineighbor_allgatherv, MPI_Ineighbor_alltoall, MPI_Ineighbor_alltoallv,
   MPI_Ineighbor_alltoallw, MPI_Irecv, MPI_Ireduce, MPI_Ireduce_scatter,
   MPI_Ireduce_scatter_block, MPI_Irsend, MPI_Iscan, MPI_Iscatter,
   MPI_Iscatterv, MPI_Isend, MPI_Isendrecv, MPI_Isendrecv_replace, MPI_Issend,
   MPI_Mrecv, MPI_Neighbor_allgather, MPI_Neighbor_allgather_init,
   MPI_Neighbor_allgatherv, MPI_Neighbor_allgatherv_init,
   MPI_Neighbor_alltoall, MPI_Neighbor_alltoall_init, MPI_Neighbor_alltoallv,
   MPI_Neighbor_alltoallv_init, MPI_Neighbor_alltoallw,
   MPI_Neighbor_alltoallw_init, MPI_Pack, MPI_Pack_external, MPI_Precv_init,
   MPI_Psend_init, MPI_Put, MPI_Raccumulate, MPI_Recv, MPI_Recv_init,
   MPI_Reduce, MPI_Reduce_init, MPI_Reduce_local, MPI_Reduce_scatter,
   MPI_Reduce_scatter_block, MPI_Reduce_scatter_block_init,
   MPI_Reduce_scatter_init, MPI_Rget, MPI_Rget_accumulate, MPI_Rput, MPI_Rsend,
   MPI_Rsend_init, MPI_Scan, MPI_Scan_init, MPI_Scatter, MPI_Scatter_init,
   MPI_Scatterv, MPI_Scatterv_init, MPI_Send, MPI_Send_init, MPI_Sendrecv,
   MPI_Sendrecv_replace, MPI_Session_attach_buffer, MPI_Ssend, MPI_Ssend_init,
   MPI_Unpack, MPI_Unpack_external, MPI_Win_attach, MPI_Win_create,
   MPI_Win_detach}
=============================================================================

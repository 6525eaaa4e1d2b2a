-------------------------- MODULE TransferRoutines --------------------------
(***************************************************************************)
(* The entry points of gen/mpif_functions.c that hand MPI a buffer, a      *)
(* status or an array of requests: communication, one-sided access, file   *)
(* transfer, packing, completion.  One definition per routine; Crossings   *)
(* says how to read them.                                                  *)
(***************************************************************************)
EXTENDS Crossings

MPI_Accumulate == Call("MPI_Accumulate", <<Buffer>>)
MPI_Allgather == Call("MPI_Allgather", <<Buffer, Buffer>>)
MPI_Allgather_init == Call("MPI_Allgather_init", <<Buffer, Buffer, New>>)
MPI_Allgatherv == Call("MPI_Allgatherv", <<Buffer, Buffer>>)
MPI_Allgatherv_init == Call("MPI_Allgatherv_init", <<Buffer, Buffer, New>>)
MPI_Allreduce == Call("MPI_Allreduce", <<Buffer, Buffer>>)
MPI_Allreduce_init == Call("MPI_Allreduce_init", <<Buffer, Buffer, New>>)
MPI_Alltoall == Call("MPI_Alltoall", <<Buffer, Buffer>>)
MPI_Alltoall_init == Call("MPI_Alltoall_init", <<Buffer, Buffer, New>>)
MPI_Alltoallv == Call("MPI_Alltoallv", <<Buffer, Buffer>>)
MPI_Alltoallv_init == Call("MPI_Alltoallv_init", <<Buffer, Buffer, New>>)
MPI_Alltoallw ==
  GroupCall("MPI_Alltoallw", <<Buffer, SendTypes, Buffer, RecvTypes>>)
MPI_Alltoallw_init ==
  GroupCall("MPI_Alltoallw_init",
    <<Buffer, SendTypes, Buffer, RecvTypes, New>>)
MPI_Bcast == Call("MPI_Bcast", <<Buffer>>)
MPI_Bcast_init == Call("MPI_Bcast_init", <<Buffer, New>>)
MPI_Bsend == Call("MPI_Bsend", <<Buffer>>)
MPI_Bsend_init == Call("MPI_Bsend_init", <<Buffer, New>>)
MPI_Buffer_attach == Call("MPI_Buffer_attach", <<Buffer>>)
MPI_Buffer_detach == Call("MPI_Buffer_detach", <<Detached>>)
MPI_Buffer_iflush == Call("MPI_Buffer_iflush", <<New>>)
MPI_Comm_attach_buffer == Call("MPI_Comm_attach_buffer", <<Buffer>>)
MPI_Compare_and_swap ==
  Call("MPI_Compare_and_swap", <<Buffer, Buffer, Buffer>>)
MPI_Exscan == Call("MPI_Exscan", <<Buffer, Buffer>>)
MPI_Exscan_init == Call("MPI_Exscan_init", <<Buffer, Buffer, New>>)
MPI_Fetch_and_op == Call("MPI_Fetch_and_op", <<Buffer, Buffer>>)
MPI_File_iread == Call("MPI_File_iread", <<Buffer, New>>)
MPI_File_iread_all == Call("MPI_File_iread_all", <<Buffer, New>>)
MPI_File_iread_at == Call("MPI_File_iread_at", <<Buffer, New>>)
MPI_File_iread_at_all == Call("MPI_File_iread_at_all", <<Buffer, New>>)
MPI_File_iread_shared == Call("MPI_File_iread_shared", <<Buffer, New>>)
MPI_File_iwrite == Call("MPI_File_iwrite", <<Buffer, New>>)
MPI_File_iwrite_all == Call("MPI_File_iwrite_all", <<Buffer, New>>)
MPI_File_iwrite_at == Call("MPI_File_iwrite_at", <<Buffer, New>>)
MPI_File_iwrite_at_all == Call("MPI_File_iwrite_at_all", <<Buffer, New>>)
MPI_File_iwrite_shared == Call("MPI_File_iwrite_shared", <<Buffer, New>>)
MPI_File_read == Call("MPI_File_read", <<Buffer, Status>>)
MPI_File_read_all == Call("MPI_File_read_all", <<Buffer, Status>>)
MPI_File_read_all_begin == Call("MPI_File_read_all_begin", <<Buffer>>)
MPI_File_read_all_end == Call("MPI_File_read_all_end", <<Buffer, Status>>)
MPI_File_read_at == Call("MPI_File_read_at", <<Buffer, Status>>)
MPI_File_read_at_all == Call("MPI_File_read_at_all", <<Buffer, Status>>)
MPI_File_read_at_all_begin == Call("MPI_File_read_at_all_begin", <<Buffer>>)
MPI_File_read_at_all_end ==
  Call("MPI_File_read_at_all_end", <<Buffer, Status>>)
MPI_File_read_ordered == Call("MPI_File_read_ordered", <<Buffer, Status>>)
MPI_File_read_ordered_begin == Call("MPI_File_read_ordered_begin", <<Buffer>>)
MPI_File_read_ordered_end ==
  Call("MPI_File_read_ordered_end", <<Buffer, Status>>)
MPI_File_read_shared == Call("MPI_File_read_shared", <<Buffer, Status>>)
MPI_File_write == Call("MPI_File_write", <<Buffer, Status>>)
MPI_File_write_all == Call("MPI_File_write_all", <<Buffer, Status>>)
MPI_File_write_all_begin == Call("MPI_File_write_all_begin", <<Buffer>>)
MPI_File_write_all_end == Call("MPI_File_write_all_end", <<Buffer, Status>>)
MPI_File_write_at == Call("MPI_File_write_at", <<Buffer, Status>>)
MPI_File_write_at_all == Call("MPI_File_write_at_all", <<Buffer, Status>>)
MPI_File_write_at_all_begin == Call("MPI_File_write_at_all_begin", <<Buffer>>)
MPI_File_write_at_all_end ==
  Call("MPI_File_write_at_all_end", <<Buffer, Status>>)
MPI_File_write_ordered == Call("MPI_File_write_ordered", <<Buffer, Status>>)
MPI_File_write_ordered_begin ==
  Call("MPI_File_write_ordered_begin", <<Buffer>>)
MPI_File_write_ordered_end ==
  Call("MPI_File_write_ordered_end", <<Buffer, Status>>)
MPI_File_write_shared == Call("MPI_File_write_shared", <<Buffer, Status>>)
MPI_Free_mem == Call("MPI_Free_mem", <<Buffer>>)
MPI_Gather == RootedCall("MPI_Gather", <<Buffer, Buffer, AtRoot(Handle)>>)
MPI_Gather_init ==
  RootedCall("MPI_Gather_init", <<Buffer, Buffer, AtRoot(Handle), New>>)
MPI_Gatherv == RootedCall("MPI_Gatherv", <<Buffer, Buffer, AtRoot(Handle)>>)
MPI_Gatherv_init ==
  RootedCall("MPI_Gatherv_init", <<Buffer, Buffer, AtRoot(Handle), New>>)
MPI_Get == Call("MPI_Get", <<Buffer>>)
MPI_Get_accumulate == Call("MPI_Get_accumulate", <<Buffer, Buffer>>)
MPI_Get_address == Call("MPI_Get_address", <<Buffer>>)
MPI_Get_count == Call("MPI_Get_count", <<Status>>)
MPI_Get_elements == Call("MPI_Get_elements", <<Status>>)
MPI_Get_elements_x == Call("MPI_Get_elements_x", <<Status>>)
MPI_Iallgather == Call("MPI_Iallgather", <<Buffer, Buffer, New>>)
MPI_Iallgatherv == Call("MPI_Iallgatherv", <<Buffer, Buffer, New>>)
MPI_Iallreduce == Call("MPI_Iallreduce", <<Buffer, Buffer, New>>)
MPI_Ialltoall == Call("MPI_Ialltoall", <<Buffer, Buffer, New>>)
MPI_Ialltoallv == Call("MPI_Ialltoallv", <<Buffer, Buffer, New>>)
MPI_Ialltoallw ==
  GroupCall("MPI_Ialltoallw", <<Buffer, SendTypes, Buffer, RecvTypes, New>>)
MPI_Ibcast == Call("MPI_Ibcast", <<Buffer, New>>)
MPI_Ibsend == Call("MPI_Ibsend", <<Buffer, New>>)
MPI_Iexscan == Call("MPI_Iexscan", <<Buffer, Buffer, New>>)
MPI_Igather ==
  RootedCall("MPI_Igather", <<Buffer, Buffer, AtRoot(Handle), New>>)
MPI_Igatherv ==
  RootedCall("MPI_Igatherv", <<Buffer, Buffer, AtRoot(Handle), New>>)
MPI_Improbe == Call("MPI_Improbe", <<Flag, New, Status>>)
MPI_Imrecv == Call("MPI_Imrecv", <<Buffer, InOut, New>>)
MPI_Ineighbor_allgather ==
  Call("MPI_Ineighbor_allgather", <<Buffer, Buffer, New>>)
MPI_Ineighbor_allgatherv ==
  Call("MPI_Ineighbor_allgatherv", <<Buffer, Buffer, New>>)
MPI_Ineighbor_alltoall ==
  Call("MPI_Ineighbor_alltoall", <<Buffer, Buffer, New>>)
MPI_Ineighbor_alltoallv ==
  Call("MPI_Ineighbor_alltoallv", <<Buffer, Buffer, New>>)
MPI_Ineighbor_alltoallw ==
  NeighborCall("MPI_Ineighbor_alltoallw",
    <<Buffer, SendTypes, Buffer, RecvTypes, New>>)
MPI_Iprobe == Call("MPI_Iprobe", <<Flag, Status>>)
MPI_Irecv == Call("MPI_Irecv", <<Buffer, New>>)
MPI_Ireduce == Call("MPI_Ireduce", <<Buffer, Buffer, New>>)
MPI_Ireduce_scatter == Call("MPI_Ireduce_scatter", <<Buffer, Buffer, New>>)
MPI_Ireduce_scatter_block ==
  Call("MPI_Ireduce_scatter_block", <<Buffer, Buffer, New>>)
MPI_Irsend == Call("MPI_Irsend", <<Buffer, New>>)
MPI_Iscan == Call("MPI_Iscan", <<Buffer, Buffer, New>>)
MPI_Iscatter ==
  RootedCall("MPI_Iscatter", <<Buffer, AtRoot(Handle), Buffer, New>>)
MPI_Iscatterv ==
  RootedCall("MPI_Iscatterv", <<Buffer, AtRoot(Handle), Buffer, New>>)
MPI_Isend == Call("MPI_Isend", <<Buffer, New>>)
MPI_Isendrecv == Call("MPI_Isendrecv", <<Buffer, Buffer, New>>)
MPI_Isendrecv_replace == Call("MPI_Isendrecv_replace", <<Buffer, New>>)
MPI_Issend == Call("MPI_Issend", <<Buffer, New>>)
MPI_Mprobe == Call("MPI_Mprobe", <<New, Status>>)
MPI_Mrecv == Call("MPI_Mrecv", <<Buffer, InOut, Status>>)
MPI_Neighbor_allgather == Call("MPI_Neighbor_allgather", <<Buffer, Buffer>>)
MPI_Neighbor_allgather_init ==
  Call("MPI_Neighbor_allgather_init", <<Buffer, Buffer, New>>)
MPI_Neighbor_allgatherv == Call("MPI_Neighbor_allgatherv", <<Buffer, Buffer>>)
MPI_Neighbor_allgatherv_init ==
  Call("MPI_Neighbor_allgatherv_init", <<Buffer, Buffer, New>>)
MPI_Neighbor_alltoall == Call("MPI_Neighbor_alltoall", <<Buffer, Buffer>>)
MPI_Neighbor_alltoall_init ==
  Call("MPI_Neighbor_alltoall_init", <<Buffer, Buffer, New>>)
MPI_Neighbor_alltoallv == Call("MPI_Neighbor_alltoallv", <<Buffer, Buffer>>)
MPI_Neighbor_alltoallv_init ==
  Call("MPI_Neighbor_alltoallv_init", <<Buffer, Buffer, New>>)
MPI_Neighbor_alltoallw ==
  NeighborCall("MPI_Neighbor_alltoallw",
    <<Buffer, SendTypes, Buffer, RecvTypes>>)
MPI_Neighbor_alltoallw_init ==
  NeighborCall("MPI_Neighbor_alltoallw_init",
    <<Buffer, SendTypes, Buffer, RecvTypes, New>>)
MPI_Pack == Call("MPI_Pack", <<Buffer, Buffer>>)
MPI_Pack_external == Call("MPI_Pack_external", <<String, Buffer, Buffer>>)
MPI_Precv_init == Call("MPI_Precv_init", <<Buffer, New>>)
MPI_Probe == Call("MPI_Probe", <<Status>>)
MPI_Psend_init == Call("MPI_Psend_init", <<Buffer, New>>)
MPI_Put == Call("MPI_Put", <<Buffer>>)
MPI_Raccumulate == Call("MPI_Raccumulate", <<Buffer, New>>)
MPI_Recv == Call("MPI_Recv", <<Buffer, Status>>)
MPI_Recv_init == Call("MPI_Recv_init", <<Buffer, New>>)
MPI_Reduce == Call("MPI_Reduce", <<Buffer, Buffer>>)
MPI_Reduce_init == Call("MPI_Reduce_init", <<Buffer, Buffer, New>>)
MPI_Reduce_local == Call("MPI_Reduce_local", <<Buffer, Buffer>>)
MPI_Reduce_scatter == Call("MPI_Reduce_scatter", <<Buffer, Buffer>>)
MPI_Reduce_scatter_block ==
  Call("MPI_Reduce_scatter_block", <<Buffer, Buffer>>)
MPI_Reduce_scatter_block_init ==
  Call("MPI_Reduce_scatter_block_init", <<Buffer, Buffer, New>>)
MPI_Reduce_scatter_init ==
  Call("MPI_Reduce_scatter_init", <<Buffer, Buffer, New>>)
MPI_Request_get_status == Call("MPI_Request_get_status", <<Flag, Status>>)
MPI_Request_get_status_all ==
  Call("MPI_Request_get_status_all", <<RequestsIn, Flag, Status>>)
MPI_Request_get_status_any ==
  Call("MPI_Request_get_status_any", <<RequestsIn, Index, Flag, Status>>)
MPI_Request_get_status_some ==
  Call("MPI_Request_get_status_some", <<RequestsIn, Indices, Status>>)
MPI_Rget == Call("MPI_Rget", <<Buffer, New>>)
MPI_Rget_accumulate == Call("MPI_Rget_accumulate", <<Buffer, Buffer, New>>)
MPI_Rput == Call("MPI_Rput", <<Buffer, New>>)
MPI_Rsend == Call("MPI_Rsend", <<Buffer>>)
MPI_Rsend_init == Call("MPI_Rsend_init", <<Buffer, New>>)
MPI_Scan == Call("MPI_Scan", <<Buffer, Buffer>>)
MPI_Scan_init == Call("MPI_Scan_init", <<Buffer, Buffer, New>>)
MPI_Scatter == RootedCall("MPI_Scatter", <<Buffer, AtRoot(Handle), Buffer>>)
MPI_Scatter_init ==
  RootedCall("MPI_Scatter_init", <<Buffer, AtRoot(Handle), Buffer, New>>)
MPI_Scatterv == RootedCall("MPI_Scatterv", <<Buffer, AtRoot(Handle), Buffer>>)
MPI_Scatterv_init ==
  RootedCall("MPI_Scatterv_init", <<Buffer, AtRoot(Handle), Buffer, New>>)
MPI_Send == Call("MPI_Send", <<Buffer>>)
MPI_Send_init == Call("MPI_Send_init", <<Buffer, New>>)
MPI_Sendrecv == Call("MPI_Sendrecv", <<Buffer, Buffer, Status>>)
MPI_Sendrecv_replace == Call("MPI_Sendrecv_replace", <<Buffer, Status>>)
MPI_Session_attach_buffer == Call("MPI_Session_attach_buffer", <<Buffer>>)
MPI_Ssend == Call("MPI_Ssend", <<Buffer>>)
MPI_Ssend_init == Call("MPI_Ssend_init", <<Buffer, New>>)
MPI_Startall == Call("MPI_Startall", <<Requests>>)
MPI_Status_get_error == Call("MPI_Status_get_error", <<Status>>)
MPI_Status_get_source == Call("MPI_Status_get_source", <<Status>>)
MPI_Status_get_tag == Call("MPI_Status_get_tag", <<Status>>)
MPI_Status_set_cancelled ==
  Call("MPI_Status_set_cancelled", <<Status, Logical>>)
MPI_Status_set_elements == Call("MPI_Status_set_elements", <<Status>>)
MPI_Status_set_elements_x == Call("MPI_Status_set_elements_x", <<Status>>)
MPI_Status_set_error == Call("MPI_Status_set_error", <<Status>>)
MPI_Status_set_source == Call("MPI_Status_set_source", <<Status>>)
MPI_Status_set_tag == Call("MPI_Status_set_tag", <<Status>>)
MPI_Test == Call("MPI_Test", <<InOut, Flag, Status>>)
MPI_Test_cancelled == Call("MPI_Test_cancelled", <<Status, Flag>>)
MPI_Testall == Call("MPI_Testall", <<Requests, Flag, Status>>)
MPI_Testany == Call("MPI_Testany", <<Requests, Index, Flag, Status>>)
MPI_Testsome == Call("MPI_Testsome", <<Requests, Indices, Status>>)
MPI_Unpack == Call("MPI_Unpack", <<Buffer, Buffer>>)
MPI_Unpack_external == Call("MPI_Unpack_external", <<String, Buffer, Buffer>>)
MPI_Wait == Call("MPI_Wait", <<InOut, Status>>)
MPI_Waitall == Call("MPI_Waitall", <<Requests, Status>>)
MPI_Waitany == Call("MPI_Waitany", <<Requests, Index, Status>>)
MPI_Waitsome == Call("MPI_Waitsome", <<Requests, Indices, Status>>)
MPI_Win_attach == Call("MPI_Win_attach", <<Buffer>>)
MPI_Win_create == Call("MPI_Win_create", <<Buffer, New>>)
MPI_Win_detach == Call("MPI_Win_detach", <<Buffer>>)

TransferRoutines ==
  {MPI_Accumulate, MPI_Allgather, MPI_Allgather_init, MPI_Allgatherv,
   MPI_Allgatherv_init, MPI_Allreduce, MPI_Allreduce_init, MPI_Alltoall,
   MPI_Alltoall_init, MPI_Alltoallv, MPI_Alltoallv_init, MPI_Alltoallw,
   MPI_Alltoallw_init, MPI_Bcast, MPI_Bcast_init, MPI_Bsend, MPI_Bsend_init,
   MPI_Buffer_attach, MPI_Buffer_detach, MPI_Buffer_iflush,
   MPI_Comm_attach_buffer, MPI_Compare_and_swap, MPI_Exscan, MPI_Exscan_init,
   MPI_Fetch_and_op, MPI_File_iread, MPI_File_iread_all, MPI_File_iread_at,
   MPI_File_iread_at_all, MPI_File_iread_shared, MPI_File_iwrite,
   MPI_File_iwrite_all, MPI_File_iwrite_at, MPI_File_iwrite_at_all,
   MPI_File_iwrite_shared, MPI_File_read, MPI_File_read_all,
   MPI_File_read_all_begin, MPI_File_read_all_end, MPI_File_read_at,
   MPI_File_read_at_all, MPI_File_read_at_all_begin, MPI_File_read_at_all_end,
   MPI_File_read_ordered, MPI_File_read_ordered_begin,
   MPI_File_read_ordered_end, MPI_File_read_shared, MPI_File_write,
   MPI_File_write_all, MPI_File_write_all_begin, MPI_File_write_all_end,
   MPI_File_write_at, MPI_File_write_at_all, MPI_File_write_at_all_begin,
   MPI_File_write_at_all_end, MPI_File_write_ordered,
   MPI_File_write_ordered_begin, MPI_File_write_ordered_end,
   MPI_File_write_shared, MPI_Free_mem, MPI_Gather, MPI_Gather_init,
   MPI_Gatherv, MPI_Gatherv_init, MPI_Get, MPI_Get_accumulate, MPI_Get_address,
   MPI_Get_count, MPI_Get_elements, MPI_Get_elements_x, MPI_Iallgather,
   MPI_Iallgatherv, MPI_Iallreduce, MPI_Ialltoall, MPI_Ialltoallv,
   MPI_Ialltoallw, MPI_Ibcast, MPI_Ibsend, MPI_Iexscan, MPI_Igather,
   MPI_Igatherv, MPI_Improbe, MPI_Imrecv, MPI_Ineighbor_allgather,
   MPI_Ineighbor_allgatherv, MPI_Ineighbor_alltoall, MPI_Ineighbor_alltoallv,
   MPI_Ineighbor_alltoallw, MPI_Iprobe, MPI_Irecv, MPI_Ireduce,
   MPI_Ireduce_scatter, MPI_Ireduce_scatter_block, MPI_Irsend, MPI_Iscan,
   MPI_Iscatter, MPI_Iscatterv, MPI_Isend, MPI_Isendrecv,
   MPI_Isendrecv_replace, MPI_Issend, MPI_Mprobe, MPI_Mrecv,
   MPI_Neighbor_allgather, MPI_Neighbor_allgather_init,
   MPI_Neighbor_allgatherv, MPI_Neighbor_allgatherv_init,
   MPI_Neighbor_alltoall, MPI_Neighbor_alltoall_init, MPI_Neighbor_alltoallv,
   MPI_Neighbor_alltoallv_init, MPI_Neighbor_alltoallw,
   MPI_Neighbor_alltoallw_init, MPI_Pack, MPI_Pack_external, MPI_Precv_init,
   MPI_Probe, MPI_Psend_init, MPI_Put, MPI_Raccumulate, MPI_Recv,
   MPI_Recv_init, MPI_Reduce, MPI_Reduce_init, MPI_Reduce_local,
   MPI_Reduce_scatter, MPI_Reduce_scatter_block, MPI_Reduce_scatter_block_init,
   MPI_Reduce_scatter_init, MPI_Request_get_status, MPI_Request_get_status_all,
   MPI_Request_get_status_any, MPI_Request_get_status_some, MPI_Rget,
   MPI_Rget_accumulate, MPI_Rput, MPI_Rsend, MPI_Rsend_init, MPI_Scan,
   MPI_Scan_init, MPI_Scatter, MPI_Scatter_init, MPI_Scatterv,
   MPI_Scatterv_init, MPI_Send, MPI_Send_init, MPI_Sendrecv,
   MPI_Sendrecv_replace, MPI_Session_attach_buffer, MPI_Ssend, MPI_Ssend_init,
   MPI_Startall, MPI_Status_get_error, MPI_Status_get_source,
   MPI_Status_get_tag, MPI_Status_set_cancelled, MPI_Status_set_elements,
   MPI_Status_set_elements_x, MPI_Status_set_error, MPI_Status_set_source,
   MPI_Status_set_tag, MPI_Test, MPI_Test_cancelled, MPI_Testall, MPI_Testany,
   MPI_Testsome, MPI_Unpack, MPI_Unpack_external, MPI_Wait, MPI_Waitall,
   MPI_Waitany, MPI_Waitsome, MPI_Win_attach, MPI_Win_create, MPI_Win_detach}
=============================================================================

--------------------------- MODULE WrapperProofs ----------------------------
(***************************************************************************)
(* Theorems about Wrapper, for communicators, arrays and strings of any    *)
(* size and any set of the routines of the two tables.  The first half     *)
(* says what all rows of the tables have in common, the second follows one *)
(* call from its arguments to its results.                                 *)
(***************************************************************************)
EXTENDS Wrapper, FiniteSetTheorems, WellFoundedInduction, TLAPS

-----------------------------------------------------------------------------
(* The tables *)

Kinds ==
  {"buffer", "status", "weights", "errcodes", "handle", "new", "inout", "send_types",
   "recv_types", "logical", "flag", "string", "trimmed", "argv", "argvs", "commands",
   "text", "caller_text", "text_if_flag", "bounded", "bounded_if_flag", "requests",
   "requests_in", "index", "indices", "attribute", "detached"}

\* Crossings of these kinds in one routine are of one kind.
Alike(args, kinds) ==
  \A j, k \in DOMAIN args :
    args[j].kind \in kinds /\ args[k].kind \in kinds => args[j].kind = args[k].kind

\* The crossings of a routine: an array of send types follows its buffer; strings
\* are read in one way and returned in one way, under a flag only if there is one;
\* and there is one form of positions.
ArgsOK(args) ==
  /\ Len(args) \in Nat /\ DOMAIN args = 1 .. Len(args)
  /\ \A k \in DOMAIN args :
       /\ args[k].kind \in Kinds
       /\ args[k].kind = "send_types" => k = 2 /\ args[1].kind = "buffer"
       /\ args[k].kind \in {"text_if_flag", "bounded_if_flag"} =>
            \E j \in DOMAIN args : args[j].kind = "flag"
  /\ Alike(args, StringKinds) /\ Alike(args, TextKinds)
  /\ Alike(args, {"index", "indices"}) /\ Alike(args, {"detached", "requests"})

\* What is read at the root only is what the standard calls significant there.
RootsOK(r) ==
  /\ r.name \in RootOnlyNames <=> r.lookup = "root"
  /\ \A k \in DOMAIN r.args :
       /\ r.args[k].at_root <=>
            /\ r.name \in RootOnlyNames
            /\ r.args[k].kind \in {"handle"} \cup StringKinds
       /\ r.args[k].kind \in VectorKinds => r.name \in RootOnlyNames

RowOK(r) ==
  /\ ArgsOK(r.args) /\ RootsOK(r)
  /\ r.lookup \in {"none", "root", "members", "neighbors", "dims"}

\* The constants of Crossings.
LEMMA CrossingKinds ==
  /\ Buffer.kind = "buffer" /\ ~Buffer.at_root
  /\ Status.kind = "status" /\ ~Status.at_root
  /\ Weights.kind = "weights" /\ ~Weights.at_root
  /\ Errcodes.kind = "errcodes" /\ ~Errcodes.at_root
  /\ Handle.kind = "handle" /\ ~Handle.at_root
  /\ New.kind = "new" /\ ~New.at_root
  /\ InOut.kind = "inout" /\ ~InOut.at_root
  /\ SendTypes.kind = "send_types" /\ ~SendTypes.at_root
  /\ RecvTypes.kind = "recv_types" /\ ~RecvTypes.at_root
  /\ Logical.kind = "logical" /\ ~Logical.at_root
  /\ Flag.kind = "flag" /\ ~Flag.at_root
  /\ String.kind = "string" /\ ~String.at_root
  /\ Trimmed.kind = "trimmed" /\ ~Trimmed.at_root
  /\ Argv.kind = "argv" /\ ~Argv.at_root
  /\ Argvs.kind = "argvs" /\ ~Argvs.at_root
  /\ Commands.kind = "commands" /\ ~Commands.at_root
  /\ Text.kind = "text" /\ ~Text.at_root
  /\ CallerText.kind = "caller_text" /\ ~CallerText.at_root
  /\ TextIfFlag.kind = "text_if_flag" /\ ~TextIfFlag.at_root
  /\ Bounded.kind = "bounded" /\ ~Bounded.at_root
  /\ BoundedIfFlag.kind = "bounded_if_flag" /\ ~BoundedIfFlag.at_root
  /\ Requests.kind = "requests" /\ ~Requests.at_root
  /\ RequestsIn.kind = "requests_in" /\ ~RequestsIn.at_root
  /\ Index.kind = "index" /\ ~Index.at_root
  /\ Indices.kind = "indices" /\ ~Indices.at_root
  /\ Attribute.kind = "attribute" /\ ~Attribute.at_root
  /\ Detached.kind = "detached" /\ ~Detached.at_root
BY DEF Buffer, Status, Weights, Errcodes, Handle, New, InOut, SendTypes, RecvTypes, Logical,
   Flag, String, Trimmed, Argv, Argvs, Commands, Text, CallerText, TextIfFlag,
   Bounded, BoundedIfFlag, Requests, RequestsIn, Index, Indices, Attribute, Detached,
   Crossing

\* The rows of crossings of the routines without a root, and of those with one.
PlainArgs ==
  {<<Attribute, Flag>>, <<Bounded>>, <<Buffer>>, <<Buffer, Buffer>>,
   <<Buffer, Buffer, Buffer>>, <<Buffer, Buffer, New>>, <<Buffer, Buffer, Status>>,
   <<Buffer, InOut, New>>, <<Buffer, InOut, Status>>, <<Buffer, New>>,
   <<Buffer, SendTypes, Buffer, RecvTypes>>,
   <<Buffer, SendTypes, Buffer, RecvTypes, New>>, <<Buffer, Status>>, <<CallerText>>,
   <<Detached>>, <<Flag>>, <<Flag, New, Status>>, <<Flag, Status>>, <<Handle, New>>,
   <<InOut>>, <<InOut, Flag, Status>>, <<InOut, Status>>, <<Logical>>,
   <<Logical, Logical, New>>, <<Logical, New>>, <<New>>, <<New, New>>,
   <<New, New, CallerText>>, <<New, Status>>, <<Requests>>,
   <<Requests, Flag, Status>>, <<Requests, Index, Flag, Status>>,
   <<Requests, Index, Status>>, <<Requests, Indices, Status>>, <<Requests, Status>>,
   <<RequestsIn, Flag, Status>>, <<RequestsIn, Index, Flag, Status>>,
   <<RequestsIn, Indices, Status>>, <<Status>>, <<Status, Flag>>, <<Status, Logical>>,
   <<String>>, <<String, Buffer, Buffer>>, <<String, New>>, <<String, String>>,
   <<String, Text>>, <<Text>>, <<Trimmed>>, <<Trimmed, BoundedIfFlag, Flag>>,
   <<Trimmed, Flag>>, <<Trimmed, TextIfFlag, Flag>>, <<Trimmed, Trimmed>>,
   <<Weights, Logical, New>>, <<Weights, Weights>>,
   <<Weights, Weights, Logical, New>>}
RootArgs ==
  {<<Buffer, Buffer, AtRoot(Handle)>>, <<Buffer, Buffer, AtRoot(Handle), New>>,
   <<Buffer, AtRoot(Handle), Buffer, New>>, <<Buffer, AtRoot(Handle), Buffer>>,
   <<AtRoot(String), AtRoot(Handle), New>>,
   <<AtRoot(Trimmed), Argv, AtRoot(Handle), New, Errcodes>>,
   <<Commands, Argvs, AtRoot(Handle), New, Errcodes>>}

\* Every row of crossings is in order.
LEMMA PlainArgsOK ==
  \A a \in PlainArgs :
    ArgsOK(a) /\ \A k \in DOMAIN a : ~a[k].at_root /\ a[k].kind \notin VectorKinds
<1> USE CrossingKinds DEF PlainArgs
<1>1. \A a \in PlainArgs : Len(a) \in Nat /\ DOMAIN a = 1 .. Len(a)
  OBVIOUS
<1>2. \A a \in PlainArgs : \A k \in DOMAIN a :
        ~a[k].at_root /\ a[k].kind \in Kinds \ VectorKinds
  BY DEF Kinds, VectorKinds
<1>3. \A a \in PlainArgs : \A k \in DOMAIN a :
        a[k].kind = "send_types" => k = 2 /\ a[1].kind = "buffer"
  OBVIOUS
<1>4. \A a \in PlainArgs : \A k \in DOMAIN a :
        a[k].kind \in {"text_if_flag", "bounded_if_flag"} =>
          \E j \in DOMAIN a : a[j].kind = "flag"
  OBVIOUS
<1>5. \A a \in PlainArgs : Alike(a, StringKinds)
  BY DEF Alike, StringKinds
<1>6. \A a \in PlainArgs : Alike(a, TextKinds)
  BY DEF Alike, TextKinds
<1>7. \A a \in PlainArgs : Alike(a, {"index", "indices"})
  BY DEF Alike
<1>8. \A a \in PlainArgs : Alike(a, {"detached", "requests"})
  BY DEF Alike
<1> HIDE CrossingKinds DEF PlainArgs
<1>9. QED
  BY <1>1, <1>2, <1>3, <1>4, <1>5, <1>6, <1>7, <1>8 DEF ArgsOK

\* So are those of the routines with a root, in which handles and strings, and
\* nothing else, are read at the root only.
LEMMA RootArgsOK ==
  \A a \in RootArgs :
    /\ ArgsOK(a)
    /\ \A k \in DOMAIN a : a[k].at_root <=> a[k].kind \in {"handle"} \cup StringKinds
<1>1. /\ AtRoot(String).kind = "string" /\ AtRoot(String).at_root
      /\ AtRoot(Trimmed).kind = "trimmed" /\ AtRoot(Trimmed).at_root
      /\ AtRoot(Handle).kind = "handle" /\ AtRoot(Handle).at_root
  BY DEF AtRoot, String, Trimmed, Handle, Crossing
<1> USE <1>1, CrossingKinds DEF RootArgs
<1>2. \A a \in RootArgs : Len(a) \in Nat /\ DOMAIN a = 1 .. Len(a)
  OBVIOUS
<1>3. \A a \in RootArgs : \A k \in DOMAIN a : a[k].kind \in Kinds
  BY DEF Kinds
<1>4. \A a \in RootArgs : \A k \in DOMAIN a :
        a[k].at_root <=> a[k].kind \in {"handle"} \cup StringKinds
  BY DEF StringKinds
<1>5. \A a \in RootArgs : \A k \in DOMAIN a :
        a[k].kind \notin {"send_types", "text_if_flag", "bounded_if_flag"}
  OBVIOUS
<1>6. \A a \in RootArgs : Alike(a, StringKinds)
  BY DEF Alike, StringKinds
<1>7. \A a \in RootArgs : Alike(a, TextKinds)
  BY DEF Alike, TextKinds
<1>8. \A a \in RootArgs : Alike(a, {"index", "indices"}) /\ Alike(a, {"detached", "requests"})
  BY DEF Alike
<1> HIDE <1>1, CrossingKinds DEF RootArgs
<1>9. QED
  BY <1>2, <1>3, <1>4, <1>5, <1>6, <1>7, <1>8 DEF ArgsOK

\* A routine without a root.
LEMMA PlainRow ==
  ASSUME NEW r, r.args \in PlainArgs, r.name \notin RootOnlyNames,
         r.lookup \in {"none", "members", "neighbors", "dims"}
  PROVE  RowOK(r)
BY PlainArgsOK DEF RowOK, RootsOK

\* A routine with a root.
LEMMA RootRow ==
  ASSUME NEW r, r.args \in RootArgs, r.name \in RootOnlyNames, r.lookup = "root"
  PROVE  RowOK(r)
BY RootArgsOK DEF RowOK, RootsOK

\* Every routine's row is in order.
LEMMA TableOK == \A r \in WrapperRoutines : RowOK(r)
<1> USE DEF Call, RootedCall, GroupCall, NeighborCall, DimsCall, Routine,
            RootOnlyNames, GatherNames, ScatterNames
<1>1. \A r \in {MPI_Accumulate, MPI_Allgather, MPI_Allgather_init, MPI_Allgatherv,
                 MPI_Allgatherv_init, MPI_Allreduce, MPI_Allreduce_init,
                 MPI_Alltoall, MPI_Alltoall_init, MPI_Alltoallv,
                 MPI_Alltoallv_init, MPI_Alltoallw, MPI_Alltoallw_init,
                 MPI_Bcast, MPI_Bcast_init, MPI_Bsend} : RowOK(r)
  BY PlainRow DEF PlainArgs,
     MPI_Accumulate, MPI_Allgather, MPI_Allgather_init, MPI_Allgatherv,
     MPI_Allgatherv_init, MPI_Allreduce, MPI_Allreduce_init, MPI_Alltoall,
     MPI_Alltoall_init, MPI_Alltoallv, MPI_Alltoallv_init, MPI_Alltoallw,
     MPI_Alltoallw_init, MPI_Bcast, MPI_Bcast_init, MPI_Bsend
<1>2. \A r \in {MPI_Bsend_init, MPI_Buffer_attach, MPI_Buffer_detach, MPI_Buffer_iflush,
                 MPI_Comm_attach_buffer, MPI_Compare_and_swap, MPI_Exscan,
                 MPI_Exscan_init, MPI_Fetch_and_op, MPI_File_iread,
                 MPI_File_iread_all, MPI_File_iread_at, MPI_File_iread_at_all,
                 MPI_File_iread_shared, MPI_File_iwrite,
                 MPI_File_iwrite_all} : RowOK(r)
  BY PlainRow DEF PlainArgs,
     MPI_Bsend_init, MPI_Buffer_attach, MPI_Buffer_detach, MPI_Buffer_iflush,
     MPI_Comm_attach_buffer, MPI_Compare_and_swap, MPI_Exscan, MPI_Exscan_init,
     MPI_Fetch_and_op, MPI_File_iread, MPI_File_iread_all, MPI_File_iread_at,
     MPI_File_iread_at_all, MPI_File_iread_shared, MPI_File_iwrite,
     MPI_File_iwrite_all
<1>3. \A r \in {MPI_File_iwrite_at, MPI_File_iwrite_at_all, MPI_File_iwrite_shared,
                 MPI_File_read, MPI_File_read_all, MPI_File_read_all_begin,
                 MPI_File_read_all_end, MPI_File_read_at,
                 MPI_File_read_at_all, MPI_File_read_at_all_begin,
                 MPI_File_read_at_all_end, MPI_File_read_ordered,
                 MPI_File_read_ordered_begin, MPI_File_read_ordered_end,
                 MPI_File_read_shared, MPI_File_write} : RowOK(r)
  BY PlainRow DEF PlainArgs,
     MPI_File_iwrite_at, MPI_File_iwrite_at_all, MPI_File_iwrite_shared,
     MPI_File_read, MPI_File_read_all, MPI_File_read_all_begin,
     MPI_File_read_all_end, MPI_File_read_at, MPI_File_read_at_all,
     MPI_File_read_at_all_begin, MPI_File_read_at_all_end, MPI_File_read_ordered,
     MPI_File_read_ordered_begin, MPI_File_read_ordered_end, MPI_File_read_shared,
     MPI_File_write
<1>4. \A r \in {MPI_File_write_all, MPI_File_write_all_begin, MPI_File_write_all_end,
                 MPI_File_write_at, MPI_File_write_at_all,
                 MPI_File_write_at_all_begin, MPI_File_write_at_all_end,
                 MPI_File_write_ordered, MPI_File_write_ordered_begin,
                 MPI_File_write_ordered_end, MPI_File_write_shared,
                 MPI_Free_mem, MPI_Get, MPI_Get_accumulate, MPI_Get_address,
                 MPI_Get_count} : RowOK(r)
  BY PlainRow DEF PlainArgs,
     MPI_File_write_all, MPI_File_write_all_begin, MPI_File_write_all_end,
     MPI_File_write_at, MPI_File_write_at_all, MPI_File_write_at_all_begin,
     MPI_File_write_at_all_end, MPI_File_write_ordered,
     MPI_File_write_ordered_begin, MPI_File_write_ordered_end,
     MPI_File_write_shared, MPI_Free_mem, MPI_Get, MPI_Get_accumulate,
     MPI_Get_address, MPI_Get_count
<1>5. \A r \in {MPI_Get_elements, MPI_Get_elements_x, MPI_Iallgather, MPI_Iallgatherv,
                 MPI_Iallreduce, MPI_Ialltoall, MPI_Ialltoallv,
                 MPI_Ialltoallw, MPI_Ibcast, MPI_Ibsend, MPI_Iexscan,
                 MPI_Improbe, MPI_Imrecv, MPI_Ineighbor_allgather,
                 MPI_Ineighbor_allgatherv, MPI_Ineighbor_alltoall} : RowOK(r)
  BY PlainRow DEF PlainArgs,
     MPI_Get_elements, MPI_Get_elements_x, MPI_Iallgather, MPI_Iallgatherv,
     MPI_Iallreduce, MPI_Ialltoall, MPI_Ialltoallv, MPI_Ialltoallw, MPI_Ibcast,
     MPI_Ibsend, MPI_Iexscan, MPI_Improbe, MPI_Imrecv, MPI_Ineighbor_allgather,
     MPI_Ineighbor_allgatherv, MPI_Ineighbor_alltoall
<1>6. \A r \in {MPI_Ineighbor_alltoallv, MPI_Ineighbor_alltoallw, MPI_Iprobe, MPI_Irecv,
                 MPI_Ireduce, MPI_Ireduce_scatter, MPI_Ireduce_scatter_block,
                 MPI_Irsend, MPI_Iscan, MPI_Isend, MPI_Isendrecv,
                 MPI_Isendrecv_replace, MPI_Issend, MPI_Mprobe, MPI_Mrecv,
                 MPI_Neighbor_allgather} : RowOK(r)
  BY PlainRow DEF PlainArgs,
     MPI_Ineighbor_alltoallv, MPI_Ineighbor_alltoallw, MPI_Iprobe, MPI_Irecv,
     MPI_Ireduce, MPI_Ireduce_scatter, MPI_Ireduce_scatter_block, MPI_Irsend,
     MPI_Iscan, MPI_Isend, MPI_Isendrecv, MPI_Isendrecv_replace, MPI_Issend,
     MPI_Mprobe, MPI_Mrecv, MPI_Neighbor_allgather
<1>7. \A r \in {MPI_Neighbor_allgather_init, MPI_Neighbor_allgatherv,
                 MPI_Neighbor_allgatherv_init, MPI_Neighbor_alltoall,
                 MPI_Neighbor_alltoall_init, MPI_Neighbor_alltoallv,
                 MPI_Neighbor_alltoallv_init, MPI_Neighbor_alltoallw,
                 MPI_Neighbor_alltoallw_init, MPI_Pack, MPI_Pack_external,
                 MPI_Precv_init, MPI_Probe, MPI_Psend_init, MPI_Put,
                 MPI_Raccumulate} : RowOK(r)
  BY PlainRow DEF PlainArgs,
     MPI_Neighbor_allgather_init, MPI_Neighbor_allgatherv,
     MPI_Neighbor_allgatherv_init, MPI_Neighbor_alltoall,
     MPI_Neighbor_alltoall_init, MPI_Neighbor_alltoallv,
     MPI_Neighbor_alltoallv_init, MPI_Neighbor_alltoallw,
     MPI_Neighbor_alltoallw_init, MPI_Pack, MPI_Pack_external, MPI_Precv_init,
     MPI_Probe, MPI_Psend_init, MPI_Put, MPI_Raccumulate
<1>8. \A r \in {MPI_Recv, MPI_Recv_init, MPI_Reduce, MPI_Reduce_init, MPI_Reduce_local,
                 MPI_Reduce_scatter, MPI_Reduce_scatter_block,
                 MPI_Reduce_scatter_block_init, MPI_Reduce_scatter_init,
                 MPI_Request_get_status, MPI_Request_get_status_all,
                 MPI_Request_get_status_any, MPI_Request_get_status_some,
                 MPI_Rget, MPI_Rget_accumulate, MPI_Rput} : RowOK(r)
  BY PlainRow DEF PlainArgs,
     MPI_Recv, MPI_Recv_init, MPI_Reduce, MPI_Reduce_init, MPI_Reduce_local,
     MPI_Reduce_scatter, MPI_Reduce_scatter_block, MPI_Reduce_scatter_block_init,
     MPI_Reduce_scatter_init, MPI_Request_get_status, MPI_Request_get_status_all,
     MPI_Request_get_status_any, MPI_Request_get_status_some, MPI_Rget,
     MPI_Rget_accumulate, MPI_Rput
<1>9. \A r \in {MPI_Rsend, MPI_Rsend_init, MPI_Scan, MPI_Scan_init, MPI_Send, MPI_Send_init,
                 MPI_Sendrecv, MPI_Sendrecv_replace,
                 MPI_Session_attach_buffer, MPI_Ssend, MPI_Ssend_init,
                 MPI_Startall, MPI_Status_get_error, MPI_Status_get_source,
                 MPI_Status_get_tag, MPI_Status_set_cancelled} : RowOK(r)
  BY PlainRow DEF PlainArgs,
     MPI_Rsend, MPI_Rsend_init, MPI_Scan, MPI_Scan_init, MPI_Send, MPI_Send_init,
     MPI_Sendrecv, MPI_Sendrecv_replace, MPI_Session_attach_buffer, MPI_Ssend,
     MPI_Ssend_init, MPI_Startall, MPI_Status_get_error, MPI_Status_get_source,
     MPI_Status_get_tag, MPI_Status_set_cancelled
<1>10. \A r \in {MPI_Status_set_elements, MPI_Status_set_elements_x, MPI_Status_set_error,
                 MPI_Status_set_source, MPI_Status_set_tag, MPI_Test,
                 MPI_Test_cancelled, MPI_Testall, MPI_Testany, MPI_Testsome,
                 MPI_Unpack, MPI_Unpack_external, MPI_Wait, MPI_Waitall,
                 MPI_Waitany, MPI_Waitsome} : RowOK(r)
  BY PlainRow DEF PlainArgs,
     MPI_Status_set_elements, MPI_Status_set_elements_x, MPI_Status_set_error,
     MPI_Status_set_source, MPI_Status_set_tag, MPI_Test, MPI_Test_cancelled,
     MPI_Testall, MPI_Testany, MPI_Testsome, MPI_Unpack, MPI_Unpack_external,
     MPI_Wait, MPI_Waitall, MPI_Waitany, MPI_Waitsome
<1>11. \A r \in {MPI_Win_attach, MPI_Win_create, MPI_Win_detach, MPI_Abi_get_fortran_booleans,
                 MPI_Abi_get_fortran_info, MPI_Abi_get_info,
                 MPI_Add_error_string, MPI_Attr_get, MPI_Barrier_init,
                 MPI_Cancel, MPI_Cart_create, MPI_Cart_map, MPI_Cart_sub,
                 MPI_Close_port, MPI_Comm_create,
                 MPI_Comm_create_from_group} : RowOK(r)
  BY PlainRow DEF PlainArgs,
     MPI_Win_attach, MPI_Win_create, MPI_Win_detach, MPI_Abi_get_fortran_booleans,
     MPI_Abi_get_fortran_info, MPI_Abi_get_info, MPI_Add_error_string, MPI_Attr_get,
     MPI_Barrier_init, MPI_Cancel, MPI_Cart_create, MPI_Cart_map, MPI_Cart_sub,
     MPI_Close_port, MPI_Comm_create, MPI_Comm_create_from_group
<1>12. \A r \in {MPI_Comm_create_group, MPI_Comm_detach_buffer, MPI_Comm_disconnect,
                 MPI_Comm_dup, MPI_Comm_dup_with_info, MPI_Comm_free,
                 MPI_Comm_get_attr, MPI_Comm_get_errhandler,
                 MPI_Comm_get_info, MPI_Comm_get_name, MPI_Comm_get_parent,
                 MPI_Comm_group, MPI_Comm_idup, MPI_Comm_idup_with_info,
                 MPI_Comm_iflush_buffer, MPI_Comm_join} : RowOK(r)
  BY PlainRow DEF PlainArgs,
     MPI_Comm_create_group, MPI_Comm_detach_buffer, MPI_Comm_disconnect,
     MPI_Comm_dup, MPI_Comm_dup_with_info, MPI_Comm_free, MPI_Comm_get_attr,
     MPI_Comm_get_errhandler, MPI_Comm_get_info, MPI_Comm_get_name,
     MPI_Comm_get_parent, MPI_Comm_group, MPI_Comm_idup, MPI_Comm_idup_with_info,
     MPI_Comm_iflush_buffer, MPI_Comm_join
<1>13. \A r \in {MPI_Comm_remote_group, MPI_Comm_set_name, MPI_Comm_split,
                 MPI_Comm_split_type, MPI_Comm_test_inter,
                 MPI_Dist_graph_create, MPI_Dist_graph_create_adjacent,
                 MPI_Dist_graph_neighbors, MPI_Dist_graph_neighbors_count,
                 MPI_Errhandler_free, MPI_Error_string, MPI_File_close,
                 MPI_File_delete, MPI_File_get_atomicity,
                 MPI_File_get_errhandler, MPI_File_get_group} : RowOK(r)
  BY PlainRow DEF PlainArgs,
     MPI_Comm_remote_group, MPI_Comm_set_name, MPI_Comm_split, MPI_Comm_split_type,
     MPI_Comm_test_inter, MPI_Dist_graph_create, MPI_Dist_graph_create_adjacent,
     MPI_Dist_graph_neighbors, MPI_Dist_graph_neighbors_count, MPI_Errhandler_free,
     MPI_Error_string, MPI_File_close, MPI_File_delete, MPI_File_get_atomicity,
     MPI_File_get_errhandler, MPI_File_get_group
<1>14. \A r \in {MPI_File_get_info, MPI_File_get_view, MPI_File_open, MPI_File_set_atomicity,
                 MPI_File_set_view, MPI_Finalized, MPI_Get_hw_resource_info,
                 MPI_Get_library_version, MPI_Get_processor_name,
                 MPI_Graph_create, MPI_Group_difference, MPI_Group_excl,
                 MPI_Group_free, MPI_Group_from_session_pset, MPI_Group_incl,
                 MPI_Group_intersection} : RowOK(r)
  BY PlainRow DEF PlainArgs,
     MPI_File_get_info, MPI_File_get_view, MPI_File_open, MPI_File_set_atomicity,
     MPI_File_set_view, MPI_Finalized, MPI_Get_hw_resource_info,
     MPI_Get_library_version, MPI_Get_processor_name, MPI_Graph_create,
     MPI_Group_difference, MPI_Group_excl, MPI_Group_free,
     MPI_Group_from_session_pset, MPI_Group_incl, MPI_Group_intersection
<1>15. \A r \in {MPI_Group_range_excl, MPI_Group_range_incl, MPI_Group_union, MPI_Ibarrier,
                 MPI_Info_create, MPI_Info_create_env, MPI_Info_delete,
                 MPI_Info_dup, MPI_Info_free, MPI_Info_get,
                 MPI_Info_get_nthkey, MPI_Info_get_string,
                 MPI_Info_get_valuelen, MPI_Info_set, MPI_Initialized,
                 MPI_Intercomm_create} : RowOK(r)
  BY PlainRow DEF PlainArgs,
     MPI_Group_range_excl, MPI_Group_range_incl, MPI_Group_union, MPI_Ibarrier,
     MPI_Info_create, MPI_Info_create_env, MPI_Info_delete, MPI_Info_dup,
     MPI_Info_free, MPI_Info_get, MPI_Info_get_nthkey, MPI_Info_get_string,
     MPI_Info_get_valuelen, MPI_Info_set, MPI_Initialized, MPI_Intercomm_create
<1>16. \A r \in {MPI_Intercomm_create_from_groups, MPI_Intercomm_merge, MPI_Is_thread_main,
                 MPI_Lookup_name, MPI_Op_commutative, MPI_Op_free,
                 MPI_Open_port, MPI_Pack_external_size, MPI_Parrived,
                 MPI_Publish_name, MPI_Request_free,
                 MPI_Session_detach_buffer, MPI_Session_finalize,
                 MPI_Session_get_errhandler, MPI_Session_get_info,
                 MPI_Session_get_nth_pset} : RowOK(r)
  BY PlainRow DEF PlainArgs,
     MPI_Intercomm_create_from_groups, MPI_Intercomm_merge, MPI_Is_thread_main,
     MPI_Lookup_name, MPI_Op_commutative, MPI_Op_free, MPI_Open_port,
     MPI_Pack_external_size, MPI_Parrived, MPI_Publish_name, MPI_Request_free,
     MPI_Session_detach_buffer, MPI_Session_finalize, MPI_Session_get_errhandler,
     MPI_Session_get_info, MPI_Session_get_nth_pset
<1>17. \A r \in {MPI_Session_get_pset_info, MPI_Session_iflush_buffer, MPI_Session_init,
                 MPI_Start, MPI_Type_commit, MPI_Type_contiguous,
                 MPI_Type_create_darray, MPI_Type_create_f90_complex,
                 MPI_Type_create_f90_integer, MPI_Type_create_f90_real,
                 MPI_Type_create_hindexed, MPI_Type_create_hindexed_block,
                 MPI_Type_create_hvector, MPI_Type_create_indexed_block,
                 MPI_Type_create_resized, MPI_Type_create_struct} : RowOK(r)
  BY PlainRow DEF PlainArgs,
     MPI_Session_get_pset_info, MPI_Session_iflush_buffer, MPI_Session_init,
     MPI_Start, MPI_Type_commit, MPI_Type_contiguous, MPI_Type_create_darray,
     MPI_Type_create_f90_complex, MPI_Type_create_f90_integer,
     MPI_Type_create_f90_real, MPI_Type_create_hindexed,
     MPI_Type_create_hindexed_block, MPI_Type_create_hvector,
     MPI_Type_create_indexed_block, MPI_Type_create_resized, MPI_Type_create_struct
<1>18. \A r \in {MPI_Type_create_subarray, MPI_Type_dup, MPI_Type_free, MPI_Type_get_attr,
                 MPI_Type_get_contents, MPI_Type_get_name,
                 MPI_Type_get_value_index, MPI_Type_indexed,
                 MPI_Type_match_size, MPI_Type_set_name, MPI_Type_vector,
                 MPI_Unpublish_name, MPI_Win_allocate,
                 MPI_Win_allocate_shared, MPI_Win_create_dynamic,
                 MPI_Win_free} : RowOK(r)
  BY PlainRow DEF PlainArgs,
     MPI_Type_create_subarray, MPI_Type_dup, MPI_Type_free, MPI_Type_get_attr,
     MPI_Type_get_contents, MPI_Type_get_name, MPI_Type_get_value_index,
     MPI_Type_indexed, MPI_Type_match_size, MPI_Type_set_name, MPI_Type_vector,
     MPI_Unpublish_name, MPI_Win_allocate, MPI_Win_allocate_shared,
     MPI_Win_create_dynamic, MPI_Win_free
<1>19. \A r \in {MPI_Win_get_attr, MPI_Win_get_errhandler, MPI_Win_get_group,
                 MPI_Win_get_info, MPI_Win_get_name, MPI_Win_set_name,
                 MPI_Win_test} : RowOK(r)
  BY PlainRow DEF PlainArgs,
     MPI_Win_get_attr, MPI_Win_get_errhandler, MPI_Win_get_group, MPI_Win_get_info,
     MPI_Win_get_name, MPI_Win_set_name, MPI_Win_test
<1>20. \A r \in {MPI_Gather, MPI_Gather_init, MPI_Gatherv, MPI_Gatherv_init, MPI_Igather,
                 MPI_Igatherv, MPI_Iscatter, MPI_Iscatterv, MPI_Scatter,
                 MPI_Scatter_init, MPI_Scatterv, MPI_Scatterv_init,
                 MPI_Comm_accept, MPI_Comm_connect, MPI_Comm_spawn,
                 MPI_Comm_spawn_multiple} : RowOK(r)
  BY RootRow DEF RootArgs,
     MPI_Gather, MPI_Gather_init, MPI_Gatherv, MPI_Gatherv_init, MPI_Igather,
     MPI_Igatherv, MPI_Iscatter, MPI_Iscatterv, MPI_Scatter, MPI_Scatter_init,
     MPI_Scatterv, MPI_Scatterv_init, MPI_Comm_accept, MPI_Comm_connect,
     MPI_Comm_spawn, MPI_Comm_spawn_multiple
<1>21. QED
  BY <1>1, <1>2, <1>3, <1>4, <1>5, <1>6, <1>7, <1>8, <1>9, <1>10, <1>11, <1>12, <1>13,
     <1>14, <1>15, <1>16, <1>17, <1>18, <1>19, <1>20
     DEF WrapperRoutines, TransferRoutines, ObjectRoutines

-----------------------------------------------------------------------------
(* The arguments *)

\* What a call is.
Given == routine \in Routines /\ call \in Calls(routine)

\* The parts of a call.
LEMMA CallFacts ==
  ASSUME Given
  PROVE  /\ RowOK(routine)
         /\ call.comm \in Comms(routine.lookup)
         /\ DOMAIN call.arg = DOMAIN routine.args
         /\ \A k \in DOMAIN routine.args : call.arg[k] \in Inputs(routine, k, call.comm)
         /\ call.text_len \in Nat /\ call.len \in Nat
         /\ Len(call.reqs) \in Nat /\ DOMAIN call.reqs = 1 .. Len(call.reqs)
         /\ \A n \in DOMAIN call.reqs : call.reqs[n] \in {"live", "null"}
<1>1. RowOK(routine)
  BY TableOK, RoutinesAssumption DEF Given
<1>2. PICK comm \in Comms(routine.lookup) :
        call \in [comm : {comm}, arg : Arguments(routine, comm),
                  str : IF Uses(routine, StringKinds) THEN Strings ELSE {<<>>},
                  argv : IF Uses(routine, {"argv", "argvs"}) THEN Matrices(Rows(routine))
                                                             ELSE {<<>>},
                  text_len : IF Uses(routine, TextKinds) THEN Lengths(routine) ELSE {0},
                  len : IF Uses(routine, BoundedKinds) THEN 0 .. MaxName + 1 ELSE {0},
                  reqs : IF Uses(routine, RequestKinds)
                           THEN UNION {[1 .. n -> {"live", "null"}] :
                                         n \in 0 .. MaxRequests}
                           ELSE {<<>>}]
  BY DEF Given, Calls
<1>3. call.comm = comm /\ call.arg \in Arguments(routine, comm)
  BY <1>2
<1>4. call.text_len \in (IF Uses(routine, TextKinds) THEN Lengths(routine) ELSE {0})
  BY <1>2
<1>5. call.len \in (IF Uses(routine, BoundedKinds) THEN 0 .. MaxName + 1 ELSE {0})
  BY <1>2
<1>6. call.reqs \in (IF Uses(routine, RequestKinds)
                       THEN UNION {[1 .. n -> {"live", "null"}] : n \in 0 .. MaxRequests}
                       ELSE {<<>>})
  BY <1>2
<1>7. call.text_len \in Nat
  <2>1. MaxName \in Nat /\ \A n \in 0 .. MaxName + 1 : n \in Nat
    BY SizesAssumption
  <2>2. QED
    BY <1>4, <2>1 DEF Lengths
<1>8. call.len \in Nat
  BY <1>5, SizesAssumption
<1>9. /\ Len(call.reqs) \in Nat /\ DOMAIN call.reqs = 1 .. Len(call.reqs)
      /\ \A n \in DOMAIN call.reqs : call.reqs[n] \in {"live", "null"}
  <2>1. CASE call.reqs = <<>>
    BY <2>1
  <2>2. CASE call.reqs \in UNION {[1 .. n -> {"live", "null"}] : n \in 0 .. MaxRequests}
    <3>1. PICK n \in 0 .. MaxRequests : call.reqs \in [1 .. n -> {"live", "null"}]
      BY <2>2
    <3>2. n \in Nat
      BY SizesAssumption
    <3>3. Len(call.reqs) = n
      BY <3>1, <3>2
    <3>4. QED
      BY <3>1, <3>2, <3>3
  <2>3. QED
    BY <1>6, <2>1, <2>2
<1>10. \A k \in DOMAIN routine.args : call.arg[k] \in Inputs(routine, k, call.comm)
  BY <1>3 DEF Arguments
<1>11. DOMAIN call.arg = DOMAIN routine.args
  BY <1>3 DEF Arguments
<1>12. QED
  BY <1>1, <1>2, <1>3, <1>7, <1>8, <1>9, <1>10, <1>11

\* The constants the sentinels stand for.
Constants ==
  {"MPI_BOTTOM", "MPI_IN_PLACE", "MPI_BUFFER_AUTOMATIC", "MPI_STATUS_IGNORE",
   "MPI_STATUSES_IGNORE", "MPI_UNWEIGHTED", "MPI_WEIGHTS_EMPTY", "MPI_ERRCODES_IGNORE",
   "MPI_ARGV_NULL", "MPI_ARGVS_NULL"}

LEMMA Meanings == Range(Meaning) = Constants
BY DEF Range, Meaning, Constants

\* At the root: the entry's opinion is the standard's.
AtRootHere == q_at_root <=> (routine.lookup = "root" /\ AtRootTest(call.comm))

LEMMA RootTestIsRight ==
  ASSUME Given, routine.lookup = "root"
  PROVE  AtRootTest(call.comm) <=> IsRoot(call.comm)
<1>1. call.comm \in RootedComms
  BY CallFacts DEF Comms
<1>2. QED
  BY <1>1 DEF RootedComms, AtRootTest, IsRoot

\* An argument means something here unless it is one of the root's elsewhere.
LEMMA SignificantHere ==
  ASSUME Given, AtRootHere, NEW k \in DOMAIN routine.args
  PROVE  Significant(routine, k, call.comm)
           <=> ((/\ routine.lookup = "root"
                 /\ routine.args[k].kind \in {"handle"} \cup StringKinds \cup VectorKinds)
                  => q_at_root)
<1>1. routine.name \in RootOnlyNames <=> routine.lookup = "root"
  BY CallFacts DEF RowOK, RootsOK
<1>2. QED
  BY <1>1, RootTestIsRight DEF Significant, AtRootHere

\* What a crossing makes of its argument: a sentinel becomes its constant and
\* nothing else one; nothing that need not be set is used; what is significant here
\* is not replaced by null; copies are allocated; and what MPI is to define has a
\* value, except an attribute's.
Crosses(k) ==
  LET kind == routine.args[k].kind
      v == call.arg[k]
      x == ConvertArg(k)
      significant == Significant(routine, k, call.comm)
  IN  /\ v \in Cells => x = Meaning[v]
      /\ v \notin Cells => x \notin Constants
      /\ v \notin Constants \cup {"garbage", "unset"} /\ x \notin {"junk", "unset"}
      /\ kind \in {"handle"} \cup StringKinds => (significant <=> x # "null")
      /\ kind \in VectorKinds => (Allocates(k) <=> significant /\ v = "data")
      /\ x = "copy" => Allocates(k)
      /\ kind = "new" => x = "null"
      /\ kind = "inout" => x = "live"
      /\ kind = "flag" => x = "0"
      /\ kind = "attribute" => x = "garbage"
      /\ kind = "detached" => x = "old"

LEMMA EveryCrossing ==
  ASSUME Given, AtRootHere, NEW k \in DOMAIN routine.args
  PROVE  Crosses(k)
<1> DEFINE kind == routine.args[k].kind
           v == call.arg[k]
           sig == Significant(routine, k, call.comm)
<1>1. /\ kind \in Kinds /\ v \in Inputs(routine, k, call.comm)
      /\ routine.args[k].at_root <=>
           (routine.lookup = "root" /\ kind \in {"handle"} \cup StringKinds)
      /\ kind \in VectorKinds => routine.lookup = "root"
  BY CallFacts DEF RowOK, ArgsOK, RootsOK
<1>2. sig <=> ((/\ routine.lookup = "root"
                /\ kind \in {"handle"} \cup StringKinds \cup VectorKinds) => q_at_root)
  BY SignificantHere
<1>3. v \in (IF ~sig THEN {"junk"}
      ELSE CASE kind = "buffer" -> {"data"} \cup BufferCells
         [] kind = "status" -> {"data"} \cup StatusCells
         [] kind = "weights" -> {"data"} \cup WeightsCells
         [] kind = "errcodes" -> {"data", "mpif_errcodes_ignore_"}
         [] kind = "argv" -> {"data", "mpif_argv_null_"}
         [] kind = "argvs" -> {"data", "mpif_argvs_null_"}
         [] kind = "logical" -> {".TRUE.", ".FALSE.", "odd"}
         [] kind = "inout" -> {"live"}
         [] kind \in {"handle", "send_types", "recv_types", "commands"}
                     \cup StringKinds -> {"data"}
         [] OTHER -> {"old"})
  BY <1>1 DEF Inputs
<1> USE DEF StringKinds, VectorKinds
<1> HIDE DEF sig
<1>4. CASE kind \in {"buffer", "status", "weights", "errcodes"}
  <2>1. sig /\ ~routine.args[k].at_root
    BY <1>1, <1>2, <1>4
  <2>2. CASE kind = "buffer"
    <3>1. v \in {"data"} \cup BufferCells /\ ConvertArg(k) = mpif_c_buffer(v)
      BY <1>3, <2>1, <2>2 DEF ConvertArg
    <3>2. QED
      BY <2>2, <3>1 DEF Crosses, mpif_c_buffer, BufferCells, StatusCells, WeightsCells, Cells,
         Meaning, Constants
  <2>3. CASE kind = "status"
    <3>1. v \in {"data"} \cup StatusCells /\ ConvertArg(k) = mpif_c_status(v)
      BY <1>3, <2>1, <2>3 DEF ConvertArg
    <3>2. QED
      BY <2>3, <3>1 DEF Crosses, mpif_c_status, BufferCells, StatusCells, WeightsCells, Cells,
         Meaning, Constants
  <2>4. CASE kind = "weights"
    <3>1. v \in {"data"} \cup WeightsCells /\ ConvertArg(k) = mpif_c_weights(v)
      BY <1>3, <2>1, <2>4 DEF ConvertArg
    <3>2. QED
      BY <2>4, <3>1 DEF Crosses, mpif_c_weights, BufferCells, StatusCells, WeightsCells, Cells,
         Meaning, Constants
  <2>5. CASE kind = "errcodes"
    <3>1. v \in {"data", "mpif_errcodes_ignore_"} /\ ConvertArg(k) = mpif_c_errcodes(v)
      BY <1>3, <2>1, <2>5 DEF ConvertArg
    <3>2. QED
      BY <2>5, <3>1 DEF Crosses, mpif_c_errcodes, BufferCells, StatusCells, WeightsCells, Cells,
         Meaning, Constants
  <2>6. QED
    BY <1>4, <2>2, <2>3, <2>4, <2>5
<1>5. CASE kind \in VectorKinds
  <2>1. ~routine.args[k].at_root /\ (sig <=> q_at_root)
    BY <1>1, <1>2, <1>5
  <2>2. /\ kind = "argv" => v \in {"data", "mpif_argv_null_", "junk"}
        /\ kind = "argvs" => v \in {"data", "mpif_argvs_null_", "junk"}
        /\ kind = "commands" => v \in {"data", "junk"}
        /\ v = "junk" <=> ~sig
    BY <1>3, <1>5
  <2>3. /\ v = "mpif_argv_null_" => ConvertArg(k) = "MPI_ARGV_NULL"
        /\ v = "mpif_argvs_null_" => ConvertArg(k) = "MPI_ARGVS_NULL"
        /\ v \in {"data", "junk"} => ConvertArg(k) = "vector"
    <3>1. CASE kind = "argv"
      BY <2>1, <2>2, <3>1 DEF ConvertArg, Cells, BufferCells, StatusCells, WeightsCells
    <3>2. CASE kind = "argvs"
      BY <2>1, <2>2, <3>2 DEF ConvertArg, Cells, BufferCells, StatusCells, WeightsCells
    <3>3. CASE kind = "commands"
      BY <2>1, <2>2, <3>3 DEF ConvertArg, Cells, BufferCells, StatusCells, WeightsCells
    <3>4. QED
      BY <1>5, <3>1, <3>2, <3>3
  <2>4. Allocates(k) <=> q_at_root /\ v \notin Cells
    BY <1>5 DEF Allocates
  <2>5. QED
    BY <1>5, <2>1, <2>2, <2>3, <2>4 DEF Crosses, BufferCells, StatusCells, WeightsCells, Cells,
       Meaning, Constants, sig
<1>6. CASE kind \in {"handle"} \cup StringKinds
  <2>1. routine.args[k].at_root /\ ~q_at_root <=> ~sig
    BY <1>1, <1>2, <1>6
  <2>2. v = IF sig THEN "data" ELSE "junk"
    BY <1>3, <1>6
  <2>3. ConvertArg(k) = IF ~sig THEN "null" ELSE IF kind = "handle" THEN v ELSE "copy"
    BY <1>6, <2>1 DEF ConvertArg
  <2>4. kind \in StringKinds => (Allocates(k) <=> sig)
    BY <1>6, <2>1 DEF Allocates
  <2>5. QED
    BY <1>6, <2>2, <2>3, <2>4 DEF Crosses, BufferCells, StatusCells, WeightsCells, Cells,
       Meaning, Constants, sig
<1>7. CASE kind \in {"logical", "inout", "send_types", "recv_types"}
  <2>1. sig /\ ~routine.args[k].at_root
    BY <1>1, <1>2, <1>7
  <2>2. /\ kind = "logical" => v \in {".TRUE.", ".FALSE.", "odd"}
        /\ kind = "inout" => v = "live"
        /\ kind \in {"send_types", "recv_types"} => v = "data"
    BY <1>3, <1>7, <2>1
  <2>3. ConvertArg(k) = IF kind = "logical" THEN mpif_logical2bool(v) ELSE v
    BY <1>7, <2>1 DEF ConvertArg
  <2>4. QED
    BY <1>7, <2>2, <2>3 DEF Crosses, BufferCells, StatusCells, WeightsCells, Cells,
       Constants, mpif_logical2bool
<1>8. CASE kind \in Kinds \ ({"buffer", "status", "weights", "errcodes", "handle", "logical",
                              "inout", "send_types", "recv_types"}
                               \cup StringKinds \cup VectorKinds)
  <2>1. sig /\ ~routine.args[k].at_root
    BY <1>1, <1>2, <1>8
  <2>2. v = "old"
    BY <1>3, <1>8, <2>1
  <2>3. ConvertArg(k) = CASE kind = "new" -> "null"
                          [] kind = "flag" -> "0"
                          [] kind = "attribute" -> "garbage"
                          [] OTHER -> "old"
    BY <1>8, <2>1, <2>2 DEF ConvertArg
  <2>4. QED
    BY <1>8, <2>2, <2>3 DEF Crosses, BufferCells, StatusCells, WeightsCells, Cells, Constants
<1>9. QED
  BY <1>1, <1>4, <1>5, <1>6, <1>7, <1>8

-----------------------------------------------------------------------------
(* The inductive invariant *)

\* The C array of a string that is returned, before the call.
FreshArray == IF Uses(routine, TextKinds) THEN TextArray(TextBuflen) ELSE <<>>

\* The results MPI leaves in the C locals.
Answered(k) ==
  LET kind == routine.args[k].kind
      done == reply.outcome # "error"
  IN  /\ kind = "new" => c[k] = IF done /\ reply.object THEN "live" ELSE "null"
      /\ kind = "inout" => c[k] = IF done /\ ~reply.object THEN "null" ELSE "live"
      /\ kind = "flag" => c[k] = IF done /\ reply.flag THEN "1" ELSE "0"
      /\ kind = "attribute" => c[k] = IF done /\ reply.flag THEN "value" ELSE "garbage"
      /\ kind = "detached" =>
           c[k] = IF ~done THEN "old"
                  ELSE IF reply.object THEN "address" ELSE "MPI_BUFFER_AUTOMATIC"
      /\ c[k] = "copy" => k \in copies

\* The requests MPI leaves in its array.
RequestsLeft ==
  [n \in DOMAIN call.reqs |->
     IF n \in reply.done /\ ~reply.object /\ Uses(routine, {"requests"})
     THEN "null" ELSE call.reqs[n]]

\* The communicator is asked first.
Asked == pc \in {"convert", "call", "back"} => AtRootHere

\* Until the entry returns, the program's variables are as it passed them.
Untouched ==
  pc # "returned" =>
    /\ var = call.arg /\ reqs = call.reqs /\ len = call.len
    /\ text = [n \in 1 .. call.text_len |-> "o"]

\* Copies are there while MPI is called, and no others are.
Copied ==
  /\ pc \in {"lookup", "convert", "returned"} => copies = {}
  /\ pc \in {"call", "back"} => copies = {k \in DOMAIN routine.args : Allocates(k)}

\* Before the call MPI has not answered, and then the C side is what the arguments
\* are converted to.
Converted ==
  /\ pc \in {"lookup", "convert", "call"} => reply = NoReply /\ stored = <<>>
  /\ pc = "call" =>
       /\ \A k \in DOMAIN routine.args : c[k] = ConvertArg(k) /\ read[k] = ReadTypes(k)
       /\ c_reqs = call.reqs /\ array = FreshArray /\ c_len = ToldLength

\* After it, the C side is what MPI left.
Left ==
  pc = "back" =>
    /\ reply \in Replies
    /\ ierror = IF reply.outcome = "ok" THEN "MPI_SUCCESS" ELSE "error"
    /\ \A k \in DOMAIN routine.args : Answered(k)
    /\ c_reqs = RequestsLeft
    /\ stored = AnswerText(reply, ToldLength) /\ array = Store(FreshArray, stored)

\* The variables the entry leaves hold no constant of C.
VarsClean ==
  pc = "returned" => \A k \in DOMAIN routine.args : var[k] \notin Constants

IInv ==
  /\ Given /\ TypeOK /\ Asked /\ Untouched /\ Copied /\ Converted /\ Left
  /\ VarsClean /\ ResultsTruthful

\* What depends on the call alone does not change.
LEMMA InputIsFixed ==
  ASSUME routine' = routine, call' = call
  PROVE  /\ Given' <=> Given
         /\ FreshArray' = FreshArray /\ ToldLength' = ToldLength /\ Replies' = Replies
BY DEF Given, FreshArray, TextBuflen, ToldLength, Replies, LiveRequests

LEMMA OpinionIsFixed ==
  ASSUME routine' = routine, call' = call, q_at_root' = q_at_root, NEW k
  PROVE  /\ AtRootHere' <=> AtRootHere
         /\ ConvertArg(k)' = ConvertArg(k) /\ ReadTypes(k)' = ReadTypes(k)
         /\ Allocates(k)' <=> Allocates(k)
BY DEF AtRootHere, ConvertArg, ReadTypes, Allocates

\* Init of Wrapper satisfies the inductive invariant.
LEMMA InitEstablishes == Init => IInv
<1> SUFFICES ASSUME Init PROVE IInv
  OBVIOUS
<1>1. Given
  BY DEF Init, Given
<1>2. /\ pc = "lookup" /\ q_at_root = FALSE /\ c = PerCrossing("unset")
      /\ read = PerCrossing(0) /\ copies = {} /\ stored = <<>> /\ c_len = 0
      /\ reply = NoReply /\ ierror = "unset" /\ var = call.arg
      /\ text = [n \in 1 .. call.text_len |-> "o"]
      /\ len = call.len /\ reqs = call.reqs /\ outcount = OldIndex
  BY DEF Init
<1>3. /\ DOMAIN call.arg = DOMAIN routine.args /\ call.text_len \in Nat /\ call.len \in Nat
  BY <1>1, CallFacts
<1>4. TypeOK
  <2>1. Len([n \in 1 .. call.text_len |-> "o"]) = call.text_len
    BY <1>3
  <2>2. \A x : DOMAIN PerCrossing(x) = DOMAIN routine.args
    BY DEF PerCrossing
  <2>3. \A k \in DOMAIN routine.args : PerCrossing(0)[k] = 0
    BY DEF PerCrossing
  <2>4. q_at_root \in BOOLEAN
    BY <1>2
  <2>5. /\ pc = "lookup" /\ c = PerCrossing("unset") /\ read = PerCrossing(0) /\ copies = {}
        /\ c_len = 0 /\ ierror = "unset" /\ var = call.arg /\ reqs = call.reqs
        /\ text = [n \in 1 .. call.text_len |-> "o"] /\ len = call.len /\ outcount = OldIndex
    BY <1>2
  <2>6. QED
    BY <1>1, <1>3, <2>1, <2>2, <2>3, <2>4, <2>5 DEF TypeOK, Given, OldIndex
<1>5. QED
  BY <1>1, <1>2, <1>4 DEF IInv, Asked, Untouched, Copied, Converted, Left, VarsClean,
     ResultsTruthful

\* A step that changes nothing.
LEMMA StutterStep ==
  ASSUME IInv, UNCHANGED vars
  PROVE  IInv'
<1> USE DEF IInv
<1>1. UNCHANGED <<routine, call, pc, q_at_root, c, read, copies, array, c_len, stored,
                  c_reqs, reply, ierror, var, text, len, reqs, outcount>>
  BY DEF vars, input, c_side, program
<1>2. /\ Given' <=> Given
      /\ FreshArray' = FreshArray /\ ToldLength' = ToldLength /\ Replies' = Replies
  BY <1>1, InputIsFixed
<1>3. /\ AtRootHere' <=> AtRootHere
      /\ \A k : ConvertArg(k)' = ConvertArg(k) /\ ReadTypes(k)' = ReadTypes(k)
      /\ \A k : Allocates(k)' <=> Allocates(k)
  BY <1>1, OpinionIsFixed
<1>4. TypeOK' /\ Untouched' /\ VarsClean'
  BY <1>1 DEF TypeOK, Untouched, VarsClean
<1>5. Asked' /\ Copied'
  BY <1>1, <1>3 DEF Asked, Copied
<1>6. Converted'
  BY <1>1, <1>2, <1>3 DEF Converted
<1>7. Left'
  <2>1. RequestsLeft' = RequestsLeft /\ AnswerText(reply, ToldLength)' = AnswerText(reply, ToldLength)
    BY <1>1, <1>2 DEF RequestsLeft, AnswerText
  <2>2. \A k \in DOMAIN routine.args : Answered(k)' <=> Answered(k)
    BY <1>1 DEF Answered
  <2>3. QED
    BY <1>1, <1>2, <2>1, <2>2 DEF Left
<1>8. ResultsTruthful'
  BY <1>1 DEF ResultsTruthful
<1>9. QED
  BY <1>2, <1>4, <1>5, <1>6, <1>7, <1>8

-----------------------------------------------------------------------------
(* The steps before the call *)

\* The lengths of the arrays of datatypes are what the program supplies.
LEMMA LengthAnswer ==
  ASSUME NEW lookup, NEW comm \in Comms(lookup), NEW b \in 1 .. 2
  PROVE  /\ ArrayLengths(lookup, comm)[b] \in Nat
         /\ ArrayLengths(lookup, comm)[b] = SuppliedTypes(lookup, comm, b)
<1> USE BoundsAssumption
<1>1. CASE lookup = "members"
  <2>1. comm \in GroupComms
    BY <1>1 DEF Comms
  <2>2. QED
    BY <1>1, <2>1 DEF GroupComms, GroupSize, ArrayLengths, SuppliedTypes
<1>2. CASE lookup = "neighbors"
  <2>1. comm \in NeighborComms
    BY <1>2 DEF Comms
  <2>2. /\ ArrayLengths(lookup, comm) = Degrees(comm)
        /\ SuppliedTypes(lookup, comm, b) =
             IF comm.topology = "cart" THEN 2 * comm.ndims
             ELSE IF comm.topology = "graph" THEN comm.nneighbors
             ELSE IF comm.topology = "dist_graph" THEN
               (IF b = 1 THEN comm.outdegree ELSE comm.indegree)
             ELSE 0
    BY <1>2 DEF ArrayLengths, SuppliedTypes
  <2>3. QED
    BY <2>1, <2>2 DEF NeighborComms, Degrees
<1>3. CASE lookup \notin {"members", "neighbors"}
  BY <1>3 DEF ArrayLengths, SuppliedTypes
<1>4. QED
  BY <1>1, <1>2, <1>3

\* The elements read of an array of datatypes are those supplied.
LEMMA ReadsSupplied ==
  ASSUME Given, AtRootHere, NEW k \in DOMAIN routine.args
  PROVE  ReadTypes(k) \in Nat /\ ReadTypes(k) = Supplied(k)
<1>1. \A b \in 1 .. 2 :
        /\ ArrayLengths(routine.lookup, call.comm)[b] \in Nat
        /\ ArrayLengths(routine.lookup, call.comm)[b]
             = SuppliedTypes(routine.lookup, call.comm, b)
  BY CallFacts, LengthAnswer
<1>2. CASE routine.args[k].kind = "send_types"
  <2>1. k = 2 /\ 1 \in DOMAIN routine.args
    BY <1>2, CallFacts DEF RowOK, ArgsOK
  <2>2. call.arg[1] \notin Constants
    BY <2>1, EveryCrossing DEF Crosses
  <2>3. mpif_c_buffer(call.arg[1]) = "MPI_IN_PLACE" <=> call.arg[1] = "mpif_in_place_"
    BY <2>2 DEF mpif_c_buffer, Constants
  <2>4. k - 1 = 1
    BY <2>1
  <2>5. QED
    BY <1>1, <1>2, <2>3, <2>4 DEF ReadTypes, Supplied
<1>3. CASE routine.args[k].kind = "recv_types"
  BY <1>1, <1>3 DEF ReadTypes, Supplied
<1>4. CASE routine.args[k].kind \notin {"send_types", "recv_types"}
  BY <1>4 DEF ReadTypes, Supplied
<1>5. QED
  BY <1>2, <1>3, <1>4

\* The communicator's answers, or the failure to get them.
LEMMA LookUpStep ==
  ASSUME IInv, LookUp
  PROVE  IInv'
<1> USE DEF IInv
<1>1. /\ pc = "lookup" /\ pc' = "convert"
      /\ UNCHANGED <<routine, call, c, read, copies, array, c_len, stored, c_reqs, reply,
                     ierror, var, text, len, reqs, outcount>>
  BY DEF LookUp, input, program
<1>2. q_at_root' \in BOOLEAN /\ AtRootHere'
  <2>1. q_at_root' = IF routine.lookup = "root" THEN AtRootTest(call.comm) ELSE FALSE
    BY DEF LookUp
  <2>2. AtRootTest(call.comm) \in BOOLEAN
    <3>1. routine.lookup = "root" => call.comm.inter \in BOOLEAN
      BY CallFacts DEF Comms, RootedComms
    <3>2. QED
      BY DEF AtRootTest
  <2>3. q_at_root' \in BOOLEAN
    BY <2>1, <2>2
  <2>4. q_at_root' <=> (routine.lookup = "root" /\ AtRootTest(call.comm))
    BY <2>1
  <2>5. AtRootTest(call.comm)' <=> AtRootTest(call.comm)
    BY <1>1 DEF AtRootTest
  <2>6. QED
    BY <1>1, <2>3, <2>4, <2>5 DEF AtRootHere
<1>3. Given' <=> Given
  BY <1>1, InputIsFixed
<1>4. TypeOK'
  BY <1>1, <1>2 DEF TypeOK
<1>5. QED
  BY <1>1, <1>2, <1>3, <1>4 DEF Asked, Untouched, Copied, Converted, Left, VarsClean,
     ResultsTruthful

LEMMA LookUpFailsStep ==
  ASSUME IInv, LookUpFails
  PROVE  IInv'
<1> USE DEF IInv
<1>1. /\ pc = "lookup" /\ pc' = "returned" /\ ierror' = "MPI_ERR_COMM"
      /\ UNCHANGED <<routine, call, q_at_root, c, read, copies, array, c_len, stored, c_reqs,
                     reply, var, text, len, reqs, outcount>>
  BY DEF LookUpFails, input, c_side
<1>2. Given' <=> Given
  BY <1>1, InputIsFixed
<1>3. TypeOK'
  BY <1>1 DEF TypeOK
<1>4. VarsClean'
  <2>1. \A k \in DOMAIN routine.args : Inputs(routine, k, call.comm) \cap Constants = {}
    BY DEF Inputs, BufferCells, StatusCells, WeightsCells, Constants
  <2>2. \A k \in DOMAIN routine.args : call.arg[k] \notin Constants
    BY <2>1, CallFacts
  <2>3. QED
    BY <1>1, <2>2 DEF Untouched, VarsClean
<1>5. reply' = NoReply
  BY <1>1 DEF Converted
<1>6. QED
  BY <1>1, <1>2, <1>3, <1>4, <1>5 DEF Asked, Untouched, Copied, Converted, Left,
     ResultsTruthful

\* The conversion of the arguments.
LEMMA ConvertStep ==
  ASSUME IInv, Convert
  PROVE  IInv'
<1> USE DEF IInv
<1>1. /\ pc = "convert" /\ pc' = "call"
      /\ UNCHANGED <<routine, call, q_at_root, stored, reply, ierror, var, text, len, reqs,
                     outcount>>
      /\ c' = [k \in DOMAIN routine.args |-> ConvertArg(k)]
      /\ read' = [k \in DOMAIN routine.args |-> ReadTypes(k)]
      /\ copies' = {k \in DOMAIN routine.args : Allocates(k)}
      /\ array' = FreshArray /\ c_len' = ToldLength /\ c_reqs' = call.reqs
  BY DEF Convert, input, program, FreshArray
<1>2. AtRootHere
  BY <1>1 DEF Asked
<1>3. /\ Given' <=> Given
      /\ FreshArray' = FreshArray /\ ToldLength' = ToldLength /\ Replies' = Replies
  BY <1>1, InputIsFixed
<1>4. /\ AtRootHere' <=> AtRootHere
      /\ \A k : ConvertArg(k)' = ConvertArg(k) /\ ReadTypes(k)' = ReadTypes(k)
      /\ \A k : Allocates(k)' <=> Allocates(k)
  BY <1>1, OpinionIsFixed
<1>5. TypeOK'
  <2>1. \A k \in DOMAIN routine.args : read'[k] \in Nat
    BY <1>1, <1>2, ReadsSupplied
  <2>2. c_len' \in Nat
    BY <1>1, CallFacts DEF ToldLength
  <2>3. DOMAIN c' = DOMAIN routine.args /\ copies' \subseteq DOMAIN routine.args
    BY <1>1
  <2>4. QED
    BY <1>1, <2>1, <2>2, <2>3 DEF TypeOK
<1>6. Converted'
  BY <1>1, <1>3, <1>4 DEF Converted
<1>7. Asked' /\ Copied'
  BY <1>1, <1>2, <1>4 DEF Asked, Copied
<1>8. QED
  BY <1>1, <1>3, <1>5, <1>6, <1>7 DEF Untouched, Left, VarsClean, ResultsTruthful

-----------------------------------------------------------------------------
(* The call and the return *)

\* What MPI may answer.
LEMMA ReplyFacts ==
  ASSUME Given, NEW r \in Replies
  PROVE  /\ r.outcome \in {"ok", "error", "in_status"}
         /\ r # NoReply
         /\ Len(r.str) \in 0 .. MaxName /\ DOMAIN r.str = 1 .. Len(r.str)
         /\ \A n \in 1 .. Len(r.str) : r.str[n] = "a"
         /\ r.done \subseteq LiveRequests /\ Cardinality(r.done) \in Nat
         /\ r.outcome = "error" => r.done = {}
         /\ r.outcome = "in_status" => Uses(routine, {"requests"})
<1>1. r \in [outcome : {"ok", "error", "in_status"}, flag : BOOLEAN,
             object : BOOLEAN, cut : BOOLEAN, reports : BOOLEAN,
             str : {[n \in 1 .. m |-> "a"] : m \in 0 .. MaxName},
             done : SUBSET LiveRequests]
  BY DEF Replies
<1>2. r.outcome \in {"ok", "error", "in_status"} /\ r.done \subseteq LiveRequests
  BY <1>1
<1>3. r # NoReply
  BY <1>2 DEF NoReply
<1>4. /\ Len(r.str) \in 0 .. MaxName /\ DOMAIN r.str = 1 .. Len(r.str)
      /\ \A n \in 1 .. Len(r.str) : r.str[n] = "a"
  <2>1. PICK m \in 0 .. MaxName : r.str = [n \in 1 .. m |-> "a"]
    BY <1>1
  <2>2. m \in Nat
    BY SizesAssumption
  <2>3. Len(r.str) = m
    BY <2>1, <2>2
  <2>4. QED
    BY <2>1, <2>3
<1>5. Cardinality(r.done) \in Nat
  <2>1. r.done \subseteq 1 .. Len(call.reqs) /\ Len(call.reqs) \in Nat
    BY <1>2, CallFacts DEF LiveRequests
  <2>2. IsFiniteSet(1 .. Len(call.reqs))
    BY <2>1, FS_Interval
  <2>3. QED
    BY <2>1, <2>2, FS_Subset, FS_CardinalityType
<1>6. /\ r.outcome = "error" => r.done = {}
      /\ r.outcome = "in_status" => Uses(routine, {"requests"})
  BY DEF Replies
<1>7. QED
  BY <1>2, <1>3, <1>4, <1>5, <1>6

\* MPI's answer.
LEMMA CallStep ==
  ASSUME IInv, CallMPI
  PROVE  IInv'
<1> USE DEF IInv
<1>1. /\ pc = "call" /\ pc' \in {"back", "overrun"}
      /\ UNCHANGED <<routine, call, q_at_root, read, copies, var, text, len, reqs>>
  BY DEF CallMPI, input
<1>2. PICK r \in Replies :
        /\ reply' = r
        /\ ierror' = IF r.outcome = "ok" THEN "MPI_SUCCESS" ELSE "error"
        /\ c' = [k \in DOMAIN routine.args |-> Answer(k, r)]
        /\ stored' = AnswerText(r, c_len)
        /\ array' = Store(array, stored')
        /\ c_len' = AnswerLength(r, c_len)
        /\ c_reqs' = [n \in DOMAIN c_reqs |->
                        IF n \in r.done /\ ~r.object /\ Uses(routine, {"requests"})
                        THEN "null" ELSE c_reqs[n]]
        /\ outcount' = AnswerOutcount(r)
  BY DEF CallMPI
<1>3. /\ r.outcome \in {"ok", "error", "in_status"}
      /\ Len(r.str) \in Nat /\ Cardinality(r.done) \in Nat
  BY ReplyFacts, SizesAssumption
<1>4. /\ Given' <=> Given
      /\ FreshArray' = FreshArray /\ ToldLength' = ToldLength /\ Replies' = Replies
  BY <1>1, InputIsFixed
<1>5. /\ AtRootHere' <=> AtRootHere
      /\ \A k : Allocates(k)' <=> Allocates(k)
  BY <1>1, OpinionIsFixed
<1>6. TypeOK'
  <2>1. c_len' \in Nat
    BY <1>2, <1>3 DEF TypeOK, AnswerLength
  <2>2. outcount' \in Int
    BY <1>2, <1>3 DEF TypeOK, AnswerOutcount, MPI_UNDEFINED
  <2>3. DOMAIN c' = DOMAIN routine.args
    BY <1>2
  <2>4. ierror' \in {"unset", "MPI_SUCCESS", "MPI_ERR_COMM", "error"}
    BY <1>2
  <2>5. QED
    BY <1>1, <2>1, <2>2, <2>3, <2>4 DEF TypeOK
<1>7. Asked' /\ Copied'
  BY <1>1, <1>5 DEF Asked, Copied
<1>8. Left'
  <2>1. reply' \in Replies' /\ ierror' = IF reply'.outcome = "ok" THEN "MPI_SUCCESS" ELSE "error"
    BY <1>2, <1>4
  <2>2. c_reqs' = RequestsLeft'
    BY <1>1, <1>2 DEF RequestsLeft, Converted
  <2>3. stored' = AnswerText(reply, ToldLength)' /\ array' = Store(FreshArray', stored')
    <3>1. c_len = ToldLength /\ array = FreshArray
      BY <1>1 DEF Converted
    <3>2. AnswerText(reply, ToldLength)' = AnswerText(r, ToldLength)
      BY <1>1, <1>2, <1>4 DEF AnswerText
    <3>3. QED
      BY <1>2, <1>4, <3>1, <3>2
  <2>4. ASSUME NEW k \in DOMAIN routine.args
        PROVE  Answered(k)'
    <3>1. c[k] = ConvertArg(k) /\ copies = {j \in DOMAIN routine.args : Allocates(j)}
      BY <1>1 DEF Converted, Copied
    <3>2. Crosses(k)
      BY <1>1, EveryCrossing DEF Asked
    <3>3. /\ routine.args[k].kind = "new" => c[k] = "null"
          /\ routine.args[k].kind = "inout" => c[k] = "live"
          /\ routine.args[k].kind = "flag" => c[k] = "0"
          /\ routine.args[k].kind = "attribute" => c[k] = "garbage"
          /\ routine.args[k].kind = "detached" => c[k] = "old"
          /\ c[k] = "copy" => k \in copies
      BY <3>1, <3>2 DEF Crosses
    <3>4. c'[k] = Answer(k, r) /\ reply' = r
      BY <1>2
    <3>5. CASE r.outcome = "error"
      <4>1. Answer(k, r) = c[k]
        BY <3>5 DEF Answer
      <4>2. QED
        BY <1>1, <3>3, <3>4, <3>5, <4>1 DEF Answered
    <3>6. CASE r.outcome # "error"
      <4>1. /\ routine.args[k].kind = "new" =>
                 Answer(k, r) = IF r.object THEN "live" ELSE "null"
            /\ routine.args[k].kind = "inout" =>
                 Answer(k, r) = IF r.object THEN c[k] ELSE "null"
            /\ routine.args[k].kind = "flag" =>
                 Answer(k, r) = IF r.flag THEN "1" ELSE "0"
            /\ routine.args[k].kind = "attribute" =>
                 Answer(k, r) = IF r.flag THEN "value" ELSE c[k]
            /\ routine.args[k].kind = "detached" =>
                 Answer(k, r) = IF r.object THEN "address" ELSE "MPI_BUFFER_AUTOMATIC"
            /\ Answer(k, r) \in {c[k], "live", "null", "0", "1", "value", "address",
                                 "MPI_BUFFER_AUTOMATIC"}
        BY <3>6 DEF Answer
      <4>2. QED
        BY <1>1, <3>3, <3>4, <3>6, <4>1 DEF Answered
    <3>7. QED
      BY <3>5, <3>6
  <2>5. QED
    BY <1>1, <2>1, <2>2, <2>3, <2>4 DEF Left
<1>9. QED
  BY <1>1, <1>4, <1>6, <1>7, <1>8 DEF Untouched, Converted, VarsClean, ResultsTruthful

-----------------------------------------------------------------------------
(* Strings *)

\* Every nonempty set of natural numbers has a least element, which Min chooses.
LEMMA Least ==
  ASSUME NEW T, T \subseteq Nat, T # {}
  PROVE  Min(T) \in T /\ \A y \in T : Min(T) <= y
<1> DEFINE R == OpToRel(<, Nat)
<1>1. IsWellFoundedOn(R, Nat)
  BY NatLessThanWellFounded
<1>2. \A x, y \in Nat : <<x, y>> \in R <=> x < y
  BY DEF OpToRel
<1> HIDE DEF R
<1>3. PICK x \in T : \A y \in T : ~(<<y, x>> \in R)
  BY <1>1, WFMin
<1>4. ASSUME NEW y \in T PROVE x <= y
  <2>1. x \in Nat /\ y \in Nat /\ ~(y < x)
    BY <1>2, <1>3
  <2>2. QED
    BY <2>1
<1>5. QED
  BY <1>4 DEF Min

LEMMA Lesser ==
  ASSUME NEW a \in Nat, NEW b \in Nat
  PROVE  Min({a, b}) = IF a <= b THEN a ELSE b
<1>1. Min({a, b}) \in {a, b} /\ \A y \in {a, b} : Min({a, b}) <= y
  BY Least
<1>2. QED
  BY <1>1

\* strlen stops inside the array, or at its end, and before the first NUL.
LEMMA StrlenFacts ==
  ASSUME NEW a, Len(a) \in Nat, DOMAIN a = 1 .. Len(a)
  PROVE  /\ strlen(a) \in 0 .. Len(a)
         /\ \A n \in 1 .. Len(a) : a[n] = NUL => strlen(a) <= n - 1
         /\ strlen(a) = Len(a) \/ a[strlen(a) + 1] = NUL
<1> DEFINE S == {Len(a)} \cup {n - 1 : n \in {m \in DOMAIN a : a[m] = NUL}}
<1>1. S \subseteq Nat /\ Len(a) \in S
  OBVIOUS
<1>2. \A n \in 1 .. Len(a) : a[n] = NUL => n - 1 \in S
  OBVIOUS
<1>3. \A s \in S : s = Len(a) \/ (s + 1 \in 1 .. Len(a) /\ a[s + 1] = NUL)
  <2> SUFFICES ASSUME NEW s \in S, s # Len(a)
               PROVE  s + 1 \in 1 .. Len(a) /\ a[s + 1] = NUL
    OBVIOUS
  <2>1. PICK n \in 1 .. Len(a) : a[n] = NUL /\ s = n - 1
    OBVIOUS
  <2>2. s + 1 = n
    BY <2>1
  <2>3. QED
    BY <2>1, <2>2
<1>4. strlen(a) = Min(S)
  BY DEF strlen
<1> HIDE DEF S
<1>5. strlen(a) \in S /\ \A y \in S : strlen(a) <= y
  BY <1>1, <1>4, Least
<1>6. strlen(a) \in 0 .. Len(a)
  <2>1. strlen(a) \in Nat
    BY <1>1, <1>5
  <2>2. strlen(a) <= Len(a)
    BY <1>1, <1>5
  <2>3. QED
    BY <2>1, <2>2
<1>7. \A n \in 1 .. Len(a) : a[n] = NUL => strlen(a) <= n - 1
  BY <1>2, <1>5
<1>8. strlen(a) = Len(a) \/ a[strlen(a) + 1] = NUL
  BY <1>3, <1>5
<1>9. QED
  BY <1>6, <1>7, <1>8

\* The beginning of a sequence.
LEMMA Prefix ==
  ASSUME NEW S, NEW a \in Seq(S), NEW l \in 0 .. Len(a)
  PROVE  /\ SubSeq(a, 1, l) \in Seq(S) /\ Len(SubSeq(a, 1, l)) = l
         /\ \A n \in 1 .. l : SubSeq(a, 1, l)[n] = a[n]
OBVIOUS

\* A string and its NUL.
LEMMA Terminated ==
  ASSUME NEW s, s \in Seq({"a"}), NEW m \in 0 .. Len(s), NEW t,
         t = SubSeq(s, 1, m) \o <<NUL>>
  PROVE  /\ t \in Seq({"a", NUL}) /\ Len(t) = m + 1 /\ t[m + 1] = NUL
         /\ \A n \in 1 .. m : t[n] = "a"
<1> DEFINE u == SubSeq(s, 1, m)
<1>1. u \in Seq({"a"}) /\ Len(u) = m
  OBVIOUS
<1>2. \A n \in 1 .. m : u[n] = "a"
  BY <1>1
<1> HIDE DEF u
<1>3. t = u \o <<NUL>>
  BY DEF u
<1>4. u \in Seq({"a", NUL}) /\ <<NUL>> \in Seq({"a", NUL})
  BY <1>1
<1>5. QED
  BY <1>1, <1>2, <1>3, <1>4

Bytes == {"a", NUL, Uninit}

\* MPI's string with its NUL, or nothing.
IsAnswer(t) ==
  \/ t = <<>>
  \/ /\ Len(t) \in Nat \ {0} /\ t[Len(t)] = NUL
     /\ \A n \in 1 .. Len(t) - 1 : t[n] = "a"

\* What a C array holds after MPI's answer is MPI's up to the NUL.
LEMMA ReadIsStored ==
  ASSUME NEW b \in Nat, NEW t, NEW a, a = Store(TextArray(b), t),
         IsAnswer(t)
  PROVE  /\ a \in Seq(Bytes) /\ Len(a) = b + 2 /\ strlen(a) \in 0 .. Len(a)
         /\ \A n \in 1 .. strlen(a) : a[n] = "a" /\ n <= Len(t) - 1
<1>1. /\ DOMAIN TextArray(b) = 1 .. b + 2 /\ TextArray(b)[1] = NUL
      /\ \A n \in 1 .. b + 2 : TextArray(b)[n] \in {NUL, Uninit}
  BY DEF TextArray
<1>2. a = [n \in 1 .. b + 2 |-> IF n <= Len(t) THEN t[n] ELSE TextArray(b)[n]]
  BY <1>1 DEF Store
<1>3. a \in Seq(Bytes) /\ Len(a) = b + 2 /\ DOMAIN a = 1 .. b + 2
  <2>1. \A n \in 1 .. Len(t) : t[n] \in {"a", NUL}
    BY DEF IsAnswer
  <2>2. a \in [1 .. b + 2 -> Bytes]
    BY <1>1, <1>2, <2>1 DEF Bytes
  <2>3. QED
    BY <2>2
<1>4. /\ strlen(a) \in 0 .. b + 2
      /\ \A n \in 1 .. b + 2 : a[n] = NUL => strlen(a) <= n - 1
  BY <1>3, StrlenFacts
<1>5. CASE t = <<>>
  <2>1. a[1] = NUL
    BY <1>1, <1>2, <1>5
  <2>2. strlen(a) = 0
    BY <1>4, <2>1
  <2>3. QED
    BY <1>3, <1>4, <2>2
<1>6. CASE /\ Len(t) \in Nat \ {0} /\ t[Len(t)] = NUL
           /\ \A n \in 1 .. Len(t) - 1 : t[n] = "a"
  <2>1. ASSUME NEW n \in 1 .. strlen(a)
        PROVE  a[n] = "a" /\ n <= Len(t) - 1
    <3>1. n \in 1 .. b + 2
      BY <1>4
    <3>2. n <= Len(t) - 1
      <4> SUFFICES ASSUME ~(n <= Len(t) - 1) PROVE FALSE
        OBVIOUS
      <4>1. Len(t) \in 1 .. b + 2 /\ Len(t) <= n
        BY <1>6, <3>1
      <4>2. a[Len(t)] = NUL
        BY <1>2, <1>6, <4>1
      <4>3. strlen(a) <= Len(t) - 1
        BY <1>4, <4>1, <4>2
      <4>4. QED
        BY <1>4, <1>6, <4>1, <4>3
    <3>3. a[n] = t[n]
      BY <1>2, <1>6, <3>1, <3>2
    <3>4. QED
      BY <1>6, <3>2, <3>3
  <2>2. QED
    BY <1>3, <1>4, <2>1
<1>7. QED
  BY <1>5, <1>6 DEF IsAnswer

\* The room MPI is told of for a string it returns.
Room(told) ==
  IF Uses(routine, BoundedKinds) THEN told - 1
  ELSE IF Uses(routine, {"text_if_flag"}) THEN told ELSE MaxName

\* The string MPI returns with its NUL, or nothing.
LEMMA AnswerTextFacts ==
  ASSUME Given, NEW r \in Replies, NEW told \in Nat, NEW t, t = AnswerText(r, told),
         t # <<>>, ~r.cut
  PROVE  /\ Room(told) \in Nat /\ Len(t) = Min({Room(told), Len(r.str)}) + 1
         /\ Len(t) \in Nat \ {0} /\ t[Len(t)] = NUL
         /\ \A n \in 1 .. Len(t) - 1 : t[n] = "a"
<1> DEFINE room == CASE Uses(routine, BoundedKinds) -> told - 1
                     [] Uses(routine, {"text_if_flag"}) -> told
                     [] OTHER -> MaxName
           m == Min({room, Len(r.str)})
<1>1. ~(Uses(routine, BoundedKinds) /\ Uses(routine, {"text_if_flag"}))
  BY CallFacts DEF RowOK, ArgsOK, Alike, Uses, BoundedKinds, TextKinds
<1>2. /\ ~(Uses(routine, BoundedKinds) /\ told = 0)
      /\ t = SubSeq(r.str, 1, m) \o <<NUL>>
  BY DEF AnswerText
<1>3. room = Room(told) /\ room \in Nat
  BY <1>1, <1>2, SizesAssumption DEF Room
<1> HIDE DEF room
<1>4. Len(r.str) \in Nat /\ r.str \in Seq({"a"})
  <2>1. PICK l \in 0 .. MaxName : r.str = [n \in 1 .. l |-> "a"]
    BY DEF Replies
  <2>2. l \in Nat
    BY SizesAssumption
  <2>3. QED
    BY <2>1, <2>2
<1>5. m \in 0 .. Len(r.str)
  BY <1>3, <1>4, Lesser
<1> HIDE DEF m
<1>6. /\ Len(t) = m + 1 /\ t[m + 1] = NUL
      /\ \A n \in 1 .. m : t[n] = "a"
  BY <1>2, <1>4, <1>5, Terminated
<1>7. Len(t) \in Nat \ {0} /\ Len(t) - 1 = m /\ t[Len(t)] = NUL
  BY <1>4, <1>5, <1>6
<1>8. \A n \in 1 .. Len(t) - 1 : t[n] = "a"
  BY <1>6, <1>7
<1>9. Room(told) \in Nat /\ Len(t) = Min({Room(told), Len(r.str)}) + 1
  BY <1>3, <1>6 DEF m
<1>10. QED
  BY <1>7, <1>8, <1>9

\* No byte that MPI did not store reaches the program.
LEMMA TextIsClean ==
  ASSUME IInv, pc = "back", ~reply.cut
  PROVE  \A n \in 1 .. call.text_len : ReturnText[n] # Uninit
<1> USE DEF IInv
<1>1. CASE ~CopiesText
  BY <1>1 DEF ReturnText, Untouched, Uninit
<1>2. CASE CopiesText
  <2>1. Uses(routine, TextKinds) /\ call.text_len \in Nat
    BY <1>2, CallFacts DEF CopiesText
  <2>2. TextBuflen \in Nat
    BY <2>1, SizesAssumption DEF TextBuflen
  <2>3. array = Store(TextArray(TextBuflen), stored) /\ stored = AnswerText(reply, ToldLength)
    BY <2>1 DEF Left, FreshArray
  <2>4. ToldLength \in Nat
    BY CallFacts DEF ToldLength
  <2>5. reply \in Replies
    BY DEF Left
  <2>6. IsAnswer(stored)
    BY <2>3, <2>4, <2>5, AnswerTextFacts DEF IsAnswer
  <2>7. /\ array \in Seq(Bytes) /\ strlen(array) \in 0 .. Len(array)
        /\ \A n \in 1 .. strlen(array) : array[n] = "a"
    BY <2>2, <2>3, <2>6, ReadIsStored
  <2> DEFINE l == strlen(array)
             s == SubSeq(array, 1, l)
  <2>8. Len(s) = strlen(array) /\ \A n \in 1 .. Len(s) : s[n] = array[n]
    <3>1. array \in Seq(Bytes) /\ l \in 0 .. Len(array)
      BY <2>7
    <3> HIDE DEF l
    <3>2. Len(s) = l /\ \A n \in 1 .. l : s[n] = array[n]
      BY <3>1, Prefix
    <3>3. QED
      BY <3>2 DEF l
  <2>9. ReturnText = [n \in 1 .. call.text_len |-> IF n <= Len(s) THEN s[n] ELSE Blank]
    BY <1>2 DEF ReturnText, strcpy_c2f
  <2> HIDE DEF s
  <2>10. \A n \in 1 .. Len(s) : s[n] = "a"
    BY <2>7, <2>8
  <2>11. ASSUME NEW n \in 1 .. call.text_len PROVE ReturnText[n] # Uninit
    <3>1. CASE n <= Len(s)
      <4>1. ReturnText[n] = "a"
        BY <2>1, <2>7, <2>8, <2>9, <2>10, <3>1
      <4>2. QED
        BY <4>1 DEF Uninit
    <3>2. CASE ~(n <= Len(s))
      BY <2>9, <3>2 DEF Uninit, Blank
    <3>3. QED
      BY <3>1, <3>2
  <2>12. QED
    BY <2>11
<1>3. QED
  BY <1>1, <1>2

-----------------------------------------------------------------------------
(* The return *)

\* What a variable becomes: the results of one that MPI defines, or what it was.
LEMMA VariableReturned ==
  ASSUME IInv, pc = "back", NEW k \in DOMAIN routine.args
  PROVE  /\ WriteBack(k) \notin Constants \cup {"garbage", "unset"}
         /\ routine.args[k].kind \in {"new", "inout"} => WriteBack(k) = c[k]
<1> USE DEF IInv
<1> DEFINE kind == routine.args[k].kind
<1>1. /\ Answered(k) /\ reply \in Replies
      /\ ierror = IF reply.outcome = "ok" THEN "MPI_SUCCESS" ELSE "error"
      /\ AtRootHere /\ var = call.arg
  BY DEF Left, Asked, Untouched
<1>2. reply.outcome \in {"ok", "error", "in_status"}
  BY <1>1, ReplyFacts
<1>3. CASE kind \in {"new", "inout"}
  <2>1. WriteBack(k) = c[k] /\ c[k] \in {"live", "null"}
    BY <1>1, <1>3 DEF WriteBack, Answered
  <2>2. QED
    BY <2>1 DEF Constants
<1>4. CASE kind = "flag"
  <2>1. WriteBack(k) \in {".TRUE.", ".FALSE."}
    BY <1>4 DEF WriteBack, mpif_bool2logical
  <2>2. QED
    BY <1>4, <2>1 DEF Constants
<1>5. CASE kind = "attribute"
  <2>1. CASE ierror # "MPI_SUCCESS" \/ ~CFlag
    <3>1. WriteBack(k) = "zero"
      BY <1>5, <2>1 DEF WriteBack
    <3>2. QED
      BY <1>5, <3>1 DEF Constants
  <2>2. CASE ierror = "MPI_SUCCESS" /\ CFlag
    <3>1. PICK j \in DOMAIN routine.args : routine.args[j].kind = "flag" /\ c[j] = "1"
      BY <2>2 DEF CFlag
    <3>2. Answered(j) /\ reply.outcome # "error"
      BY <1>1, <2>2 DEF Left
    <3>3. c[j] = IF reply.flag THEN "1" ELSE "0"
      BY <3>1, <3>2 DEF Answered
    <3>4. c[k] = IF reply.flag THEN "value" ELSE "garbage"
      BY <1>1, <1>5, <3>2 DEF Answered
    <3>5. WriteBack(k) = "value"
      BY <1>5, <2>2, <3>1, <3>3, <3>4 DEF WriteBack
    <3>6. QED
      BY <1>5, <3>5 DEF Constants
  <2>3. QED
    BY <2>1, <2>2
<1>6. CASE kind = "detached"
  <2>1. ~Uses(routine, {"requests"})
    <3>1. Alike(routine.args, {"detached", "requests"})
      BY CallFacts DEF RowOK, ArgsOK
    <3>2. QED
      BY <1>6, <3>1 DEF Alike, Uses
  <2>2. reply.outcome # "in_status"
    BY <1>1, <2>1, ReplyFacts
  <2>3. /\ reply.outcome = "ok" => c[k] \in {"address", "MPI_BUFFER_AUTOMATIC"}
        /\ reply.outcome = "error" => c[k] = "old"
    BY <1>1, <1>6 DEF Answered
  <2>4. WriteBack(k) = IF reply.outcome = "ok" THEN mpif_f_buffer_addr(c[k]) ELSE c[k]
    BY <1>1, <1>6 DEF WriteBack
  <2>5. WriteBack(k) \in {"address", "mpif_buffer_automatic_", "old"}
    BY <1>2, <2>2, <2>3, <2>4 DEF mpif_f_buffer_addr
  <2>6. QED
    BY <1>6, <2>5 DEF Constants
<1>7. CASE kind \notin {"new", "inout", "flag", "attribute", "detached"}
  <2>1. WriteBack(k) = call.arg[k]
    BY <1>1, <1>7 DEF WriteBack
  <2>2. call.arg[k] \notin Constants \cup {"garbage", "unset"}
    BY <1>1, EveryCrossing DEF Crosses
  <2>3. QED
    BY <1>7, <2>1, <2>2
<1>8. QED
  BY <1>3, <1>4, <1>5, <1>6, <1>7

\* The conversion of the results.
LEMMA ReturnStep ==
  ASSUME IInv, Return
  PROVE  IInv'
<1> USE DEF IInv
<1>1. /\ pc = "back" /\ pc' = "returned"
      /\ var' = [k \in DOMAIN routine.args |-> WriteBack(k)]
      /\ text' = ReturnText /\ len' = ReturnLength /\ reqs' = ReturnRequests
      /\ copies' = {k \in copies : ~Frees(k)}
      /\ UNCHANGED <<routine, call, q_at_root, c, read, array, c_len, stored, c_reqs, reply,
                     ierror, outcount>>
  BY DEF Return, input
<1>2. /\ reply \in Replies /\ c_reqs = RequestsLeft /\ reqs = call.reqs
      /\ \A k \in DOMAIN routine.args : Answered(k)
  BY <1>1 DEF Left, Untouched
<1>3. Given' <=> Given
  BY <1>1, InputIsFixed
<1>4. /\ call.text_len \in Nat /\ Len(call.reqs) \in Nat
      /\ DOMAIN call.reqs = 1 .. Len(call.reqs)
  BY CallFacts
<1>5. copies' = {}
  <2>1. \A k : Allocates(k) => Frees(k)
    BY DEF Allocates, Frees
  <2>2. copies = {k \in DOMAIN routine.args : Allocates(k)}
    BY <1>1 DEF Copied
  <2>3. QED
    BY <1>1, <2>1, <2>2
<1>6. /\ DOMAIN ReturnText = 1 .. call.text_len /\ Len(ReturnText) = call.text_len
  <2>1. ReturnText = text \/ \E s : ReturnText = strcpy_c2f(s, call.text_len)
    BY DEF ReturnText
  <2>2. \A s : /\ DOMAIN strcpy_c2f(s, call.text_len) = 1 .. call.text_len
               /\ Len(strcpy_c2f(s, call.text_len)) = call.text_len
    BY <1>4 DEF strcpy_c2f
  <2>3. DOMAIN text = 1 .. call.text_len /\ Len(text) = call.text_len
    BY <1>1, <1>4 DEF Untouched
  <2>4. QED
    BY <2>1, <2>2, <2>3
<1>7. DOMAIN reqs' = DOMAIN call.reqs /\ Len(reqs') = Len(call.reqs)
  <2>1. DOMAIN RequestsLeft = DOMAIN call.reqs /\ Len(RequestsLeft) = Len(call.reqs)
    BY <1>4 DEF RequestsLeft
  <2>2. QED
    BY <1>1, <1>2, <2>1 DEF ReturnRequests
<1>8. TypeOK'
  <2>1. len' \in Nat
    BY <1>1 DEF ReturnLength, TypeOK
  <2>2. DOMAIN var' = DOMAIN routine.args
    BY <1>1
  <2>3. QED
    BY <1>1, <1>5, <1>6, <1>7, <2>1, <2>2 DEF TypeOK
<1>9. VarsClean'
  BY <1>1, VariableReturned DEF VarsClean
<1>10. ResultsTruthful'
  <2>1. \A k \in DOMAIN routine.args : var'[k] \notin {"garbage", "unset"}
    BY <1>1, VariableReturned
  <2>2. ~reply.cut => Uninit \notin Range(text')
    BY <1>1, <1>6, TextIsClean DEF Range
  <2>3. ASSUME NEW k \in DOMAIN routine.args
        PROVE  /\ routine.args[k].kind = "new" =>
                    (var'[k] = "live" <=> reply.outcome # "error" /\ reply.object)
               /\ routine.args[k].kind = "inout" =>
                    (var'[k] = "live" <=> ~(reply.outcome # "error" /\ ~reply.object))
    <3>1. routine.args[k].kind \in {"new", "inout"} => var'[k] = c[k]
      BY <1>1, VariableReturned
    <3>2. QED
      BY <1>2, <3>1 DEF Answered
  <2>4. ASSUME NEW n \in DOMAIN reqs'
        PROVE  reqs'[n] = "live"
                 <=> /\ call.reqs[n] = "live"
                     /\ ~(n \in reply.done /\ ~reply.object /\ Uses(routine, {"requests"}))
    <3>1. n \in DOMAIN call.reqs
      BY <1>7
    <3>2. CASE Uses(routine, {"requests"})
      <4>1. reqs'[n] = RequestsLeft[n]
        BY <1>1, <1>2, <3>2 DEF ReturnRequests
      <4>2. QED
        BY <3>1, <3>2, <4>1 DEF RequestsLeft
    <3>3. CASE ~Uses(routine, {"requests"})
      BY <1>1, <1>2, <3>3 DEF ReturnRequests
    <3>4. QED
      BY <3>2, <3>3
  <2>5. QED
    BY <1>1, <2>1, <2>2, <2>3, <2>4 DEF ResultsTruthful
<1>11. QED
  BY <1>1, <1>3, <1>5, <1>8, <1>9, <1>10 DEF Asked, Untouched, Copied, Converted, Left

-----------------------------------------------------------------------------
(* The theorems *)

\* The inductive invariant holds in every reachable state.
LEMMA Invariance == Spec => []IInv
<1>1. IInv /\ [Next]_vars => IInv'
  BY LookUpStep, LookUpFailsStep, ConvertStep, CallStep, ReturnStep, StutterStep
  DEF Next, Returned
<1>2. QED
  BY InitEstablishes, <1>1, PTL DEF Spec

\* In whichever of the Fortran interfaces a sentinel is passed, MPI sees the constant
\* it stands for, an ordinary address never becomes one, and no constant of C reaches
\* a variable of the program, in every wrapper.
THEOREM SentinelsAreTranslated == Spec => []SentinelsTranslated
<1>1. IInv => SentinelsTranslated
  <2> SUFFICES ASSUME IInv, NEW k \in DOMAIN routine.args
               PROVE  /\ pc = "call" =>
                           IF call.arg[k] \in Cells THEN c[k] = Meaning[call.arg[k]]
                                                    ELSE c[k] \notin Range(Meaning)
                      /\ pc = "returned" => var[k] \notin Range(Meaning)
    BY DEF SentinelsTranslated
  <2>1. pc = "returned" => var[k] \notin Constants
    BY DEF IInv, VarsClean
  <2>2. pc = "call" => Crosses(k) /\ c[k] = ConvertArg(k)
    BY EveryCrossing DEF IInv, Asked, Converted
  <2>3. QED
    BY <2>1, <2>2, Meanings DEF Crosses
<1>2. QED
  BY Invariance, <1>1, PTL

\* Whatever the communicator, the group and the topology, a wrapper reads of its
\* arguments what the program supplies, and hands on what is significant here.
THEOREM ReadsAreSupplied == Spec => []ReadsWhatIsSupplied
<1>1. IInv => ReadsWhatIsSupplied
  <2> SUFFICES ASSUME IInv, pc = "call", NEW k \in DOMAIN routine.args
               PROVE  LET kind == routine.args[k].kind IN
                      /\ c[k] # "junk"
                      /\ read[k] = Supplied(k)
                      /\ kind \in {"handle"} \cup StringKinds =>
                           (Significant(routine, k, call.comm) <=> c[k] # "null")
                      /\ kind \in VectorKinds =>
                           (k \in copies <=>
                              Significant(routine, k, call.comm) /\ call.arg[k] = "data")
    BY DEF ReadsWhatIsSupplied
  <2>1. Crosses(k) /\ c[k] = ConvertArg(k) /\ read[k] = Supplied(k)
    BY EveryCrossing, ReadsSupplied DEF IInv, Asked, Converted
  <2>2. k \in copies <=> Allocates(k)
    BY DEF IInv, Copied
  <2>3. QED
    BY <2>1, <2>2 DEF Crosses
<1>2. QED
  BY Invariance, <1>1, PTL

\* Whatever MPI answers, handles and requests say what MPI has, and no variable comes
\* from a C local that was never set; and where MPI ends its strings with a NUL, no
\* string holds a byte MPI did not store.
THEOREM ResultsAreTruthful == Spec => []ResultsTruthful
<1>1. IInv => ResultsTruthful
  BY DEF IInv
<1>2. QED
  BY Invariance, <1>1, PTL

\* Every copy of a string or an argument vector is freed when the entry returns, is
\* there as long as MPI has it, and nothing else is freed.
THEOREM CopiesAreFreed == Spec => []CopiesFreed
<1>1. IInv => CopiesFreed
  <2> SUFFICES ASSUME IInv PROVE CopiesFreed
    OBVIOUS
  <2>1. TypeOK /\ (pc = "returned" => copies = {})
    BY DEF IInv, Copied
  <2>2. ASSUME pc = "call", NEW k \in DOMAIN routine.args, c[k] = "copy" PROVE k \in copies
    <3>1. Crosses(k) /\ c[k] = ConvertArg(k)
      BY <2>2, EveryCrossing DEF IInv, Asked, Converted
    <3>2. QED
      BY <2>2, <3>1 DEF Crosses, IInv, Copied
  <2>3. ASSUME pc = "back", NEW k \in DOMAIN routine.args, c[k] = "copy" PROVE k \in copies
    BY <2>3 DEF IInv, Left, Answered
  <2>4. pc = "back" => {k \in DOMAIN routine.args : Frees(k)} \subseteq copies
    BY DEF IInv, Copied, Allocates, Frees
  <2>5. QED
    BY <2>1, <2>2, <2>3, <2>4 DEF CopiesFreed
<1>2. QED
  BY Invariance, <1>1, PTL
-----------------------------------------------------------------------------
(* Strings that are returned *)

\* The string of a reply.
LEMMA ReplyString ==
  ASSUME NEW r \in Replies
  PROVE  /\ r.str \in Seq({"a"}) /\ Len(r.str) \in 0 .. MaxName
         /\ \A n \in 1 .. Len(r.str) : r.str[n] = "a"
<1>1. PICK m \in 0 .. MaxName : r.str = [n \in 1 .. m |-> "a"]
  BY DEF Replies
<1>2. m \in Nat
  BY SizesAssumption
<1>3. QED
  BY <1>1, <1>2

\* A routine returns a string in one way.
LEMMA OneWay ==
  ASSUME Given
  PROVE  \A x, y \in TextKinds : Uses(routine, {x}) /\ Uses(routine, {y}) => x = y
BY CallFacts DEF RowOK, ArgsOK, Alike, Uses

\* Which of the ways it is.
LEMMA Ways ==
  ASSUME Given, Uses(routine, TextKinds)
  PROVE  /\ \/ Uses(routine, BoundedKinds)
            \/ Uses(routine, {"text_if_flag"})
            \/ Uses(routine, {"text"}) /\ call.text_len = MaxName
            \/ Uses(routine, {"caller_text"})
         /\ Uses(routine, BoundedKinds) =>
              ~Uses(routine, {"text_if_flag"}) /\ ~Uses(routine, {"text"})
         /\ Uses(routine, {"text_if_flag"}) => ~Uses(routine, {"text"})
         /\ Uses(routine, {"caller_text"}) =>
              /\ ~Uses(routine, BoundedKinds) /\ ~Uses(routine, {"text_if_flag"})
              /\ ~Uses(routine, {"text"})
         /\ ~(Uses(routine, {"bounded"}) /\ Uses(routine, {"bounded_if_flag"}))
<1>1. /\ Uses(routine, BoundedKinds)
           <=> Uses(routine, {"bounded"}) \/ Uses(routine, {"bounded_if_flag"})
      /\ \E x \in TextKinds : Uses(routine, {x})
  BY DEF Uses, BoundedKinds, TextKinds
<1>2. \A x, y \in TextKinds : Uses(routine, {x}) /\ Uses(routine, {y}) => x = y
  BY OneWay
<1>3. call.text_len \in Lengths(routine)
  BY DEF Given, Calls
<1>4. Uses(routine, {"text"}) => call.text_len = MaxName
  BY <1>3 DEF Lengths
<1>5. QED
  BY <1>1, <1>2, <1>4 DEF TextKinds

\* The room MPI is told of is in the array, with a NUL and another to spare; where it
\* is told none, the array of the caller's length need not do.
LEMMA RoomIsThere ==
  ASSUME Given, Uses(routine, TextKinds), ~(Uses(routine, BoundedKinds) /\ ToldLength = 0)
  PROVE  /\ TextBuflen \in Nat /\ Room(ToldLength) \in Nat
         /\ ~Uses(routine, {"caller_text"}) => Room(ToldLength) <= TextBuflen
<1>1. call.text_len \in Nat /\ call.len \in Nat
  BY CallFacts
<1>2. CASE Uses(routine, BoundedKinds)
  <2>1. ~Uses(routine, {"text_if_flag"}) /\ ~Uses(routine, {"text"})
    BY <1>2, Ways
  <2>2. call.len > 0
    BY <1>1, <1>2, <2>1 DEF ToldLength
  <2>3. ToldLength = IF call.len <= call.text_len THEN call.len + 1 ELSE call.text_len + 1
    BY <1>2, <2>1, <2>2 DEF ToldLength
  <2>4. Room(ToldLength) = ToldLength - 1 /\ TextBuflen = call.text_len
    BY <1>2, <2>1 DEF Room, TextBuflen
  <2>5. QED
    BY <1>1, <2>2, <2>3, <2>4
<1>3. CASE Uses(routine, {"text_if_flag"})
  <2>1. ~Uses(routine, BoundedKinds) /\ ~Uses(routine, {"text"})
    BY <1>3, Ways
  <2>2. ToldLength = call.text_len /\ Room(ToldLength) = ToldLength /\ TextBuflen = call.text_len
    BY <1>3, <2>1 DEF ToldLength, Room, TextBuflen
  <2>3. QED
    BY <1>1, <2>2
<1>4. CASE Uses(routine, {"text"})
  <2>1. ~Uses(routine, BoundedKinds) /\ ~Uses(routine, {"text_if_flag"})
    BY <1>4, Ways
  <2>2. Room(ToldLength) = MaxName /\ TextBuflen = MaxName + 1
    BY <1>4, <2>1 DEF Room, TextBuflen
  <2>3. QED
    BY <2>2, SizesAssumption
<1>5. CASE Uses(routine, {"caller_text"})
  <2>1. /\ ~Uses(routine, BoundedKinds) /\ ~Uses(routine, {"text_if_flag"})
        /\ ~Uses(routine, {"text"}) 
    BY <1>5, Ways
  <2>2. Room(ToldLength) = MaxName /\ TextBuflen = call.text_len
    BY <2>1 DEF Room, TextBuflen
  <2>3. QED
    BY <1>1, <1>5, <2>2, SizesAssumption
<1>6. QED
  BY <1>2, <1>3, <1>4, <1>5, Ways

\* Whatever MPI stores, a cut string too, leaves the array's last byte alone; where
\* MPI is told no length it stores its string and the NUL.
LEMMA AnswerFits ==
  ASSUME Given, NEW r \in Replies, NEW t, t = AnswerText(r, ToldLength)
  PROVE  /\ Len(t) \in Nat
         /\ Uses(routine, TextKinds) =>
              /\ TextBuflen \in Nat
              /\ \/ Len(t) <= TextBuflen + 1
                 \/ /\ Uses(routine, {"caller_text"}) /\ Len(t) <= Len(r.str) + 1
                    /\ t # <<>> /\ t[Len(t)] = NUL
         /\ ~Uses(routine, TextKinds) => Len(t) = 0
<1> DEFINE room == CASE Uses(routine, BoundedKinds) -> ToldLength - 1
                     [] Uses(routine, {"text_if_flag"}) -> ToldLength
                     [] OTHER -> MaxName
<1>1. r.str \in Seq({"a"}) /\ Len(r.str) \in Nat
  BY ReplyString, SizesAssumption
<1>2. Uses(routine, TextKinds) => TextBuflen \in Nat
  BY CallFacts, SizesAssumption DEF TextBuflen
<1>3. CASE t = <<>>
  BY <1>2, <1>3
<1>4. CASE t # <<>>
  <2>1. Uses(routine, TextKinds) /\ ~(Uses(routine, BoundedKinds) /\ ToldLength = 0)
    BY <1>4 DEF AnswerText
  <2>2. room = Room(ToldLength)
    BY <2>1, Ways DEF Room
  <2>3. room \in Nat /\ (~Uses(routine, {"caller_text"}) => room <= TextBuflen)
    BY <2>1, <2>2, RoomIsThere
  <2>4. t = IF r.cut /\ Len(r.str) > room THEN SubSeq(r.str, 1, room + 1)
            ELSE SubSeq(r.str, 1, Min({room, Len(r.str)})) \o <<NUL>>
    BY <1>4 DEF AnswerText
  <2> HIDE DEF room
  <2>5. CASE r.cut /\ Len(r.str) > room
    <3>1. room + 1 \in 0 .. Len(r.str)
      BY <1>1, <2>3, <2>5
    <3>2. Len(t) = room + 1
      BY <1>1, <2>4, <2>5, <3>1, Prefix
    <3>3. ~Uses(routine, {"caller_text"})
      BY <2>1, <2>5, Ways DEF Replies
    <3>4. QED
      BY <1>2, <2>1, <2>3, <3>2, <3>3
  <2>6. CASE ~(r.cut /\ Len(r.str) > room)
    <3> DEFINE m == Min({room, Len(r.str)})
    <3>1. m \in 0 .. Len(r.str) /\ m <= room
      BY <1>1, <2>3, Lesser
    <3>2. t = SubSeq(r.str, 1, m) \o <<NUL>>
      BY <2>4, <2>6
    <3> HIDE DEF m
    <3>3. Len(t) = m + 1 /\ t[m + 1] = NUL
      BY <1>1, <3>1, <3>2, Terminated
    <3>4. Len(t) <= Len(r.str) + 1 /\ t[Len(t)] = NUL
      BY <1>1, <3>1, <3>3
    <3>5. QED
      BY <1>2, <1>4, <2>1, <2>3, <3>1, <3>3, <3>4
  <2>7. QED
    BY <2>5, <2>6
<1>5. QED
  BY <1>3, <1>4

\* TextDelivered with what it rests on: MPI was told ToldLength, and a call that
\* comes back has not stored more than its array holds.
TextInv ==
  /\ pc = "back" => /\ c_len = AnswerLength(reply, ToldLength)
                    /\ Len(stored) <= Len(array)
  /\ TextDelivered

\* The flag the program is told of is MPI's.
LEMMA FlagIsTheReplys ==
  ASSUME IInv, pc = "back"
  PROVE  CFlag <=> reply.outcome # "error" /\ reply.flag
<1>1. reply \in Replies /\ \A j \in DOMAIN routine.args : Answered(j)
  BY DEF IInv, Left
<1>2. reply.flag => \E j \in DOMAIN routine.args : routine.args[j].kind = "flag"
  BY <1>1 DEF Replies, Uses
<1>3. \A j \in DOMAIN routine.args :
        routine.args[j].kind = "flag" =>
          (c[j] = "1" <=> reply.outcome # "error" /\ reply.flag)
  BY <1>1 DEF Answered
<1>4. QED
  BY <1>2, <1>3 DEF CFlag

\* A string that is copied to the program's variable is MPI's, cut to its room.
LEMMA CopiedText ==
  ASSUME IInv, pc = "back", CopiesText, ierror = "MPI_SUCCESS", ~reply.cut
  PROVE  /\ stored # <<>> /\ Uses(routine, TextKinds)
         /\ ~(Uses(routine, BoundedKinds) /\ ToldLength = 0)
<1> USE DEF IInv
<1>1. /\ reply \in Replies /\ reply.outcome = "ok" /\ stored = AnswerText(reply, ToldLength)
  BY DEF Left
<1>2. Uses(routine, TextKinds)
  BY DEF CopiesText
<1>3. ~(Uses(routine, {"text_if_flag", "bounded_if_flag"}) /\ ~reply.flag)
  BY FlagIsTheReplys DEF CopiesText
<1>4. Uses(routine, BoundedKinds) => ToldLength # 0
  <2> SUFFICES ASSUME Uses(routine, BoundedKinds) PROVE ToldLength # 0
    OBVIOUS
  <2>1. call.len > 0 /\ ~Uses(routine, {"text_if_flag"})
    BY <1>2, Ways DEF CopiesText
  <2>2. ToldLength = IF call.len <= call.text_len THEN call.len + 1 ELSE call.text_len + 1
    BY <2>1 DEF ToldLength
  <2>3. QED
    BY <2>2, CallFacts
<1> DEFINE room == CASE Uses(routine, BoundedKinds) -> ToldLength - 1
                     [] Uses(routine, {"text_if_flag"}) -> ToldLength
                     [] OTHER -> MaxName
           m == Min({room, Len(reply.str)})
<1>5. stored = SubSeq(reply.str, 1, m) \o <<NUL>>
  BY <1>1, <1>2, <1>3, <1>4 DEF AnswerText
<1>6. room = Room(ToldLength)
  BY <1>2, Ways DEF Room
<1>7. room \in Nat
  BY <1>2, <1>4, <1>6, RoomIsThere
<1> HIDE DEF room
<1>8. reply.str \in Seq({"a"}) /\ m \in 0 .. Len(reply.str)
  <2>1. reply.str \in Seq({"a"}) /\ Len(reply.str) \in Nat
    BY <1>1, ReplyString, SizesAssumption
  <2>2. QED
    BY <1>7, <2>1, Lesser
<1> HIDE DEF m
<1>9. Len(stored) = m + 1
  BY <1>5, <1>8, Terminated
<1>10. QED
  BY <1>2, <1>4, <1>8, <1>9

\* strlen of the array is the length of MPI's string, cut to its room.
LEMMA ReadLength ==
  ASSUME NEW b \in Nat, NEW t, IsAnswer(t), t # <<>>, Len(t) <= b + 2
  PROVE  strlen(Store(TextArray(b), t)) = Len(t) - 1
<1> DEFINE a == Store(TextArray(b), t)
<1>1. /\ Len(t) \in Nat \ {0} /\ t[Len(t)] = NUL
      /\ \A n \in 1 .. Len(t) - 1 : t[n] = "a"
  BY DEF IsAnswer
<1>2. DOMAIN a = 1 .. b + 2 /\ \A n \in 1 .. Len(t) : a[n] = t[n]
  BY <1>1 DEF Store, TextArray
<1>3. Len(a) = b + 2
  BY ReadIsStored
<1> HIDE DEF a
<1>4. /\ strlen(a) \in 0 .. b + 2
      /\ \A n \in 1 .. b + 2 : a[n] = NUL => strlen(a) <= n - 1
      /\ strlen(a) = b + 2 \/ a[strlen(a) + 1] = NUL
  <2>1. Len(a) \in Nat /\ DOMAIN a = 1 .. Len(a)
    BY <1>2, <1>3
  <2>2. /\ strlen(a) \in 0 .. Len(a)
        /\ \A n \in 1 .. Len(a) : a[n] = NUL => strlen(a) <= n - 1
        /\ strlen(a) = Len(a) \/ a[strlen(a) + 1] = NUL
    BY <2>1, StrlenFacts
  <2>3. QED
    BY <1>3, <2>2
<1>5. strlen(a) <= Len(t) - 1
  <2>1. Len(t) \in 1 .. Len(t) /\ Len(t) \in 1 .. b + 2
    BY <1>1
  <2>2. a[Len(t)] = NUL
    BY <1>1, <1>2, <2>1
  <2>3. QED
    BY <1>4, <2>1, <2>2
<1>6. ASSUME strlen(a) < Len(t) - 1 PROVE FALSE
  <2>1. strlen(a) + 1 \in 1 .. Len(t) - 1
    BY <1>1, <1>4, <1>6
  <2>2. a[strlen(a) + 1] = "a"
    BY <1>1, <1>2, <2>1
  <2>3. QED
    BY <1>1, <1>4, <1>5, <2>2 DEF NUL
<1>7. strlen(a) = Len(t) - 1
  BY <1>1, <1>4, <1>5, <1>6
<1>8. QED
  BY <1>7 DEF a

\* Two strings of one letter that reach equally far into a variable fill it alike.
LEMMA SamePadding ==
  ASSUME NEW d \in Nat, NEW s, NEW u, Len(s) \in Nat, Len(u) \in Nat,
         \A n \in 1 .. Len(s) : s[n] = "a", \A n \in 1 .. Len(u) : u[n] = "a",
         \A n \in 1 .. d : n <= Len(s) <=> n <= Len(u)
  PROVE  strcpy_c2f(s, d) = strcpy_c2f(u, d)
<1>1. \A n \in 1 .. d : (IF n <= Len(s) THEN s[n] ELSE Blank)
                          = (IF n <= Len(u) THEN u[n] ELSE Blank)
  <2> SUFFICES ASSUME NEW n \in 1 .. d
               PROVE  (IF n <= Len(s) THEN s[n] ELSE Blank)
                        = (IF n <= Len(u) THEN u[n] ELSE Blank)
    OBVIOUS
  <2>1. n <= Len(s) => s[n] = "a" /\ n <= Len(u) /\ u[n] = "a"
    OBVIOUS
  <2>2. QED
    BY <2>1
<1>2. QED
  BY <1>1 DEF strcpy_c2f

\* A string of length l cut to a or to b reaches equally far into a variable of
\* length d, if both are the same or neither cuts what the variable would hold.
LEMMA SameCut ==
  ASSUME NEW a \in Nat, NEW b \in Nat, NEW l \in Nat, NEW d \in Nat,
         a = b \/ (l <= a /\ d = b)
  PROVE  /\ Min({a, l}) \in 0 .. l /\ Min({b, l}) \in 0 .. l
         /\ \A n \in 1 .. d : n <= Min({a, l}) <=> n <= Min({b, l})
<1>1. /\ Min({a, l}) = IF a <= l THEN a ELSE l
      /\ Min({b, l}) = IF b <= l THEN b ELSE l
  BY Lesser
<1>2. QED
  BY <1>1

\* The room the program has: what it asks for, and its variable's length.
RoomAsked ==
  IF Uses(routine, BoundedKinds) THEN Min({call.len, call.text_len}) ELSE call.text_len

\* It is the room MPI is told of, or the whole variable where MPI is told none.
LEMMA RoomIsAsked ==
  ASSUME Given, Uses(routine, TextKinds), Uses(routine, BoundedKinds) => call.len > 0
  PROVE  /\ Room(ToldLength) \in Nat /\ RoomAsked \in Nat
         /\ \/ Room(ToldLength) = RoomAsked
            \/ Room(ToldLength) = MaxName /\ RoomAsked = call.text_len
<1>1. call.text_len \in Nat /\ call.len \in Nat
  BY CallFacts
<1>2. CASE Uses(routine, BoundedKinds)
  <2>1. ~Uses(routine, {"text_if_flag"}) /\ call.len > 0
    BY <1>2, Ways
  <2>2. ToldLength = IF call.len <= call.text_len THEN call.len + 1 ELSE call.text_len + 1
    BY <1>2, <2>1 DEF ToldLength
  <2>3. RoomAsked = IF call.len <= call.text_len THEN call.len ELSE call.text_len
    BY <1>1, <1>2, Lesser DEF RoomAsked
  <2>4. QED
    BY <1>1, <1>2, <2>2, <2>3 DEF Room
<1>3. CASE Uses(routine, {"text_if_flag"})
  <2>1. ~Uses(routine, BoundedKinds)
    BY <1>3, Ways
  <2>2. Room(ToldLength) = call.text_len /\ RoomAsked = call.text_len
    <3>1. ToldLength = call.text_len
      BY <1>3, <2>1 DEF ToldLength
    <3>2. QED
      BY <1>3, <2>1, <3>1 DEF Room, RoomAsked
  <2>3. QED
    BY <1>1, <2>2
<1>4. CASE ~Uses(routine, BoundedKinds) /\ ~Uses(routine, {"text_if_flag"})
  <2>1. Room(ToldLength) = MaxName /\ RoomAsked = call.text_len
    BY <1>4 DEF Room, RoomAsked
  <2>2. QED
    BY <1>1, <2>1, SizesAssumption
<1>5. QED
  BY <1>2, <1>3, <1>4

\* After a call that succeeded the program has as much of MPI's string as fits.
LEMMA TextIsReturned ==
  ASSUME IInv, TextInv, pc = "back", CopiesText, ierror = "MPI_SUCCESS", ~reply.cut
  PROVE  ReturnText
           = strcpy_c2f(SubSeq(reply.str, 1, Min({RoomAsked, Len(reply.str)})), call.text_len)
<1> USE DEF IInv
<1>1. /\ reply \in Replies /\ stored # <<>> /\ Uses(routine, TextKinds)
      /\ stored = AnswerText(reply, ToldLength) /\ ToldLength \in Nat
      /\ TextBuflen \in Nat /\ Len(stored) <= TextBuflen + 2
      /\ array = Store(TextArray(TextBuflen), stored)
  <2>1. stored # <<>> /\ Uses(routine, TextKinds)
    BY CopiedText
  <2>2. /\ reply \in Replies /\ stored = AnswerText(reply, ToldLength)
        /\ array = Store(TextArray(TextBuflen), stored)
    BY <2>1 DEF Left, FreshArray
  <2>3. ToldLength \in Nat
    BY CallFacts DEF ToldLength
  <2>4. TextBuflen \in Nat
    BY CallFacts, SizesAssumption DEF TextBuflen
  <2>5. Len(array) = TextBuflen + 2
    BY <2>2, <2>4 DEF Store, TextArray
  <2>6. QED
    BY <2>1, <2>2, <2>3, <2>4, <2>5 DEF TextInv
<1> DEFINE m == Min({Room(ToldLength), Len(reply.str)})
           n == Min({RoomAsked, Len(reply.str)})
           l == strlen(array)
           s == SubSeq(array, 1, l)
           u == SubSeq(reply.str, 1, n)
<1>2. Len(stored) = m + 1 /\ IsAnswer(stored)
  BY <1>1, AnswerTextFacts DEF IsAnswer
<1>3. reply.str \in Seq({"a"}) /\ Len(reply.str) \in 0 .. MaxName
  BY <1>1, ReplyString
<1>4. /\ m \in 0 .. Len(reply.str) /\ n \in 0 .. Len(reply.str)
      /\ \A i \in 1 .. call.text_len : i <= m <=> i <= n
  <2>1. Uses(routine, BoundedKinds) => call.len > 0
    BY DEF CopiesText
  <2>2. /\ Room(ToldLength) \in Nat /\ RoomAsked \in Nat
        /\ \/ Room(ToldLength) = RoomAsked
           \/ Room(ToldLength) = MaxName /\ RoomAsked = call.text_len
    BY <1>1, <2>1, RoomIsAsked
  <2>3. /\ Len(reply.str) \in Nat
        /\ \/ Room(ToldLength) = RoomAsked
           \/ Len(reply.str) <= Room(ToldLength) /\ RoomAsked = call.text_len
    BY <1>3, <2>2, SizesAssumption
  <2>4. call.text_len \in Nat
    BY CallFacts
  <2>5. QED
    BY <2>2, <2>3, <2>4, SameCut
<1>5. l = Len(stored) - 1
  BY <1>1, <1>2, ReadLength
<1>6. /\ array \in Seq(Bytes) /\ l \in 0 .. Len(array)
      /\ \A i \in 1 .. l : array[i] = "a"
  BY <1>1, <1>2, ReadIsStored
<1>7. ReturnText = strcpy_c2f(s, call.text_len)
  BY DEF ReturnText
<1> HIDE DEF m, n, l
<1>8. Len(s) = l /\ \A i \in 1 .. l : s[i] = array[i]
  BY <1>6, Prefix
<1>9. Len(u) = n /\ \A i \in 1 .. n : u[i] = reply.str[i]
  BY <1>3, <1>4, Prefix
<1>10. \A i \in 1 .. n : reply.str[i] = "a"
  BY <1>3, <1>4
<1> HIDE DEF s, u
<1>11. l = m /\ m \in Nat /\ n \in Nat
  BY <1>2, <1>3, <1>4, <1>5
<1>12. /\ Len(s) \in Nat /\ \A i \in 1 .. Len(s) : s[i] = "a"
       /\ Len(u) \in Nat /\ \A i \in 1 .. Len(u) : u[i] = "a"
  BY <1>6, <1>8, <1>9, <1>10, <1>11
<1>13. \A i \in 1 .. call.text_len : i <= Len(s) <=> i <= Len(u)
  BY <1>4, <1>8, <1>9, <1>11
<1>14. call.text_len \in Nat
  BY CallFacts
<1>15. strcpy_c2f(s, call.text_len) = strcpy_c2f(u, call.text_len)
  BY <1>12, <1>13, <1>14, SamePadding
<1>16. QED
  BY <1>7, <1>15 DEF u, n

\* The length the program is told is that of MPI's string, not of what fits, or the
\* room it has where MPI does not report the string's.
LEMMA LengthIsReturned ==
  ASSUME IInv, TextInv, pc = "back", ierror = "MPI_SUCCESS", Uses(routine, BoundedKinds),
         Uses(routine, {"bounded_if_flag"}) => reply.flag
  PROVE  ReturnLength = IF reply.reports \/ call.len = 0 THEN Len(reply.str) ELSE RoomAsked
<1>1. reply \in Replies /\ reply.outcome = "ok"
  BY DEF IInv, Left
<1>2. Uses(routine, TextKinds) /\ ~Uses(routine, {"text_if_flag"})
  <2>1. Uses(routine, TextKinds)
    BY DEF Uses, TextKinds, BoundedKinds
  <2>2. QED
    BY <2>1, Ways DEF IInv
<1>3. Uses(routine, {"bounded"}) \/ (Uses(routine, {"bounded_if_flag"}) /\ CFlag)
  <2>1. Uses(routine, {"bounded"}) \/ Uses(routine, {"bounded_if_flag"})
    BY DEF Uses, BoundedKinds
  <2>2. QED
    BY <1>1, <2>1, FlagIsTheReplys
<1>4. call.text_len \in Nat /\ call.len \in Nat /\ Len(reply.str) \in Nat
  BY <1>1, CallFacts, ReplyString, SizesAssumption DEF IInv
<1>5. ToldLength = IF call.len = 0 THEN 0
                   ELSE IF call.len <= call.text_len THEN call.len + 1 ELSE call.text_len + 1
  BY <1>2, <1>4 DEF ToldLength
<1>6. RoomAsked = IF call.len <= call.text_len THEN call.len ELSE call.text_len
  BY <1>4, Lesser DEF RoomAsked
<1>7. c_len = IF reply.reports \/ ToldLength = 0 THEN Len(reply.str) + 1 ELSE ToldLength
  BY <1>1 DEF TextInv, AnswerLength
<1>8. ReturnLength = IF c_len > 0 THEN c_len - 1 ELSE 0
  BY <1>3 DEF ReturnLength
<1>9. CASE reply.reports \/ call.len = 0
  BY <1>4, <1>5, <1>7, <1>8, <1>9
<1>10. CASE ~(reply.reports \/ call.len = 0)
  <2>1. ToldLength # 0 /\ ToldLength - 1 = RoomAsked /\ ToldLength > 0
    BY <1>4, <1>5, <1>6, <1>10
  <2>2. QED
    BY <1>4, <1>6, <1>7, <1>8, <1>10, <2>1
<1>11. QED
  BY <1>9, <1>10

\* strlen stops inside the array after every answer that fits it, and the only answer
\* that does not is a string for a variable of the caller's length.
LEMMA ArrayIsEnded ==
  ASSUME Given, NEW r \in Replies, Uses(routine, TextKinds),
         NEW t, t = AnswerText(r, ToldLength), NEW a, a = Store(TextArray(TextBuflen), t)
  PROVE  /\ Len(t) <= TextBuflen + 2 => strlen(a) < Len(a)
         /\ ~(Len(t) <= TextBuflen + 2) =>
              Uses(routine, {"caller_text"}) /\ Len(r.str) > call.text_len + 1
<1> DEFINE b == TextBuflen
<1>1. /\ b \in Nat /\ Len(t) \in Nat
      /\ \/ Len(t) <= b + 1
         \/ /\ Uses(routine, {"caller_text"}) /\ Len(t) <= Len(r.str) + 1
            /\ t # <<>> /\ t[Len(t)] = NUL
  BY AnswerFits
<1>2. DOMAIN TextArray(b) = 1 .. b + 2 /\ TextArray(b)[b + 2] = NUL
  BY <1>1 DEF TextArray
<1>3. a = [n \in 1 .. b + 2 |-> IF n <= Len(t) THEN t[n] ELSE TextArray(b)[n]]
  BY <1>2 DEF Store
<1>4. Uses(routine, {"caller_text"}) => b = call.text_len
  BY Ways DEF TextBuflen
<1>5. Len(r.str) \in Nat /\ call.text_len \in Nat
  BY CallFacts, ReplyString, SizesAssumption
<1> HIDE DEF b
<1>6. DOMAIN a = 1 .. b + 2 /\ Len(a) = b + 2
  BY <1>1, <1>3
<1>7. ASSUME Len(t) <= b + 2 PROVE strlen(a) < Len(a)
  <2>1. a[b + 2] = NUL
    BY <1>1, <1>2, <1>3, <1>7
  <2>2. /\ strlen(a) \in 0 .. b + 2
        /\ \A n \in 1 .. b + 2 : a[n] = NUL => strlen(a) <= n - 1
    BY <1>1, <1>6, StrlenFacts
  <2>3. b + 2 \in 1 .. b + 2
    BY <1>1
  <2>4. QED
    BY <1>1, <1>6, <2>1, <2>2, <2>3
<1>8. ASSUME ~(Len(t) <= b + 2)
      PROVE  Uses(routine, {"caller_text"}) /\ Len(r.str) > call.text_len + 1
  BY <1>1, <1>4, <1>5, <1>8
<1>9. QED
  BY <1>7, <1>8 DEF b

\* MPI writes past the array only where it is told no length and its string is longer
\* by two than the variable the program chose; strlen never reads past it; the program
\* has as much of MPI's string as it has room for, and the length it gets back is the
\* string's or, where MPI does not report that, the room it has.
THEOREM TextIsDelivered == Spec => []TextDelivered
<1>1. Init => TextInv
  BY DEF Init, TextInv, TextDelivered
<1>2. IInv /\ IInv' /\ TextInv /\ [Next]_vars => TextInv'
  <2> SUFFICES ASSUME IInv, IInv', TextInv, [Next]_vars PROVE TextInv'
    OBVIOUS
  <2>1. CASE LookUp
    BY <2>1 DEF LookUp, TextInv, TextDelivered
  <2>2. CASE LookUpFails
    BY <2>2 DEF LookUpFails, TextInv, TextDelivered
  <2>3. CASE Convert
    BY <2>3 DEF Convert, TextInv, TextDelivered
  <2>4. CASE CallMPI
    <3>1. /\ pc = "call" /\ routine' = routine /\ call' = call
          /\ pc' = IF Len(stored') <= Len(array) THEN "back" ELSE "overrun"
      BY <2>4 DEF CallMPI, input
    <3>2. PICK r \in Replies :
            /\ reply' = r /\ stored' = AnswerText(r, c_len)
            /\ array' = Store(array, stored') /\ c_len' = AnswerLength(r, c_len)
      BY <2>4 DEF CallMPI
    <3>3. c_len = ToldLength /\ array = FreshArray /\ Given
      BY <3>1 DEF IInv, Converted
    <3>4. c_len' = AnswerLength(reply, ToldLength)'
      BY <3>1, <3>2, <3>3, InputIsFixed DEF AnswerLength
    <3>5. CASE Uses(routine, TextKinds)
      <4>1. array = TextArray(TextBuflen) /\ TextBuflen \in Nat
        BY <3>3, <3>5, CallFacts, SizesAssumption DEF FreshArray, TextBuflen
      <4>2. /\ DOMAIN array = 1 .. TextBuflen + 2 /\ Len(array) = TextBuflen + 2
            /\ Len(array') = Len(array)
        BY <3>2, <4>1 DEF TextArray, Store
      <4>3. /\ Len(stored') <= TextBuflen + 2 => strlen(array') < Len(array')
            /\ ~(Len(stored') <= TextBuflen + 2) =>
                 Uses(routine, {"caller_text"}) /\ Len(r.str) > call.text_len + 1
        BY <3>2, <3>3, <3>5, <4>1, ArrayIsEnded
      <4>4. QED
        BY <3>1, <3>2, <3>4, <4>2, <4>3 DEF TextInv, TextDelivered
    <3>6. CASE ~Uses(routine, TextKinds)
      <4>1. array = <<>> /\ Len(stored') = 0
        BY <3>2, <3>3, <3>6, AnswerFits DEF FreshArray
      <4>2. Len(array') = 0
        <5>1. array' = [n \in DOMAIN << >> |-> IF n <= Len(stored') THEN stored'[n] ELSE << >>[n]]
          BY <3>2, <4>1 DEF Store
        <5>2. DOMAIN array' = 1 .. 0
          BY <5>1
        <5>3. QED
          BY <5>1, <5>2
      <4>3. ~CopiesText'
        BY <3>1, <3>6 DEF CopiesText
      <4>4. pc' = "back" /\ Len(stored') <= Len(array')
        BY <3>1, <4>1, <4>2
      <4>5. QED
        BY <3>4, <4>3, <4>4 DEF TextInv, TextDelivered
    <3>7. QED
      BY <3>5, <3>6
  <2>5. CASE Return
    <3>1. /\ pc = "back" /\ pc' = "returned" /\ text' = ReturnText /\ len' = ReturnLength
          /\ UNCHANGED <<routine, call, c, array, stored, reply, ierror>>
      BY <2>5 DEF Return, input
    <3>2. CopiesText' <=> CopiesText
      BY <3>1 DEF CopiesText, CFlag
    <3>3. ierror = "MPI_SUCCESS" /\ ~reply.cut /\ CopiesText =>
            text' = strcpy_c2f(SubSeq(reply.str, 1, Min({RoomAsked, Len(reply.str)})),
                               call.text_len)
      BY <3>1, TextIsReturned
    <3>4. (/\ ierror = "MPI_SUCCESS" /\ Uses(routine, BoundedKinds)
           /\ Uses(routine, {"bounded_if_flag"}) => reply.flag)
          => len' = IF reply.reports \/ call.len = 0 THEN Len(reply.str) ELSE RoomAsked
      BY <3>1, LengthIsReturned
    <3>5. QED
      BY <3>1, <3>2, <3>3, <3>4 DEF TextInv, TextDelivered, RoomAsked
  <2>6. CASE UNCHANGED vars
    <3>1. UNCHANGED <<routine, call, pc, c, array, c_len, stored, reply, ierror, text, len>>
      BY <2>6 DEF vars, input, c_side, program
    <3>2. AnswerLength(reply, ToldLength)' = AnswerLength(reply, ToldLength)
      BY <3>1 DEF AnswerLength, ToldLength
    <3>3. CopiesText' <=> CopiesText
      BY <3>1 DEF CopiesText, CFlag
    <3>4. QED
      BY <3>1, <3>2, <3>3 DEF TextInv, TextDelivered
  <2>7. QED
    BY <2>1, <2>2, <2>3, <2>4, <2>5, <2>6 DEF Next, Returned
<1>3. QED
  BY Invariance, <1>1, <1>2, PTL DEF Spec, TextInv
-----------------------------------------------------------------------------
(* Positions of completed requests *)

\* The positions MPI returns are those of the completed requests, each once.
LEMMA PositionsFacts ==
  ASSUME NEW N \in Nat, NEW done \in SUBSET (1 .. N)
  PROVE  /\ Cardinality(done) \in 0 .. N
         /\ DOMAIN Positions(done) = 1 .. Cardinality(done)
         /\ \A j \in 1 .. Cardinality(done) : Positions(done)[j] \in Nat
         /\ {Positions(done)[j] + 1 : j \in 1 .. Cardinality(done)} = done
<1> DEFINE card == Cardinality(done)
           UpTo(n) == {m \in done : m <= n}
           rank == [n \in done |-> Cardinality(UpTo(n))]
           At(j) == CHOOSE n \in done : Cardinality(UpTo(n)) = j
<1>1. IsFiniteSet(done) /\ card \in 0 .. N
  <2>1. IsFiniteSet(1 .. N) /\ Cardinality(1 .. N) = N
    BY FS_Interval
  <2>2. IsFiniteSet(done) /\ card <= N
    BY <2>1, FS_Subset
  <2>3. card \in Nat
    BY <2>2, FS_CardinalityType
  <2>4. QED
    BY <2>2, <2>3
<1>2. ASSUME NEW n \in done
      PROVE  /\ IsFiniteSet(UpTo(n)) /\ n \in UpTo(n)
             /\ Cardinality(UpTo(n)) \in 1 .. card
  <2>1. UpTo(n) \in SUBSET done /\ n \in UpTo(n)
    OBVIOUS
  <2>2. IsFiniteSet(UpTo(n)) /\ Cardinality(UpTo(n)) <= card
    BY <1>1, <2>1, FS_Subset
  <2>3. Cardinality(UpTo(n)) \in Nat /\ Cardinality(UpTo(n)) # 0
    BY <2>1, <2>2, FS_CardinalityType, FS_EmptySet
  <2>4. QED
    BY <1>1, <2>1, <2>2, <2>3
<1>3. \A a, b \in done : Cardinality(UpTo(a)) = Cardinality(UpTo(b)) => a = b
  <2>1. ASSUME NEW a \in done, NEW b \in done, a < b,
               Cardinality(UpTo(a)) = Cardinality(UpTo(b))
        PROVE  FALSE
    <3>1. UpTo(a) \in SUBSET UpTo(b) /\ b \in UpTo(b) /\ b \notin UpTo(a)
      <4>1. \A m \in done : m <= a => m <= b
        BY <2>1
      <4>2. b <= b /\ ~(b <= a)
        BY <2>1
      <4>3. QED
        BY <4>1, <4>2
    <3> HIDE DEF UpTo
    <3>2. IsFiniteSet(UpTo(b))
      BY <1>2
    <3>3. UpTo(b) = UpTo(a)
      BY <2>1, <3>1, <3>2, FS_Subset
    <3>4. QED
      BY <3>1, <3>3
  <2>2. \A a, b \in done : a < b \/ b < a \/ a = b
    OBVIOUS
  <2> HIDE DEF UpTo
  <2>3. QED
    BY <2>1, <2>2
<1>4. rank \in Injection(done, 1 .. card)
  <2>1. rank \in [done -> 1 .. card]
    BY <1>2
  <2>2. \A a, b \in done : rank[a] = rank[b] => a = b
    BY <1>3
  <2> HIDE DEF rank
  <2>3. QED
    BY <2>1, <2>2 DEF Injection, IsInjective
<1>5. rank \in Surjection(done, 1 .. card)
  <2>1. IsFiniteSet(1 .. card) /\ Cardinality(1 .. card) = card
    BY <1>1, FS_Interval
  <2> HIDE DEF rank
  <2>2. QED
    BY <1>4, <2>1, FS_Injection
<1>6. \A j \in 1 .. card : \E n \in done : Cardinality(UpTo(n)) = j
  <2>1. \A j \in 1 .. card : \E n \in done : rank[n] = j
    BY <1>5 DEF Surjection
  <2>2. QED
    BY <2>1
<1> HIDE DEF rank, UpTo
<1>7. ASSUME NEW j \in 1 .. card PROVE At(j) \in done /\ Cardinality(UpTo(At(j))) = j
  BY <1>6
<1>8. ASSUME NEW n \in done PROVE At(Cardinality(UpTo(n))) = n
  <2>1. Cardinality(UpTo(n)) \in 1 .. card
    BY <1>2
  <2>2. QED
    BY <1>3, <1>7, <2>1
<1>9. Positions(done) = [j \in 1 .. card |-> At(j) - 1]
  BY DEF Positions, UpTo
<1> HIDE DEF At
<1>10. \A j \in 1 .. card : Positions(done)[j] = At(j) - 1 /\ At(j) \in 1 .. N
  BY <1>7, <1>9
<1>11. \A j \in 1 .. card : Positions(done)[j] + 1 = At(j)
  BY <1>10
<1>12. {Positions(done)[j] + 1 : j \in 1 .. card} \subseteq done
  BY <1>7, <1>11
<1>13. done \subseteq {Positions(done)[j] + 1 : j \in 1 .. card}
  <2> SUFFICES ASSUME NEW n \in done
               PROVE  \E j \in 1 .. card : n = Positions(done)[j] + 1
    OBVIOUS
  <2>1. Cardinality(UpTo(n)) \in 1 .. card
    BY <1>2
  <2>2. QED
    BY <1>8, <1>11, <2>1
<1>14. \A j \in 1 .. card : Positions(done)[j] \in Nat
  BY <1>10
<1>15. QED
  BY <1>1, <1>9, <1>12, <1>13, <1>14

\* The index, or the indices, before the call.
OldIndices ==
  IF Uses(routine, {"index"}) THEN << OldIndex >>
  ELSE [n \in DOMAIN call.reqs |-> OldIndex]

\* The positions MPI leaves.
IndicesLeft ==
  IF reply.outcome = "error" THEN OldIndices
  ELSE IF Uses(routine, {"index"}) THEN
    IF reply.done = {} THEN << MPI_UNDEFINED >> ELSE Positions(reply.done)
  ELSE [j \in DOMAIN OldIndices |->
          IF j <= Cardinality(reply.done) THEN Positions(reply.done)[j] ELSE OldIndices[j]]

\* IndicesNameRequests with what it rests on: the indices before and after the call,
\* and the count MPI leaves.
IndicesInv ==
  /\ pc \in {"lookup", "convert", "call"} => indices = OldIndices
  /\ pc = "back" =>
       /\ indices = IndicesLeft
       /\ reply.outcome # "error" /\ Uses(routine, {"indices"}) =>
            outcount = IF LiveRequests = {} THEN MPI_UNDEFINED ELSE Cardinality(reply.done)
  /\ IndicesNameRequests

\* The completed requests are requests of the array.
LEMMA DoneFacts ==
  ASSUME Given, NEW r \in Replies
  PROVE  /\ r.done \in SUBSET (1 .. Len(call.reqs)) /\ Len(call.reqs) \in Nat
         /\ Cardinality(r.done) \in 0 .. Len(call.reqs)
         /\ LiveRequests = {} => r.done = {}
         /\ Uses(routine, {"index"}) => Cardinality(r.done) <= 1
         /\ r.done = {} <=> Cardinality(r.done) = 0
<1>1. r.done \subseteq LiveRequests /\ (Uses(routine, {"index"}) => Cardinality(r.done) <= 1)
  BY DEF Replies
<1>2. Len(call.reqs) \in Nat /\ DOMAIN call.reqs = 1 .. Len(call.reqs)
  BY CallFacts
<1>3. r.done \in SUBSET (1 .. Len(call.reqs))
  BY <1>1, <1>2 DEF LiveRequests
<1>4. IsFiniteSet(r.done)
  <2>1. IsFiniteSet(1 .. Len(call.reqs))
    BY <1>2, FS_Interval
  <2>2. QED
    BY <1>3, <2>1, FS_Subset
<1>5. Cardinality(r.done) \in 0 .. Len(call.reqs)
  BY <1>2, <1>3, PositionsFacts
<1>6. r.done = {} <=> Cardinality(r.done) = 0
  BY <1>4, FS_EmptySet
<1>7. LiveRequests = {} => r.done = {}
  BY <1>1
<1>8. QED
  BY <1>1, <1>2, <1>3, <1>5, <1>6, <1>7

\* A routine returns one index or an array of them.
LEMMA OneForm ==
  ASSUME Given PROVE ~(Uses(routine, {"index"}) /\ Uses(routine, {"indices"}))
BY CallFacts DEF RowOK, ArgsOK, Alike, Uses

\* One index, from 1, names the request that completed.
LEMMA IndexIsReturned ==
  ASSUME IInv, IndicesInv, pc = "back", Uses(routine, {"index"}), reply.outcome # "error"
  PROVE  IF reply.done = {} THEN ReturnIndices[1] = MPI_UNDEFINED
                            ELSE reply.done = {ReturnIndices[1]}
<1>1. reply \in Replies /\ Given
  BY DEF IInv, Left
<1>2. ReturnIndices = [j \in DOMAIN indices |-> IF indices[j] >= 0 THEN indices[j] + 1
                                                                   ELSE indices[j]]
  BY DEF ReturnIndices
<1>3. indices = IF reply.done = {} THEN << MPI_UNDEFINED >> ELSE Positions(reply.done)
  BY DEF IndicesInv, IndicesLeft
<1>4. CASE reply.done = {}
  <2>1. DOMAIN indices = {1} /\ indices[1] = MPI_UNDEFINED /\ ~(MPI_UNDEFINED >= 0)
    BY <1>3, <1>4 DEF MPI_UNDEFINED
  <2>2. QED
    BY <1>2, <1>4, <2>1
<1>5. CASE reply.done # {}
  <2> DEFINE p == Positions(reply.done)
  <2>1. Cardinality(reply.done) = 1
    <3>1. /\ Cardinality(reply.done) \in 0 .. Len(call.reqs) /\ Len(call.reqs) \in Nat
          /\ Cardinality(reply.done) <= 1 /\ Cardinality(reply.done) # 0
      BY <1>1, <1>5, DoneFacts
    <3>2. QED
      BY <3>1
  <2>2. /\ DOMAIN p = 1 .. 1 /\ p[1] \in Nat
        /\ {p[j] + 1 : j \in 1 .. 1} = reply.done
    <3>1. reply.done \in SUBSET (1 .. Len(call.reqs)) /\ Len(call.reqs) \in Nat
      BY <1>1, DoneFacts
    <3>2. /\ DOMAIN p = 1 .. Cardinality(reply.done)
          /\ \A j \in 1 .. Cardinality(reply.done) : p[j] \in Nat
          /\ {p[j] + 1 : j \in 1 .. Cardinality(reply.done)} = reply.done
      BY <3>1, PositionsFacts
    <3>3. QED
      BY <2>1, <3>2
  <2> HIDE DEF p
  <2>3. indices = p
    BY <1>3, <1>5 DEF p
  <2>4. ReturnIndices[1] = p[1] + 1
    BY <1>2, <2>2, <2>3
  <2>5. reply.done = {p[1] + 1}
    BY <2>2
  <2>6. QED
    BY <1>5, <2>4, <2>5
<1>6. QED
  BY <1>4, <1>5

\* An array of indices keeps its length, whatever count MPI left, and its beginning
\* names the requests that completed.
LEMMA IndicesAreReturned ==
  ASSUME IInv, IndicesInv, pc = "back", Uses(routine, {"indices"})
  PROVE  /\ Len(ReturnIndices) = Len(call.reqs)
         /\ reply.outcome # "error" =>
              {ReturnIndices[j] : j \in 1 .. Cardinality(reply.done)} = reply.done
<1> DEFINE N == Len(call.reqs)
           q == PositionsReturned
           k == Cardinality(reply.done)
           p == Positions(reply.done)
<1>1. reply \in Replies /\ Given /\ outcount \in Int /\ ~Uses(routine, {"index"})
  BY OneForm DEF IInv, Left, TypeOK
<1>2. /\ N \in Nat /\ DOMAIN call.reqs = 1 .. N /\ k \in 0 .. N
      /\ reply.done \in SUBSET (1 .. N)
  BY <1>1, CallFacts, DoneFacts
<1>3. DOMAIN OldIndices = 1 .. N
  BY <1>1, <1>2 DEF OldIndices
<1>4. DOMAIN indices = 1 .. N
  BY <1>1, <1>3 DEF IndicesInv, IndicesLeft
<1>5. q \in Int /\ q <= N
  BY <1>1, <1>2 DEF PositionsReturned
<1>6. 1 .. N \cup (1 .. q) = 1 .. N
  BY <1>2, <1>5
<1>7. ReturnIndices = [j \in 1 .. N |-> IF j <= q THEN indices[j] + 1 ELSE indices[j]]
  <2>1. ReturnIndices = [j \in 1 .. N \cup (1 .. q) |->
                           IF j \notin 1 .. N THEN 1
                           ELSE IF j <= q THEN indices[j] + 1 ELSE indices[j]]
    BY <1>1, <1>4 DEF ReturnIndices
  <2>2. QED
    BY <1>6, <2>1
<1>8. Len(ReturnIndices) = N
  BY <1>2, <1>7
<1>9. ASSUME reply.outcome # "error"
      PROVE  {ReturnIndices[j] : j \in 1 .. k} = reply.done
  <2>1. CASE reply.done = {}
    <3>1. k = 0
      BY <1>1, <2>1, DoneFacts
    <3>2. QED
      BY <2>1, <3>1
  <2>2. CASE reply.done # {}
    <3>1. outcount = k
      BY <1>1, <1>9, <2>2, DoneFacts DEF IndicesInv
    <3>2. q = k
      BY <1>2, <3>1 DEF PositionsReturned
    <3>3. indices = [j \in 1 .. N |-> IF j <= k THEN p[j] ELSE OldIndices[j]]
      BY <1>1, <1>3, <1>9 DEF IndicesInv, IndicesLeft
    <3>4. {p[j] + 1 : j \in 1 .. k} = reply.done
      BY <1>2, PositionsFacts
    <3> HIDE DEF N, q, k, p
    <3>5. \A j \in 1 .. k : ReturnIndices[j] = p[j] + 1
      BY <1>2, <1>7, <3>2, <3>3
    <3>6. QED
      BY <3>4, <3>5
  <2>3. QED
    BY <2>1, <2>2
<1>10. QED
  BY <1>8, <1>9

\* The positions a completion routine returns name, from 1, the requests that
\* completed, and no index beyond the program's array is touched, even when MPI failed
\* before it set the count: for arrays of any length.
THEOREM IndicesAreRequests == Spec => []IndicesNameRequests
<1>1. Init => IndicesInv
  BY DEF Init, IndicesInv, OldIndices, IndicesNameRequests
<1>2. IInv /\ IInv' /\ IndicesInv /\ [Next]_vars => IndicesInv'
  <2> SUFFICES ASSUME IInv, IInv', IndicesInv, [Next]_vars PROVE IndicesInv'
    OBVIOUS
  <2>0. routine' = routine /\ call' = call => OldIndices' = OldIndices
    BY DEF OldIndices
  <2>1. CASE LookUp
    BY <2>0, <2>1 DEF LookUp, IndicesInv, IndicesNameRequests, input, program
  <2>2. CASE LookUpFails
    <3>1. /\ pc = "lookup" /\ pc' = "returned"
          /\ UNCHANGED <<routine, call, reply, indices>>
      BY <2>2 DEF LookUpFails, input
    <3>2. reply' = NoReply
      BY <3>1 DEF IInv, Converted
    <3>3. Uses(routine, {"indices"}) => Len(indices) = Len(call.reqs)
      <4> SUFFICES ASSUME Uses(routine, {"indices"}) PROVE Len(indices) = Len(call.reqs)
        OBVIOUS
      <4>1. ~Uses(routine, {"index"})
        BY OneForm DEF IInv
      <4>2. Len(call.reqs) \in Nat /\ DOMAIN call.reqs = 1 .. Len(call.reqs)
        BY CallFacts DEF IInv
      <4>3. indices = [n \in 1 .. Len(call.reqs) |-> OldIndex]
        BY <3>1, <4>1, <4>2 DEF IndicesInv, OldIndices
      <4>4. QED
        BY <4>2, <4>3
    <3>4. QED
      BY <3>1, <3>2, <3>3 DEF IndicesInv, IndicesNameRequests
  <2>3. CASE Convert
    BY <2>0, <2>3 DEF Convert, IndicesInv, IndicesNameRequests, input, program
  <2>4. CASE CallMPI
    <3>1. pc = "call" /\ pc' \in {"back", "overrun"} /\ routine' = routine /\ call' = call
      BY <2>4 DEF CallMPI, input
    <3>2. indices = OldIndices
      BY <3>1 DEF IndicesInv
    <3>3. indices' = AnswerIndices(reply') /\ outcount' = AnswerOutcount(reply')
      BY <2>4 DEF CallMPI
    <3>4. indices' = IndicesLeft'
      BY <2>0, <3>1, <3>2, <3>3 DEF IndicesLeft, AnswerIndices
    <3>5. LiveRequests' = LiveRequests
      BY <3>1 DEF LiveRequests
    <3>6. QED
      BY <3>1, <3>3, <3>4, <3>5 DEF IndicesInv, IndicesNameRequests, AnswerOutcount
  <2>5. CASE Return
    <3>1. /\ pc = "back" /\ pc' = "returned" /\ indices' = ReturnIndices
          /\ UNCHANGED <<routine, call, reply>>
      BY <2>5 DEF Return, input
    <3>2. Uses(routine, {"indices"}) => Len(indices') = Len(call.reqs)
      BY <3>1, IndicesAreReturned
    <3>3. reply.outcome # "error" /\ Uses(routine, {"indices"}) =>
            {indices'[j] : j \in 1 .. Cardinality(reply.done)} = reply.done
      BY <3>1, IndicesAreReturned
    <3>4. reply.outcome # "error" /\ Uses(routine, {"index"}) =>
            IF reply.done = {} THEN indices'[1] = MPI_UNDEFINED
                               ELSE reply.done = {indices'[1]}
      BY <3>1, IndexIsReturned
    <3>5. QED
      BY <3>1, <3>2, <3>3, <3>4 DEF IndicesInv, IndicesNameRequests
  <2>6. CASE UNCHANGED vars
    <3>1. UNCHANGED <<routine, call, pc, reply, outcount, indices>>
      BY <2>6 DEF vars, input, program
    <3>2. IndicesLeft' = IndicesLeft /\ LiveRequests' = LiveRequests
      BY <2>0, <3>1 DEF IndicesLeft, LiveRequests
    <3>3. QED
      BY <2>0, <3>1, <3>2 DEF IndicesInv, IndicesNameRequests
  <2>7. QED
    BY <2>1, <2>2, <2>3, <2>4, <2>5, <2>6 DEF Next, Returned
<1>3. QED
  BY Invariance, <1>1, <1>2, PTL DEF Spec, IndicesInv
-----------------------------------------------------------------------------
(* Strings that are passed *)

\* A bounded nonempty set of natural numbers has a greatest element, which Max chooses.
LEMMA Greatest ==
  ASSUME NEW N \in Nat, NEW T, T \subseteq 0 .. N, T # {}
  PROVE  Max(T) \in T /\ \A y \in T : y <= Max(T)
<1> DEFINE D == {N - y : y \in T}
<1>1. D \subseteq Nat /\ D # {}
  <2>1. PICK y : y \in T
    OBVIOUS
  <2>2. N - y \in D
    BY <2>1
  <2>3. \A z \in T : N - z \in Nat
    OBVIOUS
  <2>4. QED
    BY <2>2, <2>3
<1>2. Min(D) \in D /\ \A d \in D : Min(D) <= d
  BY <1>1, Least
<1>3. PICK x \in T : Min(D) = N - x
  BY <1>2
<1>4. ASSUME NEW y \in T PROVE y <= x
  <2>1. N - y \in D /\ x \in 0 .. N /\ y \in 0 .. N
    OBVIOUS
  <2>2. N - x <= N - y
    BY <1>2, <1>3, <2>1
  <2> HIDE DEF D
  <2>3. QED
    BY <2>1, <2>2
<1>5. \E z \in T : \A y \in T : z >= y
  <2>1. \A y \in T : y \in Nat /\ x \in Nat
    OBVIOUS
  <2>2. QED
    BY <1>4, <2>1
<1>6. Max(T) \in T /\ \A y \in T : Max(T) >= y
  BY <1>5 DEF Max
<1>7. \A y \in T : y \in Nat
  OBVIOUS
<1>8. QED
  BY <1>6, <1>7

\* mpif_fstrlen finds the last character that is not blank.
LEMMA FstrlenFacts ==
  ASSUME NEW S, NEW str \in Seq(S)
  PROVE  /\ fstrlen(str) \in 0 .. Len(str)
         /\ fstrlen(str) > 0 => str[fstrlen(str)] # Blank
         /\ \A n \in 1 .. Len(str) : n > fstrlen(str) => str[n] = Blank
         /\ fstrlen(str) = 0 <=> Blanks(str)
<1> DEFINE T == {0} \cup {n \in DOMAIN str : str[n] # Blank}
           e == fstrlen(str)
<1>1. Len(str) \in Nat /\ DOMAIN str = 1 .. Len(str)
  OBVIOUS
<1>2. T \subseteq 0 .. Len(str) /\ 0 \in T
  BY <1>1
<1>3. e = Max(T)
  BY DEF fstrlen
<1> HIDE DEF T
<1>4. e \in T /\ \A y \in T : y <= e
  BY <1>1, <1>2, <1>3, Greatest
<1>5. e \in 0 .. Len(str)
  BY <1>2, <1>4
<1> HIDE DEF e
<1>6. e > 0 => str[e] # Blank
  BY <1>4 DEF T
<1>7. \A n \in 1 .. Len(str) : n > e => str[n] = Blank
  <2> SUFFICES ASSUME NEW n \in 1 .. Len(str), n > e, str[n] # Blank PROVE FALSE
    OBVIOUS
  <2>1. n \in T
    BY <1>1 DEF T
  <2>2. n <= e
    BY <1>4, <2>1
  <2>3. QED
    BY <1>1, <1>5, <2>2
<1>8. e = 0 <=> Blanks(str)
  <2>1. ASSUME e = 0 PROVE Blanks(str)
    BY <1>1, <1>7, <2>1 DEF Blanks
  <2>2. ASSUME e # 0 PROVE ~Blanks(str)
    <3>1. e > 0 /\ e \in DOMAIN str
      BY <1>1, <1>5, <2>2
    <3>2. QED
      BY <1>6, <3>1 DEF Blanks
  <2>3. QED
    BY <2>1, <2>2
<1>9. QED
  BY <1>5, <1>6, <1>7, <1>8 DEF e

\* A part of a sequence.
LEMMA Part ==
  ASSUME NEW S, NEW a \in Seq(S), NEW b \in 0 .. Len(a), NEW e \in b .. Len(a)
  PROVE  /\ Len(SubSeq(a, b + 1, e)) = e - b
         /\ DOMAIN SubSeq(a, b + 1, e) = 1 .. e - b
         /\ \A n \in 1 .. e - b : SubSeq(a, b + 1, e)[n] = a[b + n]
<1> DEFINE u == SubSeq(a, b + 1, e)
<1>1. u = [i \in 1 .. e - b |-> a[i + b]]
  OBVIOUS
<1>2. u \in Seq(S)
  OBVIOUS
<1>3. DOMAIN u = 1 .. e - b
  BY <1>1
<1>4. Len(u) = e - b
  BY <1>1, <1>2
<1>5. \A n \in 1 .. e - b : u[n] = a[b + n]
  BY <1>1
<1>6. QED
  BY <1>3, <1>4, <1>5

\* What lies between b and e is the trimmed string, if what is outside is blank.
LEMMA Trims ==
  ASSUME NEW S, NEW str \in Seq(S), NEW b \in 0 .. Len(str), NEW e \in b .. Len(str),
         NEW leading \in BOOLEAN,
         \A n \in 1 .. b : str[n] = Blank,
         \A n \in 1 .. Len(str) : n > e => str[n] = Blank,
         e > b => str[e] # Blank,
         leading /\ e > b => str[b + 1] # Blank,
         ~leading => b = 0
  PROVE  IsTrimmed(SubSeq(str, b + 1, e), str, leading)
<1> DEFINE l == Len(str)
           copy == SubSeq(str, b + 1, e)
           before == SubSeq(str, 1, b)
           after == SubSeq(str, e + 1, l)
<1>1. l \in Nat /\ b \in Nat /\ e \in Nat /\ b <= e /\ e <= l
  OBVIOUS
<1>2. /\ Len(copy) = e - b
      /\ \A n \in 1 .. e - b : copy[n] = str[b + n]
  BY Part
<1>3. DOMAIN before = 1 .. b /\ \A n \in 1 .. b : before[n] = str[n]
  <2>1. 0 \in 0 .. l /\ b \in 0 .. l /\ b - 0 = b /\ 0 + 1 = 1
    BY <1>1
  <2>2. /\ DOMAIN SubSeq(str, 0 + 1, b) = 1 .. b - 0
        /\ \A n \in 1 .. b - 0 : SubSeq(str, 0 + 1, b)[n] = str[0 + n]
    BY <2>1, Part
  <2>3. QED
    BY <2>1, <2>2
<1>4. DOMAIN after = 1 .. l - e /\ \A n \in 1 .. l - e : after[n] = str[e + n]
  <2>1. e \in 0 .. l /\ l \in e .. l
    BY <1>1
  <2>2. QED
    BY <2>1, Part
<1> HIDE DEF copy, before, after
<1>5. b + Len(copy) = e
  BY <1>1, <1>2
<1>6. Blanks(before)
  BY <1>3 DEF Blanks
<1>7. Blanks(after)
  <2> SUFFICES ASSUME NEW n \in 1 .. l - e PROVE after[n] = Blank
    BY <1>4 DEF Blanks
  <2>1. e + n \in 1 .. l /\ e + n > e
    BY <1>1
  <2>2. QED
    BY <1>4, <2>1
<1>8. ASSUME copy # <<>>
      PROVE  copy[Len(copy)] # Blank /\ (leading => copy[1] # Blank)
  <2>1. e > b
    <3>1. copy = SubSeq(str, b + 1, e)
      BY DEF copy
    <3>2. e = b => copy = <<>>
      BY <1>1, <3>1
    <3>3. QED
      BY <1>1, <1>8, <3>2
  <2>2. copy[Len(copy)] = str[e] /\ copy[1] = str[b + 1]
    <3>1. e - b \in 1 .. e - b /\ 1 \in 1 .. e - b /\ b + (e - b) = e
      BY <1>1, <2>1
    <3>2. QED
      BY <1>2, <3>1
  <2>3. QED
    BY <2>1, <2>2
<1>9. IsTrimmed(copy, str, leading)
  <2>1. copy = SubSeq(str, b + 1, b + Len(copy)) /\ before = SubSeq(str, 1, b)
        /\ after = SubSeq(str, b + Len(copy) + 1, Len(str))
    BY <1>5 DEF copy, before, after
  <2>2. b + Len(copy) <= Len(str)
    BY <1>1, <1>5
  <2>3. QED
    BY <1>6, <1>7, <1>8, <2>1, <2>2 DEF IsTrimmed
<1>10. QED
  BY <1>9 DEF copy

\* mpif_strdup_f2c and mpif_strdup_f2c_trim make trimmed copies.
LEMMA CopiesAreTrimmed ==
  ASSUME NEW S, NEW str \in Seq(S)
  PROVE  /\ IsTrimmed(strdup_f2c(str), str, FALSE)
         /\ IsTrimmed(strdup_f2c_trim(str), str, TRUE)
<1> DEFINE e == fstrlen(str)
           first == {n - 1 : n \in {m \in 1 .. e : str[m] # Blank}}
           T == {e} \cup first
           b == Min(T)
<1>1. /\ Len(str) \in Nat /\ e \in 0 .. Len(str)
      /\ e > 0 => str[e] # Blank
      /\ \A n \in 1 .. Len(str) : n > e => str[n] = Blank
  BY FstrlenFacts
<1>2. strdup_f2c(str) = SubSeq(str, 1, e) /\ strdup_f2c_trim(str) = SubSeq(str, b + 1, e)
  BY DEF strdup_f2c, strdup_f2c_trim
<1> HIDE DEF e
<1>3. IsTrimmed(SubSeq(str, 1, e), str, FALSE)
  <2>1. /\ 0 \in 0 .. Len(str) /\ e \in 0 .. Len(str) /\ 0 + 1 = 1
        /\ \A n \in 1 .. 0 : str[n] = Blank
    BY <1>1
  <2>2. IsTrimmed(SubSeq(str, 0 + 1, e), str, FALSE)
    BY <1>1, <2>1, Trims
  <2>3. QED
    BY <2>1, <2>2
<1>4. T \subseteq 0 .. Len(str) /\ e \in T /\ T \subseteq Nat
  BY <1>1
<1>5. \A m \in 1 .. e : str[m] # Blank => m - 1 \in T
  OBVIOUS
<1>6. \A t \in T : t # e => t + 1 \in 1 .. e /\ str[t + 1] # Blank
  <2> SUFFICES ASSUME NEW t \in T, t # e PROVE t + 1 \in 1 .. e /\ str[t + 1] # Blank
    OBVIOUS
  <2>1. PICK m \in 1 .. e : str[m] # Blank /\ t = m - 1
    OBVIOUS
  <2>2. t + 1 = m
    BY <1>1, <2>1
  <2>3. QED
    BY <2>1, <2>2
<1> HIDE DEF T
<1>7. b \in T /\ \A t \in T : b <= t
  BY <1>4, Least
<1> HIDE DEF b
<1>8. b \in 0 .. Len(str) /\ b <= e
  BY <1>4, <1>7
<1>9. \A n \in 1 .. b : str[n] = Blank
  <2> SUFFICES ASSUME NEW n \in 1 .. b, str[n] # Blank PROVE FALSE
    OBVIOUS
  <2>1. n \in 1 .. e
    BY <1>1, <1>8
  <2>2. b <= n - 1
    BY <1>5, <1>7, <2>1
  <2>3. QED
    BY <1>8, <2>2
<1>10. /\ e \in b .. Len(str) /\ (e > b => str[e] # Blank)
       /\ (e > b => str[b + 1] # Blank)
  BY <1>1, <1>6, <1>7, <1>8
<1>11. IsTrimmed(SubSeq(str, b + 1, e), str, TRUE)
  BY <1>1, <1>8, <1>9, <1>10, Trims
<1>12. QED
  BY <1>2, <1>3, <1>11

\* The strings of a call.
LEMMA StringFacts ==
  ASSUME Given
  PROVE  /\ Uses(routine, StringKinds) => call.str \in Seq(STRING)
         /\ Uses(routine, {"argv", "argvs"}) => call.argv \in Matrices(Rows(routine))
<1>1. /\ call.str \in (IF Uses(routine, StringKinds) THEN Strings ELSE {<<>>})
      /\ call.argv \in (IF Uses(routine, {"argv", "argvs"}) THEN Matrices(Rows(routine))
                                                            ELSE {<<>>})
  BY DEF Given, Calls
<1>2. Strings \subseteq Seq(STRING)
  BY StringsAssumption
<1>3. QED
  BY <1>1, <1>2

\* The address of word w of command i, and the command and word an address is of.
LEMMA Addresses ==
  ASSUME NEW rows \in {1, 2}, NEW i \in 0 .. rows - 1, NEW words \in Nat
  PROVE  \A w \in Nat :
           /\ i + w * rows \in 0 .. rows * (words + 1) - 1 <=> w <= words
           /\ (i + w * rows) % rows = i /\ (i + w * rows) \div rows = w
<1>1. CASE rows = 1
  <2>1. i = 0
    BY <1>1
  <2>2. QED
    BY <1>1, <2>1
<1>2. CASE rows = 2
  <2>1. i \in {0, 1}
    BY <1>2
  <2>2. QED
    BY <1>2, <2>1
<1>3. QED
  BY <1>1, <1>2

\* Fortran's storage holds the words of a command in its row.
LEMMA WordsAreFound ==
  ASSUME Given, Uses(routine, {"argv", "argvs"}), NEW i \in 0 .. Rows(routine) - 1
  PROVE  /\ call.argv[i] \in [0 .. MaxWords -> Words] /\ Blanks(call.argv[i][MaxWords])
         /\ \A w \in Nat : /\ i + w * Rows(routine) \in DOMAIN Storage <=> w <= MaxWords
                           /\ w <= MaxWords =>
                                Storage[i + w * Rows(routine)] = call.argv[i][w]
<1> DEFINE rows == Rows(routine)
<1>1. rows \in {1, 2} /\ MaxWords \in Nat
  BY SizesAssumption DEF Rows
<1>2. /\ call.argv \in [0 .. rows - 1 -> [0 .. MaxWords -> Words]]
      /\ Blanks(call.argv[i][MaxWords])
  BY StringFacts DEF Matrices
<1>3. Storage = [n \in 0 .. rows * (MaxWords + 1) - 1 |-> call.argv[n % rows][n \div rows]]
  BY DEF Storage
<1>4. \A w \in Nat :
        /\ i + w * rows \in 0 .. rows * (MaxWords + 1) - 1 <=> w <= MaxWords
        /\ (i + w * rows) % rows = i /\ (i + w * rows) \div rows = w
  BY <1>1, Addresses
<1> HIDE DEF rows
<1>5. ASSUME NEW w \in Nat
      PROVE  /\ i + w * rows \in DOMAIN Storage <=> w <= MaxWords
             /\ w <= MaxWords => Storage[i + w * rows] = call.argv[i][w]
  <2> DEFINE n == i + w * rows
  <2>1. /\ n \in 0 .. rows * (MaxWords + 1) - 1 <=> w <= MaxWords
        /\ n % rows = i /\ n \div rows = w
    BY <1>4
  <2> HIDE DEF n
  <2>2. /\ n \in DOMAIN Storage <=> w <= MaxWords
        /\ w <= MaxWords => Storage[n] = call.argv[i][w]
    BY <1>3, <2>1
  <2>3. QED
    BY <2>2 DEF n
<1>6. call.argv[i] \in [0 .. MaxWords -> Words]
  BY <1>2 DEF rows
<1>7. QED
  BY <1>2, <1>5, <1>6 DEF rows

\* mpif_fcount2d counts the words of a command before its first blank one.
LEMMA WordsAreCounted ==
  ASSUME Given, Uses(routine, {"argv", "argvs"}), NEW i \in 0 .. Rows(routine) - 1
  PROVE  LET blank == {n \in DOMAIN call.argv[i] : Blanks(call.argv[i][n])}
         IN  /\ fcount2d(Storage, Rows(routine), i) = Min(blank)
             /\ Min(blank) \in 0 .. MaxWords
<1> DEFINE rows == Rows(routine)
           words == call.argv[i]
           blank == {n \in DOMAIN words : Blanks(words[n])}
           f == [n \in {m \in DOMAIN Storage : i + m * rows \in DOMAIN Storage} |->
                   Storage[i + n * rows]]
<1>1. /\ words \in [0 .. MaxWords -> Words] /\ Blanks(words[MaxWords]) /\ MaxWords \in Nat
      /\ \A w \in Nat : /\ i + w * rows \in DOMAIN Storage <=> w <= MaxWords
                        /\ w <= MaxWords => Storage[i + w * rows] = words[w]
  BY WordsAreFound, SizesAssumption
<1>2. \A n \in 0 .. MaxWords : n \in DOMAIN Storage
  <2>1. DOMAIN Storage = 0 .. rows * (MaxWords + 1) - 1
    BY DEF Storage
  <2>2. rows \in {1, 2}
    BY DEF Rows
  <2>3. QED
    BY <1>1, <2>1, <2>2
<1>3. DOMAIN Storage \subseteq Nat
  BY DEF Storage
<1>4. DOMAIN f = 0 .. MaxWords
  <2>1. DOMAIN f = {m \in DOMAIN Storage : i + m * rows \in DOMAIN Storage}
    OBVIOUS
  <2> HIDE DEF f, rows
  <2>2. \A m \in DOMAIN f : m \in 0 .. MaxWords
    BY <1>1, <1>3, <2>1
  <2>3. \A m \in 0 .. MaxWords : m \in DOMAIN f
    BY <1>1, <1>2, <2>1
  <2>4. QED
    BY <2>2, <2>3
<1>5. \A n \in 0 .. MaxWords : f[n] = words[n]
  <2>1. \A n \in DOMAIN f : f[n] = Storage[i + n * rows]
    OBVIOUS
  <2> HIDE DEF f, rows
  <2>2. QED
    BY <1>1, <1>4, <2>1
<1>6. fcount2d(Storage, rows, i) = fcount(f)
  BY DEF fcount2d
<1> HIDE DEF f, rows, words
<1>7. \A n \in 0 .. MaxWords : fstrlen(words[n]) = 0 <=> Blanks(words[n])
  <2>1. Words \subseteq Seq(STRING)
    BY StringsAssumption
  <2>2. \A n \in 0 .. MaxWords : words[n] \in Seq(STRING)
    BY <1>1, <2>1
  <2>3. QED
    BY <2>2, FstrlenFacts
<1>8. {n \in DOMAIN f : fstrlen(f[n]) = 0} = blank
  BY <1>1, <1>4, <1>5, <1>7
<1>9. fcount(f) = Min(blank)
  BY <1>8 DEF fcount
<1>10. Min(blank) \in 0 .. MaxWords
  <2>1. blank \subseteq 0 .. MaxWords /\ MaxWords \in blank
    BY <1>1
  <2> HIDE DEF blank
  <2>2. blank \subseteq Nat /\ blank # {}
    BY <2>1
  <2>3. Min(blank) \in blank
    BY <2>2, Least
  <2>4. QED
    BY <2>1, <2>3
<1>11. QED
  BY <1>6, <1>9, <1>10 DEF rows, words

\* The copies of the strings are those of the conversion.
StringsInv ==
  pc = "call" =>
    /\ (\E k \in copies : routine.args[k].kind \in StringKinds) => c_str = CopyString
    /\ (\E k \in copies : routine.args[k].kind \in {"argv", "argvs"}) =>
         c_argv = ConvertArgv

\* The C copy of a string is the program's without the blanks that padded it.
LEMMA StringIsCopied ==
  ASSUME Given, NEW k \in DOMAIN routine.args, routine.args[k].kind \in StringKinds
  PROVE  IsTrimmed(CopyString, call.str, routine.args[k].kind = "trimmed")
<1>1. Uses(routine, StringKinds)
  BY DEF Uses
<1>2. call.str \in Seq(STRING)
  BY <1>1, StringFacts
<1>3. Alike(routine.args, StringKinds)
  BY CallFacts DEF RowOK, ArgsOK
<1>4. CASE routine.args[k].kind = "trimmed"
  <2>1. Uses(routine, {"trimmed"})
    BY <1>4 DEF Uses
  <2>2. IsTrimmed(CopyString, call.str, TRUE)
    BY <1>2, <2>1, CopiesAreTrimmed DEF CopyString
  <2>3. (routine.args[k].kind = "trimmed") = TRUE
    BY <1>4
  <2>4. QED
    BY <2>2, <2>3
<1>5. CASE routine.args[k].kind = "string"
  <2>1. ~Uses(routine, {"trimmed"})
    BY <1>3, <1>5 DEF Uses, Alike, StringKinds
  <2>2. IsTrimmed(CopyString, call.str, FALSE)
    BY <1>2, <2>1, CopiesAreTrimmed DEF CopyString
  <2>3. (routine.args[k].kind = "trimmed") = FALSE
    BY <1>5
  <2>4. QED
    BY <2>2, <2>3
<1>6. QED
  BY <1>4, <1>5 DEF StringKinds

\* The argument vector of a command is its row up to the first blank word.
LEMMA VectorIsCopied ==
  ASSUME Given, Uses(routine, {"argv", "argvs"}), NEW i \in 0 .. Rows(routine) - 1
  PROVE  LET blank == {n \in DOMAIN call.argv[i] : Blanks(call.argv[i][n])}
         IN  /\ Len(ConvertArgv[i]) = Min(blank)
             /\ \A n \in DOMAIN ConvertArgv[i] :
                  IsTrimmed(ConvertArgv[i][n], call.argv[i][n - 1], TRUE)
<1> DEFINE rows == Rows(routine)
           words == call.argv[i]
           blank == {n \in DOMAIN words : Blanks(words[n])}
           count == Min(blank)
           v == ConvertArgv[i]
<1>1. fcount2d(Storage, rows, i) = count /\ count \in 0 .. MaxWords /\ MaxWords \in Nat
  BY WordsAreCounted, SizesAssumption
<1>2. /\ words \in [0 .. MaxWords -> Words]
      /\ \A w \in Nat : w <= MaxWords => Storage[i + w * rows] = words[w]
  BY WordsAreFound
<1>3. v = [n \in 1 .. fcount2d(Storage, rows, i) |->
             strdup_f2c_trim(Storage[i + (n - 1) * rows])]
  BY DEF ConvertArgv
<1> HIDE DEF rows, words, count, v
<1>4. v = [n \in 1 .. count |-> strdup_f2c_trim(Storage[i + (n - 1) * rows])]
  BY <1>1, <1>3
<1>5. Len(v) = count /\ DOMAIN v = 1 .. count
  BY <1>1, <1>4
<1>6. ASSUME NEW n \in 1 .. count PROVE IsTrimmed(v[n], words[n - 1], TRUE)
  <2>1. n - 1 \in Nat /\ n - 1 <= MaxWords /\ n - 1 \in 0 .. MaxWords
    BY <1>1
  <2>2. v[n] = strdup_f2c_trim(words[n - 1])
    BY <1>2, <1>4, <2>1
  <2>3. words[n - 1] \in Seq(STRING)
    <3>1. Words \subseteq Seq(STRING)
      BY StringsAssumption
    <3>2. QED
      BY <1>2, <2>1, <3>1
  <2>4. QED
    BY <2>2, <2>3, CopiesAreTrimmed
<1>7. QED
  BY <1>5, <1>6 DEF rows, words, count, v

\* The strings MPI is given are the program's without their padding, and each
\* command's argument vector is its own row up to the first blank word, however long
\* the strings are and however many words there are.
THEOREM StringsAreCopied == Spec => []StringsCross
<1>1. Init => StringsInv
  BY DEF Init, StringsInv
<1>2. StringsInv /\ [Next]_vars => StringsInv'
  <2> SUFFICES ASSUME StringsInv, [Next]_vars PROVE StringsInv'
    OBVIOUS
  <2>1. routine' = routine /\ call' = call =>
          CopyString' = CopyString /\ ConvertArgv' = ConvertArgv
    BY DEF CopyString, ConvertArgv, Storage
  <2>2. CASE Convert
    BY <2>1, <2>2 DEF Convert, StringsInv, input
  <2>3. CASE LookUp \/ LookUpFails \/ CallMPI \/ Return
    BY <2>3 DEF LookUp, LookUpFails, CallMPI, Return, StringsInv
  <2>4. CASE UNCHANGED vars
    BY <2>1, <2>4 DEF vars, input, c_side, StringsInv
  <2>5. QED
    BY <2>2, <2>3, <2>4 DEF Next, Returned
<1>3. IInv /\ StringsInv => StringsCross
  <2> SUFFICES ASSUME IInv, StringsInv, pc = "call", NEW k \in copies
               PROVE  /\ routine.args[k].kind \in StringKinds =>
                           IsTrimmed(c_str, call.str, routine.args[k].kind = "trimmed")
                      /\ routine.args[k].kind \in {"argv", "argvs"} =>
                           \A i \in 0 .. Rows(routine) - 1 :
                             LET words == call.argv[i]
                                 blank == {n \in DOMAIN words : Blanks(words[n])}
                             IN  /\ Len(c_argv[i]) = Min(blank)
                                 /\ \A n \in DOMAIN c_argv[i] :
                                      IsTrimmed(c_argv[i][n], words[n - 1], TRUE)
    BY DEF StringsCross
  <2>1. Given /\ k \in DOMAIN routine.args
    BY DEF IInv, TypeOK
  <2>2. CASE routine.args[k].kind \in StringKinds
    <3>1. c_str = CopyString
      BY <2>2 DEF StringsInv
    <3>2. IsTrimmed(CopyString, call.str, routine.args[k].kind = "trimmed")
      BY <2>1, <2>2, StringIsCopied
    <3>3. routine.args[k].kind \notin {"argv", "argvs"}
      BY <2>2 DEF StringKinds
    <3>4. QED
      BY <3>1, <3>2, <3>3
  <2>3. CASE routine.args[k].kind \in {"argv", "argvs"}
    <3>1. c_argv = ConvertArgv
      BY <2>3 DEF StringsInv
    <3>2. Uses(routine, {"argv", "argvs"})
      BY <2>1, <2>3 DEF Uses
    <3>3. routine.args[k].kind \notin StringKinds
      BY <2>3 DEF StringKinds
    <3>4. \A i \in 0 .. Rows(routine) - 1 :
            LET words == call.argv[i]
                blank == {n \in DOMAIN words : Blanks(words[n])}
            IN  /\ Len(ConvertArgv[i]) = Min(blank)
                /\ \A n \in DOMAIN ConvertArgv[i] :
                     IsTrimmed(ConvertArgv[i][n], words[n - 1], TRUE)
      BY <2>1, <3>2, VectorIsCopied
    <3>5. QED
      BY <3>1, <3>3, <3>4
  <2>4. QED
    BY <2>2, <2>3
<1>4. QED
  BY Invariance, <1>1, <1>2, <1>3, PTL DEF Spec
=============================================================================

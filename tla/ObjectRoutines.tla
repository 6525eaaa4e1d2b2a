--------------------------- MODULE ObjectRoutines ---------------------------
(***************************************************************************)
(* The entry points of gen/mpif_functions.c that create, free, name or     *)
(* describe MPI objects, or ask about them and the environment, and convert *)
(* some argument.  One definition per routine; Crossings says how to read  *)
(* them.                                                                   *)
(***************************************************************************)
EXTENDS Crossings

MPI_Abi_get_fortran_booleans == Call("MPI_Abi_get_fortran_booleans", <<Flag>>)
MPI_Abi_get_fortran_info == Call("MPI_Abi_get_fortran_info", <<New>>)
MPI_Abi_get_info == Call("MPI_Abi_get_info", <<New>>)
MPI_Add_error_string == Call("MPI_Add_error_string", <<String>>)
MPI_Attr_get == Call("MPI_Attr_get", <<Attribute, Flag>>)
MPI_Barrier_init == Call("MPI_Barrier_init", <<New>>)
MPI_Cancel == Call("MPI_Cancel", <<InOut>>)
MPI_Cart_create == Call("MPI_Cart_create", <<Logical, Logical, New>>)
MPI_Cart_map == Call("MPI_Cart_map", <<Logical>>)
MPI_Cart_sub == DimsCall("MPI_Cart_sub", <<Logical, New>>)
MPI_Close_port == Call("MPI_Close_port", <<String>>)
MPI_Comm_accept ==
  RootedCall("MPI_Comm_accept", <<AtRoot(String), AtRoot(Handle), New>>)
MPI_Comm_connect ==
  RootedCall("MPI_Comm_connect", <<AtRoot(String), AtRoot(Handle), New>>)
MPI_Comm_create == Call("MPI_Comm_create", <<New>>)
MPI_Comm_create_from_group ==
  Call("MPI_Comm_create_from_group", <<String, New>>)
MPI_Comm_create_group == Call("MPI_Comm_create_group", <<New>>)
MPI_Comm_detach_buffer == Call("MPI_Comm_detach_buffer", <<Detached>>)
MPI_Comm_disconnect == Call("MPI_Comm_disconnect", <<InOut>>)
MPI_Comm_dup == Call("MPI_Comm_dup", <<New>>)
MPI_Comm_dup_with_info == Call("MPI_Comm_dup_with_info", <<New>>)
MPI_Comm_free == Call("MPI_Comm_free", <<InOut>>)
MPI_Comm_get_attr == Call("MPI_Comm_get_attr", <<Attribute, Flag>>)
MPI_Comm_get_errhandler == Call("MPI_Comm_get_errhandler", <<New>>)
MPI_Comm_get_info == Call("MPI_Comm_get_info", <<New>>)
MPI_Comm_get_name == Call("MPI_Comm_get_name", <<Text>>)
MPI_Comm_get_parent == Call("MPI_Comm_get_parent", <<New>>)
MPI_Comm_group == Call("MPI_Comm_group", <<New>>)
MPI_Comm_idup == Call("MPI_Comm_idup", <<New, New>>)
MPI_Comm_idup_with_info == Call("MPI_Comm_idup_with_info", <<New, New>>)
MPI_Comm_iflush_buffer == Call("MPI_Comm_iflush_buffer", <<New>>)
MPI_Comm_join == Call("MPI_Comm_join", <<New>>)
MPI_Comm_remote_group == Call("MPI_Comm_remote_group", <<New>>)
MPI_Comm_set_name == Call("MPI_Comm_set_name", <<String>>)
MPI_Comm_spawn ==
  RootedCall("MPI_Comm_spawn",
    <<AtRoot(Trimmed), Argv, AtRoot(Handle), New, Errcodes>>)
MPI_Comm_spawn_multiple ==
  RootedCall("MPI_Comm_spawn_multiple",
    <<Commands, Argvs, AtRoot(Handle), New, Errcodes>>)
MPI_Comm_split == Call("MPI_Comm_split", <<New>>)
MPI_Comm_split_type == Call("MPI_Comm_split_type", <<New>>)
MPI_Comm_test_inter == Call("MPI_Comm_test_inter", <<Flag>>)
MPI_Dist_graph_create ==
  Call("MPI_Dist_graph_create", <<Weights, Logical, New>>)
MPI_Dist_graph_create_adjacent ==
  Call("MPI_Dist_graph_create_adjacent", <<Weights, Weights, Logical, New>>)
MPI_Dist_graph_neighbors ==
  Call("MPI_Dist_graph_neighbors", <<Weights, Weights>>)
MPI_Dist_graph_neighbors_count ==
  Call("MPI_Dist_graph_neighbors_count", <<Flag>>)
MPI_Errhandler_free == Call("MPI_Errhandler_free", <<InOut>>)
MPI_Error_string == Call("MPI_Error_string", <<Text>>)
MPI_File_close == Call("MPI_File_close", <<InOut>>)
MPI_File_delete == Call("MPI_File_delete", <<String>>)
MPI_File_get_atomicity == Call("MPI_File_get_atomicity", <<Flag>>)
MPI_File_get_errhandler == Call("MPI_File_get_errhandler", <<New>>)
MPI_File_get_group == Call("MPI_File_get_group", <<New>>)
MPI_File_get_info == Call("MPI_File_get_info", <<New>>)
MPI_File_get_view == Call("MPI_File_get_view", <<New, New, CallerText>>)
MPI_File_open == Call("MPI_File_open", <<String, New>>)
MPI_File_set_atomicity == Call("MPI_File_set_atomicity", <<Logical>>)
MPI_File_set_view == Call("MPI_File_set_view", <<String>>)
MPI_Finalized == Call("MPI_Finalized", <<Flag>>)
MPI_Get_hw_resource_info == Call("MPI_Get_hw_resource_info", <<New>>)
MPI_Get_library_version == Call("MPI_Get_library_version", <<Text>>)
MPI_Get_processor_name == Call("MPI_Get_processor_name", <<Text>>)
MPI_Graph_create == Call("MPI_Graph_create", <<Logical, New>>)
MPI_Group_difference == Call("MPI_Group_difference", <<New>>)
MPI_Group_excl == Call("MPI_Group_excl", <<New>>)
MPI_Group_free == Call("MPI_Group_free", <<InOut>>)
MPI_Group_from_session_pset ==
  Call("MPI_Group_from_session_pset", <<String, New>>)
MPI_Group_incl == Call("MPI_Group_incl", <<New>>)
MPI_Group_intersection == Call("MPI_Group_intersection", <<New>>)
MPI_Group_range_excl == Call("MPI_Group_range_excl", <<New>>)
MPI_Group_range_incl == Call("MPI_Group_range_incl", <<New>>)
MPI_Group_union == Call("MPI_Group_union", <<New>>)
MPI_Ibarrier == Call("MPI_Ibarrier", <<New>>)
MPI_Info_create == Call("MPI_Info_create", <<New>>)
MPI_Info_create_env == Call("MPI_Info_create_env", <<New>>)
MPI_Info_delete == Call("MPI_Info_delete", <<Trimmed>>)
MPI_Info_dup == Call("MPI_Info_dup", <<New>>)
MPI_Info_free == Call("MPI_Info_free", <<InOut>>)
MPI_Info_get == Call("MPI_Info_get", <<Trimmed, TextIfFlag, Flag>>)
MPI_Info_get_nthkey == Call("MPI_Info_get_nthkey", <<CallerText>>)
MPI_Info_get_string ==
  Call("MPI_Info_get_string", <<Trimmed, BoundedIfFlag, Flag>>)
MPI_Info_get_valuelen == Call("MPI_Info_get_valuelen", <<Trimmed, Flag>>)
MPI_Info_set == Call("MPI_Info_set", <<Trimmed, Trimmed>>)
MPI_Initialized == Call("MPI_Initialized", <<Flag>>)
MPI_Intercomm_create == Call("MPI_Intercomm_create", <<New>>)
MPI_Intercomm_create_from_groups ==
  Call("MPI_Intercomm_create_from_groups", <<String, New>>)
MPI_Intercomm_merge == Call("MPI_Intercomm_merge", <<Logical, New>>)
MPI_Is_thread_main == Call("MPI_Is_thread_main", <<Flag>>)
MPI_Lookup_name == Call("MPI_Lookup_name", <<String, Text>>)
MPI_Op_commutative == Call("MPI_Op_commutative", <<Flag>>)
MPI_Op_free == Call("MPI_Op_free", <<InOut>>)
MPI_Open_port == Call("MPI_Open_port", <<Text>>)
MPI_Pack_external_size == Call("MPI_Pack_external_size", <<String>>)
MPI_Parrived == Call("MPI_Parrived", <<Flag>>)
MPI_Publish_name == Call("MPI_Publish_name", <<String, String>>)
MPI_Request_free == Call("MPI_Request_free", <<InOut>>)
MPI_Session_detach_buffer == Call("MPI_Session_detach_buffer", <<Detached>>)
MPI_Session_finalize == Call("MPI_Session_finalize", <<InOut>>)
MPI_Session_get_errhandler == Call("MPI_Session_get_errhandler", <<New>>)
MPI_Session_get_info == Call("MPI_Session_get_info", <<New>>)
MPI_Session_get_nth_pset == Call("MPI_Session_get_nth_pset", <<Bounded>>)
MPI_Session_get_pset_info == Call("MPI_Session_get_pset_info", <<String, New>>)
MPI_Session_iflush_buffer == Call("MPI_Session_iflush_buffer", <<New>>)
MPI_Session_init == Call("MPI_Session_init", <<New>>)
MPI_Start == Call("MPI_Start", <<InOut>>)
MPI_Type_commit == Call("MPI_Type_commit", <<InOut>>)
MPI_Type_contiguous == Call("MPI_Type_contiguous", <<New>>)
MPI_Type_create_darray == Call("MPI_Type_create_darray", <<New>>)
MPI_Type_create_f90_complex == Call("MPI_Type_create_f90_complex", <<New>>)
MPI_Type_create_f90_integer == Call("MPI_Type_create_f90_integer", <<New>>)
MPI_Type_create_f90_real == Call("MPI_Type_create_f90_real", <<New>>)
MPI_Type_create_hindexed == Call("MPI_Type_create_hindexed", <<New>>)
MPI_Type_create_hindexed_block ==
  Call("MPI_Type_create_hindexed_block", <<New>>)
MPI_Type_create_hvector == Call("MPI_Type_create_hvector", <<New>>)
MPI_Type_create_indexed_block == Call("MPI_Type_create_indexed_block", <<New>>)
MPI_Type_create_resized == Call("MPI_Type_create_resized", <<New>>)
MPI_Type_create_struct == Call("MPI_Type_create_struct", <<Handle, New>>)
MPI_Type_create_subarray == Call("MPI_Type_create_subarray", <<New>>)
MPI_Type_dup == Call("MPI_Type_dup", <<New>>)
MPI_Type_free == Call("MPI_Type_free", <<InOut>>)
MPI_Type_get_attr == Call("MPI_Type_get_attr", <<Attribute, Flag>>)
MPI_Type_get_contents == Call("MPI_Type_get_contents", <<New>>)
MPI_Type_get_name == Call("MPI_Type_get_name", <<Text>>)
MPI_Type_get_value_index == Call("MPI_Type_get_value_index", <<New>>)
MPI_Type_indexed == Call("MPI_Type_indexed", <<New>>)
MPI_Type_match_size == Call("MPI_Type_match_size", <<New>>)
MPI_Type_set_name == Call("MPI_Type_set_name", <<String>>)
MPI_Type_vector == Call("MPI_Type_vector", <<New>>)
MPI_Unpublish_name == Call("MPI_Unpublish_name", <<String, String>>)
MPI_Win_allocate == Call("MPI_Win_allocate", <<New>>)
MPI_Win_allocate_shared == Call("MPI_Win_allocate_shared", <<New>>)
MPI_Win_create_dynamic == Call("MPI_Win_create_dynamic", <<New>>)
MPI_Win_free == Call("MPI_Win_free", <<InOut>>)
MPI_Win_get_attr == Call("MPI_Win_get_attr", <<Attribute, Flag>>)
MPI_Win_get_errhandler == Call("MPI_Win_get_errhandler", <<New>>)
MPI_Win_get_group == Call("MPI_Win_get_group", <<New>>)
MPI_Win_get_info == Call("MPI_Win_get_info", <<New>>)
MPI_Win_get_name == Call("MPI_Win_get_name", <<Text>>)
MPI_Win_set_name == Call("MPI_Win_set_name", <<String>>)
MPI_Win_test == Call("MPI_Win_test", <<Flag>>)

ObjectRoutines ==
  {MPI_Abi_get_fortran_booleans, MPI_Abi_get_fortran_info, MPI_Abi_get_info,
   MPI_Add_error_string, MPI_Attr_get, MPI_Barrier_init, MPI_Cancel,
   MPI_Cart_create, MPI_Cart_map, MPI_Cart_sub, MPI_Close_port,
   MPI_Comm_accept, MPI_Comm_connect, MPI_Comm_create,
   MPI_Comm_create_from_group, MPI_Comm_create_group, MPI_Comm_detach_buffer,
   MPI_Comm_disconnect, MPI_Comm_dup, MPI_Comm_dup_with_info, MPI_Comm_free,
   MPI_Comm_get_attr, MPI_Comm_get_errhandler, MPI_Comm_get_info,
   MPI_Comm_get_name, MPI_Comm_get_parent, MPI_Comm_group, MPI_Comm_idup,
   MPI_Comm_idup_with_info, MPI_Comm_iflush_buffer, MPI_Comm_join,
   MPI_Comm_remote_group, MPI_Comm_set_name, MPI_Comm_spawn,
   MPI_Comm_spawn_multiple, MPI_Comm_split, MPI_Comm_split_type,
   MPI_Comm_test_inter, MPI_Dist_graph_create, MPI_Dist_graph_create_adjacent,
   MPI_Dist_graph_neighbors, MPI_Dist_graph_neighbors_count,
   MPI_Errhandler_free, MPI_Error_string, MPI_File_close, MPI_File_delete,
   MPI_File_get_atomicity, MPI_File_get_errhandler, MPI_File_get_group,
   MPI_File_get_info, MPI_File_get_view, MPI_File_open, MPI_File_set_atomicity,
   MPI_File_set_view, MPI_Finalized, MPI_Get_hw_resource_info,
   MPI_Get_library_version, MPI_Get_processor_name, MPI_Graph_create,
   MPI_Group_difference, MPI_Group_excl, MPI_Group_free,
   MPI_Group_from_session_pset, MPI_Group_incl, MPI_Group_intersection,
   MPI_Group_range_excl, MPI_Group_range_incl, MPI_Group_union, MPI_Ibarrier,
   MPI_Info_create, MPI_Info_create_env, MPI_Info_delete, MPI_Info_dup,
   MPI_Info_free, MPI_Info_get, MPI_Info_get_nthkey, MPI_Info_get_string,
   MPI_Info_get_valuelen, MPI_Info_set, MPI_Initialized, MPI_Intercomm_create,
   MPI_Intercomm_create_from_groups, MPI_Intercomm_merge, MPI_Is_thread_main,
   MPI_Lookup_name, MPI_Op_commutative, MPI_Op_free, MPI_Open_port,
   MPI_Pack_external_size, MPI_Parrived, MPI_Publish_name, MPI_Request_free,
   MPI_Session_detach_buffer, MPI_Session_finalize, MPI_Session_get_errhandler,
   MPI_Session_get_info, MPI_Session_get_nth_pset, MPI_Session_get_pset_info,
   MPI_Session_iflush_buffer, MPI_Session_init, MPI_Start, MPI_Type_commit,
   MPI_Type_contiguous, MPI_Type_create_darray, MPI_Type_create_f90_complex,
   MPI_Type_create_f90_integer, MPI_Type_create_f90_real,
   MPI_Type_create_hindexed, MPI_Type_create_hindexed_block,
   MPI_Type_create_hvector, MPI_Type_create_indexed_block,
   MPI_Type_create_resized, MPI_Type_create_struct, MPI_Type_create_subarray,
   MPI_Type_dup, MPI_Type_free, MPI_Type_get_attr, MPI_Type_get_contents,
   MPI_Type_get_name, MPI_Type_get_value_index, MPI_Type_indexed,
   MPI_Type_match_size, MPI_Type_set_name, MPI_Type_vector, MPI_Unpublish_name,
   MPI_Win_allocate, MPI_Win_allocate_shared, MPI_Win_create_dynamic,
   MPI_Win_free, MPI_Win_get_attr, MPI_Win_get_errhandler, MPI_Win_get_group,
   MPI_Win_get_info, MPI_Win_get_name, MPI_Win_set_name, MPI_Win_test}
=============================================================================

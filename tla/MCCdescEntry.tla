--------------------------- MODULE MCCdescEntry -----------------------------
(* Instances of CdescEntry: every routine but MPI_Scatterv_init, and that. *)
EXTENDS CdescEntry

MCRoutines == CdescRoutines \ {MPI_Scatterv_init}
MCScatterv_init == {MPI_Scatterv_init}
=============================================================================

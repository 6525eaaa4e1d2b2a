----------------------------- MODULE CommLookup -----------------------------
(***************************************************************************)
(* What the generated entry points ask MPI about a communicator before     *)
(* they convert arguments, in gen/mpif_functions.c and, with the same      *)
(* code, in gen/mpif_f08_cdesc.c: whether this process is the root of the  *)
(* call, and how long the arrays of datatypes are.  Beside each question   *)
(* stands what the MPI standard says of it.                                *)
(***************************************************************************)
EXTENDS Integers

CONSTANTS
  MaxProcs,    \* the largest group of a communicator
  MaxDims      \* the most dimensions of a Cartesian topology

ASSUME BoundsAssumption == MaxProcs \in Nat \ {0} /\ MaxDims \in Nat

MPI_PROC_NULL == -3
MPI_ROOT == -4

-----------------------------------------------------------------------------
(* Communicators and the root arguments correct programs pass with them *)

\* A rank of the group, or on an intercommunicator MPI_ROOT at the root,
\* MPI_PROC_NULL beside it, and in the other group the root's rank there.
RootedComms ==
  {c \in [inter : BOOLEAN, rank : 0 .. MaxProcs - 1,
          root : {MPI_ROOT, MPI_PROC_NULL} \cup (0 .. MaxProcs - 1)] :
     ~c.inter => c.root >= 0}

GroupComms == [inter : BOOLEAN, local : 1 .. MaxProcs, remote : 1 .. MaxProcs]

NeighborComms ==
  [topology : {"cart"}, ndims : 0 .. MaxDims]
    \cup [topology : {"graph"}, nneighbors : 0 .. MaxProcs]
    \cup [topology : {"dist_graph"}, indegree : 0 .. MaxProcs,
          outdegree : 0 .. MaxProcs]
    \cup [topology : {"undefined"}]

\* The communicators worth telling apart for a routine that asks `lookup'.
Comms(lookup) ==
  CASE lookup = "root" -> RootedComms
    [] lookup = "members" -> GroupComms
    [] lookup = "neighbors" -> NeighborComms
    [] OTHER -> {[inter |-> FALSE]}

-----------------------------------------------------------------------------
(* The code's answers *)

\* q_at_root: PMPI_Comm_test_inter, then the root argument on an
\* intercommunicator and PMPI_Comm_rank within a group.
RankIsRoot(comm) == comm.rank = comm.root    \* mutant: as within a group
AtRootTest(comm) ==
  IF comm.inter THEN comm.root = MPI_ROOT ELSE comm.rank = comm.root

\* q_group_size: PMPI_Comm_remote_size or PMPI_Comm_size.
LocalSize(comm) == comm.local    \* mutant: the local group's always
GroupSize(comm) == IF comm.inter THEN comm.remote ELSE comm.local

\* <<q_outdegree, q_indegree>>: PMPI_Topo_test, then PMPI_Cartdim_get,
\* PMPI_Graph_neighbors_count or PMPI_Dist_graph_neighbors_count.  Both stay
\* 0 without a topology.
Degrees(comm) ==
  CASE comm.topology = "cart" -> <<2 * comm.ndims, 2 * comm.ndims>>
    [] comm.topology = "graph" -> <<comm.nneighbors, comm.nneighbors>>
    [] comm.topology = "dist_graph" -> <<comm.outdegree, comm.indegree>>
    [] OTHER -> <<0, 0>>

\* The lengths of the send and the receive side's arrays of datatypes.
ArrayLengths(lookup, comm) ==
  CASE lookup = "members" -> <<GroupSize(comm), GroupSize(comm)>>
    [] lookup = "neighbors" -> Degrees(comm)
    [] OTHER -> <<0, 0>>

-----------------------------------------------------------------------------
(* The standard's answers *)

\* The routines whose receive side, and whose send side, is marked
\* "significant only at root" in the standard's argument lists.
GatherNames ==
  {"MPI_Gather", "MPI_Igather", "MPI_Gather_init",
   "MPI_Gatherv", "MPI_Igatherv", "MPI_Gatherv_init"}
ReduceNames == {"MPI_Reduce", "MPI_Ireduce", "MPI_Reduce_init"}
ScatterNames ==
  {"MPI_Scatter", "MPI_Iscatter", "MPI_Scatter_init",
   "MPI_Scatterv", "MPI_Iscatterv", "MPI_Scatterv_init"}

TypeAtRootOnly(name, side) ==
  \/ side = 1 /\ name \in ScatterNames
  \/ side = 2 /\ name \in GatherNames
BufferAtRootOnly(name, side) ==
  \/ TypeAtRootOnly(name, side)
  \/ side = 2 /\ name \in ReduceNames

\* This process is the one the root argument designates.
IsRoot(comm) ==
  \/ comm.inter /\ comm.root = MPI_ROOT
  \/ ~comm.inter /\ comm.root = comm.rank

\* This process is in the root's group of an intercommunicator: it exchanges
\* nothing but what the root itself sends or receives.
InRootGroup(comm) == comm.inter /\ comm.root \in {MPI_ROOT, MPI_PROC_NULL}

\* The elements the program supplies of an array of datatypes, for the send
\* side (1) or the receive side (2): one per process it addresses.
SuppliedTypes(lookup, comm, side) ==
  CASE lookup = "members" -> IF comm.inter THEN comm.remote ELSE comm.local
    [] lookup = "neighbors" ->
         IF comm.topology = "cart" THEN 2 * comm.ndims
         ELSE IF comm.topology = "graph" THEN comm.nneighbors
         ELSE IF comm.topology = "dist_graph" THEN
           (IF side = 1 THEN comm.outdegree ELSE comm.indegree)
         ELSE 0
    [] OTHER -> 0
=============================================================================

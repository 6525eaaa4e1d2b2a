-------------------------- MODULE CheckEnvironment --------------------------
(***************************************************************************)
(* mpif_check_environment (src/mpif_check.c), called by every process of   *)
(* MPI_COMM_WORLD.  Each process compares what it was built against with   *)
(* what it loaded and what its environment says, first locally and then,   *)
(* when MPI is running, with the others by a series of collectives; a      *)
(* process that finds an inconsistency aborts the job.                     *)
(*                                                                         *)
(* A process's setup does not change while the check runs, so it is chosen *)
(* in Init from the sets the constants give.  The checks between two       *)
(* collectives touch nothing shared and are one step with the collective   *)
(* they follow.  Versions are numbers.  The ABI's major version must be the *)
(* one mpif was built against; the other six version fields are treated    *)
(* alike, a newer one is fine, and one of them stands for each.            *)
(***************************************************************************)
EXTENDS Integers, Sequences, FiniteSets, FiniteSetsExt, SequencesExt

CONSTANTS
  Skews,      \* how a process's own pieces may disagree: "none", "build" (mpif's
              \* header, library and sentinels), "booleans" (Fortran logicals)
  Abis,       \* ABI major versions a process may have loaded; -1 for none
  Abi,        \* the one mpif was built against
  Versions,   \* versions a process may have loaded
  Required,   \* the version mpif was built against
  Libraries,  \* library version strings
  WantLibs,   \* values of MPIF_MPI_LIBRARY, each given as the set of the
              \* library version strings that contain it
  WantSizes,  \* values of MPIF_SIZE
  Launched,   \* values of the launcher variables (PMI_SIZE ...)
  NumNodes,   \* values of MPIF_NUM_NODES
  NodeSizes,  \* values of MPIF_NODE_SIZE
  Nodes,      \* processor names
  Jobs,       \* the jobs to check: the setup of each rank
  INT_HALF,   \* an int holds -INT_HALF .. INT_HALF - 1 (2^31 in the code)
  Unset,      \* the variable is not set, or empty
  Malformed   \* the variable is set to something that is not a number

Setup ==
  [skew : Skews, abi : Abis, version : Versions, library : Libraries,
   want_lib : WantLibs, want_size : WantSizes, launched : Launched,
   num_nodes : NumNodes, node_size : NodeSizes, node : Nodes]

\* The size of MPI_COMM_WORLD and the version numbers are ints.
ASSUME CheckEnvironmentAssumption ==
  /\ \A job \in Jobs :
       LET n == Cardinality(DOMAIN job)
       IN  n \in 1 .. INT_HALF - 1 /\ job \in [0 .. n - 1 -> Setup]
  /\ Skews \subseteq {"none", "build", "booleans"}
  /\ Required \in Int
  /\ Abis \union Versions \subseteq -INT_HALF .. INT_HALF - 1
  /\ INT_HALF \in Nat \ {0}
  /\ WantSizes \union Launched \union NumNodes \union NodeSizes
       \subseteq Int \union {Unset, Malformed}
  /\ Unset # Malformed /\ {Unset, Malformed} \intersect Int = {}

VARIABLES
  setup,    \* what each process was built with, loaded, and finds around it
  window,   \* MPI is initialized and not finalized
  eager,    \* MPI lets a process leave a collective as soon as it may
  pc,       \* the collective each process is in, or how it ended
  joined,   \* the communication calls each process has entered, in order
  aborted,  \* PMPI_Abort was called
  broken    \* history: an MPI call failed, or memory ran out

vars == <<setup, window, eager, pc, joined, aborted, broken>>
config == <<setup, window, eager>>

\* The processes of MPI_COMM_WORLD and how many they are.
Ranks == DOMAIN setup
N     == Cardinality(Ranks)
Root  == 0

Calls == {"dup", "min", "max", "bcast", "ring", "reduce", "gather", "free"}
Ended == {"returned", "failed", "killed"}

Init ==
  /\ setup \in Jobs
  /\ window \in BOOLEAN
  /\ eager \in BOOLEAN
  /\ pc = [r \in Ranks |-> "start"]
  /\ joined = [r \in Ranks |-> <<>>]
  /\ aborted = FALSE
  /\ broken = FALSE

-----------------------------------------------------------------------------
(* The checks                                                              *)

\* Header version, sentinels, ABI and MPI version, library name: these run
\* whether or not MPI is initialized.  A library may be newer than the headers,
\* but not of another ABI.
EarlyChecks(r) ==
  /\ setup[r].skew # "build"
  /\ setup[r].abi = Abi
  /\ setup[r].version >= Required
  /\ setup[r].want_lib # Unset => setup[r].library \in setup[r].want_lib

\* The launcher started more processes than this singleton can see.
Singleton(r) ==
  /\ N = 1
  /\ setup[r].launched # Unset
  /\ setup[r].launched = Malformed \/ setup[r].launched > 1

\* The checks that need MPI but no other process: the Fortran booleans the
\* library holds, the launcher and MPIF_SIZE.
LocalChecks(r) ==
  /\ setup[r].skew # "booleans"
  /\ ~Singleton(r)
  /\ setup[r].want_size \in {Unset, N}

WellFormed(r) == Malformed \notin {setup[r].num_nodes, setup[r].node_size}

\* (int)value, with 0 for a variable that is not set.
ToInt(v) ==
  IF v = Unset THEN 0 ELSE ((v + INT_HALF) % (2 * INT_HALF)) - INT_HALF

local(r, f) ==
  IF f \in {"abi", "version"} THEN setup[r][f] ELSE ToInt(setup[r][f])
vmin(f)     == Min({local(r, f) : r \in Ranks})
vmax(f)     == Max({local(r, f) : r \in Ranks})

\* Mutant of Agrees: the versions are not compared.
AgreesOnEnvironment(r) ==
  \A f \in {"num_nodes", "node_size"} : local(r, f) \in {0, vmax(f)}

\* The loop over the reduced fields.  An expectation need not be stated by all.
Agrees(r) ==
  /\ \A f \in {"abi", "version"} : vmin(f) = vmax(f)
  /\ \A f \in {"num_nodes", "node_size"} : local(r, f) \in {0, vmax(f)}

SameLibrary(r) == setup[r].library = setup[Root].library

\* Whether the node names are gathered: decided by what the reduction brought
\* to everybody, not by this process's own variables.
GatherIfMine(r) ==   \* mutant: the process's own variables decide
  local(r, "num_nodes") > 0 \/ local(r, "node_size") > 0
Gathers(r) == vmax("num_nodes") > 0 \/ vmax("node_size") > 0

NodesUsed    == {setup[r].node : r \in Ranks}
SizeOf(node) == Cardinality({r \in Ranks : setup[r].node = node})

\* The root's verdict on the gathered names.
LayoutChecks ==
  /\ vmax("node_size") > 0 => \A n \in NodesUsed : SizeOf(n) = vmax("node_size")
  /\ vmax("num_nodes") > 0 => Cardinality(NodesUsed) = vmax("num_nodes")

-----------------------------------------------------------------------------
(* Communication                                                           *)

\* Process r waits in a call until the processes in needs have entered it too:
\* the same call, at the same place in their sequence of calls.  Only an eager
\* library lets it go before everybody is there.
Complete(r, needs) ==
  LET k == Len(joined[r])
  IN  \A q \in (IF eager THEN needs ELSE Ranks) :
        Len(joined[q]) >= k /\ joined[q][k] = joined[r][k]

Enter(r, call) ==
  /\ pc' = [pc EXCEPT ![r] = call]
  /\ joined' = [joined EXCEPT ![r] = Append(@, call)]
  /\ UNCHANGED <<config, aborted, broken>>

\* mpif_check_fail: PMPI_Abort ends the job if MPI is running, abort() this
\* process otherwise.
FailQuietly(r) ==   \* mutant: abort() only
  /\ pc' = [pc EXCEPT ![r] = "failed"]
  /\ UNCHANGED <<config, joined, aborted, broken>>
Fail(r) ==
  /\ pc' = [pc EXCEPT ![r] = "failed"]
  /\ aborted' = (aborted \/ window)
  /\ UNCHANGED <<config, joined, broken>>

EnterOrFail(r, ok, call) == IF ok THEN Enter(r, call) ELSE Fail(r)

-----------------------------------------------------------------------------
(* mpif_check_environment, from one communication call to the next         *)

\* Before MPI_Init or after MPI_Finalize the check ends with the early checks.
OutsideWindow(r) ==
  /\ pc[r] = "start" /\ ~window
  /\ IF EarlyChecks(r)
     THEN /\ pc' = [pc EXCEPT ![r] = "returned"]
          /\ UNCHANGED <<config, joined, aborted, broken>>
     ELSE Fail(r)

StartExactVersion(r) ==   \* mutant: a library newer than the headers is refused
  /\ pc[r] = "start" /\ window
  /\ EnterOrFail(r, /\ EarlyChecks(r) /\ LocalChecks(r)
                    /\ setup[r].version = Required, "dup")

\* The local checks, before the first collective.
Start(r) ==
  /\ pc[r] = "start" /\ window
  /\ EnterOrFail(r, EarlyChecks(r) /\ LocalChecks(r), "dup")

\* MPI_Comm_dup returns; MPIF_NUM_NODES and MPIF_NODE_SIZE are read.
Dup(r) ==
  /\ pc[r] = "dup" /\ Complete(r, Ranks)
  /\ EnterOrFail(r, WellFormed(r), "min")

MinReduce(r) == pc[r] = "min" /\ Complete(r, Ranks) /\ Enter(r, "max")

MaxReduce(r) ==
  /\ pc[r] = "max" /\ Complete(r, Ranks)
  /\ EnterOrFail(r, Agrees(r), "bcast")

BcastUnchecked(r) ==   \* mutant: the strings are not compared
  pc[r] = "bcast" /\ Complete(r, {Root}) /\ Enter(r, "ring")
Bcast(r) ==
  /\ pc[r] = "bcast" /\ Complete(r, {Root})
  /\ EnterOrFail(r, SameLibrary(r), "ring")

\* The token from the left neighbour arrives.
Ring(r) ==
  pc[r] = "ring" /\ Complete(r, {(r + N - 1) % N}) /\ Enter(r, "reduce")

\* The head count; only the root waits for the others.
Reduce(r) ==
  /\ pc[r] = "reduce" /\ Complete(r, IF r = Root THEN Ranks ELSE {})
  /\ Enter(r, IF Gathers(r) THEN "gather" ELSE "free")

\* The node names reach the root, which judges the layout.
Gather(r) ==
  /\ pc[r] = "gather" /\ Complete(r, IF r = Root THEN Ranks ELSE {})
  /\ EnterOrFail(r, r = Root => LayoutChecks, "free")

CommFree(r) ==
  /\ pc[r] = "free" /\ Complete(r, {})
  /\ pc' = [pc EXCEPT ![r] = "returned"]
  /\ UNCHANGED <<config, joined, aborted, broken>>

\* An MPI call returns an error, the token or the head count is wrong, or the
\* root has no memory for the names.
MpiFails(r) ==
  /\ pc[r] \in {"start"} \union Calls
  /\ pc' = [pc EXCEPT ![r] = "failed"]
  /\ aborted' = (aborted \/ window)
  /\ broken' = TRUE
  /\ UNCHANGED <<config, joined>>

\* PMPI_Abort reaches a process that is still checking.
Killed(r) ==
  /\ aborted
  /\ pc[r] \notin Ended
  /\ pc' = [pc EXCEPT ![r] = "killed"]
  /\ UNCHANGED <<config, joined, aborted, broken>>

-----------------------------------------------------------------------------

Progress(r) ==
  \/ OutsideWindow(r) \/ Start(r) \/ Dup(r) \/ MinReduce(r) \/ MaxReduce(r)
  \/ Bcast(r) \/ Ring(r) \/ Reduce(r) \/ Gather(r) \/ CommFree(r) \/ Killed(r)

Next == \E r \in Ranks : Progress(r) \/ MpiFails(r)

Spec == Init /\ [][Next]_vars

\* Every process is scheduled, MPI completes a call that can complete, and
\* PMPI_Abort does end the job.
Fairness == \A r \in UNION {DOMAIN job : job \in Jobs} :
              WF_vars(r \in Ranks /\ Progress(r))

FairSpec == Spec /\ Fairness

-----------------------------------------------------------------------------
(* Properties                                                              *)

\* The shape of each process's progress through the check.
TypeOK ==
  /\ setup \in Jobs
  /\ window \in BOOLEAN /\ eager \in BOOLEAN
  /\ pc \in [Ranks -> {"start"} \union Calls \union Ended]
  /\ joined \in [Ranks -> Seq(Calls)]
  /\ aborted \in BOOLEAN /\ broken \in BOOLEAN

\* The variables keep their types, and all processes make the same calls in the
\* same order, however differently their environments are set: one may be ahead
\* of another, never elsewhere.
CollectiveOrder ==
  /\ TypeOK
  /\ \A q, r \in Ranks :
       IsPrefix(joined[q], joined[r]) \/ IsPrefix(joined[r], joined[q])

\* An expectation is stated in earnest when it is a number of processes or nodes
\* that fits an int.
InRange(v)    == v \notin {Unset, Malformed} /\ v \in 1 .. INT_HALF - 1
Met(v, truth) == InRange(v) => v = truth

\* The job is what every process expects.
Consistent ==
  /\ \A r \in Ranks :
       /\ EarlyChecks(r) /\ LocalChecks(r) /\ WellFormed(r)
       /\ setup[r].version = setup[Root].version
       /\ SameLibrary(r)
       /\ Met(setup[r].num_nodes, Cardinality(NodesUsed))
       /\ \A n \in NodesUsed : Met(setup[r].node_size, SizeOf(n))

\* When mpif_check_environment returns everywhere, the job is consistent: what
\* only one process could see has not been missed.
ReturnMeansConsistent ==
  window /\ (\A r \in Ranks : pc[r] = "returned") => Consistent

\* One process's return already speaks for all: no process failed a local
\* check, none has a malformed variable, and the versions agree, although that
\* process has heard of the others only through collectives.
OneReturnBindsAll ==
  window /\ (\E r \in Ranks : pc[r] = "returned") =>
    \A r \in Ranks :
      /\ EarlyChecks(r) /\ LocalChecks(r) /\ WellFormed(r)
      /\ setup[r].version = setup[Root].version

\* Every check that fails has a reason: some process's own setup is bad, two
\* processes differ, or a variable that is set states something else than what
\* is the case.
NoFalseAlarm ==
  (\E r \in Ranks : pc[r] = "failed") /\ ~broken =>
    \/ ~Consistent
    \/ \E r \in Ranks :
         \/ setup[r].num_nodes \notin {Unset, Cardinality(NodesUsed)}
         \/ \E n \in NodesUsed : setup[r].node_size \notin {Unset, SizeOf(n)}

\* "A size mismatch aborts rather than hangs", and so does every other
\* disagreement: every process that calls the check returns from it or dies.
EveryCallEnds == <>(\A r \in Ranks : pc[r] \in Ended)

\* "Optional environment variables, checked when set and ignored when not": if
\* the check passes, every node variable that is set says what is the case.
\* (The code does not keep this promise.)
CheckedWhenSet ==
  window /\ (\A r \in Ranks : pc[r] = "returned") =>
    \A r \in Ranks :
      /\ setup[r].num_nodes \in {Unset, Cardinality(NodesUsed)}
      /\ \A n \in NodesUsed : setup[r].node_size \in {Unset, SizeOf(n)}
=============================================================================

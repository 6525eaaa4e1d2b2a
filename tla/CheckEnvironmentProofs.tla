----------------------- MODULE CheckEnvironmentProofs -----------------------
(***************************************************************************)
(* Theorems about CheckEnvironment, for jobs of any size and any setup of  *)
(* their processes.  The argument: what the reductions bring to everybody  *)
(* fixes one script of communication calls; how far a process is in it     *)
(* says which checks it has passed and, because the reductions wait for    *)
(* everybody, which checks all the others have.                            *)
(***************************************************************************)
EXTENDS CheckEnvironment, FiniteSetTheorems, WellFoundedInduction, TLAPS

\* The calls every process makes if no check fails: the last ones are fixed by
\* what the reductions bring, once every process's variables are numbers.
Gathering == (\A r \in Ranks : WellFormed(r)) /\ Gathers(Root)
Script ==
  IF Gathering
  THEN <<"dup", "min", "max", "bcast", "ring", "reduce", "gather", "free">>
  ELSE <<"dup", "min", "max", "bcast", "ring", "reduce", "free">>

\* Every process follows the script, and a check that returned has ended it.
Scripted ==
  \A r \in Ranks :
    /\ Len(joined[r]) <= Len(Script)
    /\ \A k \in 1 .. Len(joined[r]) : joined[r][k] = Script[k]
    /\ pc[r] = "start" => Len(joined[r]) = 0
    /\ pc[r] \in Calls => Len(joined[r]) >= 1 /\ pc[r] = Script[Len(joined[r])]
    /\ window /\ pc[r] = "returned" => Len(joined[r]) = Len(Script)

\* What a process that has come this far knows of itself and of the others.
Passed ==
  \A r \in Ranks :
    /\ Len(joined[r]) >= 1 => EarlyChecks(r) /\ LocalChecks(r)
    /\ Len(joined[r]) >= 2 => WellFormed(r) /\ \A q \in Ranks : Len(joined[q]) >= 1
    /\ Len(joined[r]) >= 3 => \A q \in Ranks : Len(joined[q]) >= 2
    /\ Len(joined[r]) >= 4 => Agrees(r)
    /\ Len(joined[r]) >= 5 => SameLibrary(r)
    /\ Len(joined[r]) = 8 /\ r = Root => LayoutChecks

\* The job is consistent and every node variable that is set says what is the
\* case: no check has a reason to fail.
Sane ==
  /\ Consistent
  /\ \A r \in Ranks :
       /\ setup[r].num_nodes \in {Unset, Cardinality(NodesUsed)}
       /\ \A n \in NodesUsed : setup[r].node_size \in {Unset, SizeOf(n)}

\* Then no check fails, unless MPI does.
Quiet == Sane /\ ~broken => \A r \in Ranks : pc[r] # "failed"

IInv == TypeOK /\ Scripted /\ Passed /\ Quiet

-----------------------------------------------------------------------------
(* Numbers *)

\* Every nonempty set of natural numbers has a least element.
LEMMA Least ==
  ASSUME NEW T, T \subseteq Nat, T # {}
  PROVE  \E x \in T : \A y \in T : x <= y
<1> DEFINE R == OpToRel(<, Nat)
<1>1. IsWellFoundedOn(R, Nat)
  BY NatLessThanWellFounded
<1>2. \A x, y \in Nat : <<x, y>> \in R <=> x < y
  BY DEF OpToRel
<1> HIDE DEF R
<1>3. PICK x \in T : \A y \in T : ~(<<y, x>> \in R)
  BY <1>1, WFMin
<1>4. ASSUME NEW y \in T PROVE x <= y
  <2>1. x \in Nat /\ y \in Nat /\ ~(y < x)
    BY <1>2, <1>3
  <2>2. QED
    BY <2>1
<1>5. QED
  BY <1>3, <1>4

\* Max is the greatest element of a nonempty set of ints.
LEMMA MaxOfInts ==
  ASSUME NEW H \in Int, NEW S, S # {}, \A x \in S : x \in Int /\ x <= H
  PROVE  Max(S) \in S /\ \A y \in S : y <= Max(S)
<1> DEFINE T == {H - x : x \in S}
<1>1. T # {} /\ \A t \in T : t \in Nat
  OBVIOUS
<1>2. PICK m \in T : \A y \in T : m <= y
  BY <1>1, Least
<1>3. PICK x \in S : m = H - x
  OBVIOUS
<1>4. ASSUME NEW y \in S PROVE x >= y
  <2>1. H - y \in T /\ x \in Int /\ y \in Int
    OBVIOUS
  <2>2. H - x <= H - y
    BY <1>2, <1>3, <2>1
  <2>3. QED
    BY <2>1, <2>2
<1> HIDE DEF T
<1>5. Max(S) \in S /\ \A y \in S : Max(S) >= y
  BY <1>4 DEF Max
<1>6. QED
  BY <1>5

\* Min is the least one.
LEMMA MinOfInts ==
  ASSUME NEW H \in Int, NEW S, S # {}, \A x \in S : x \in Int /\ H <= x
  PROVE  Min(S) \in S /\ \A y \in S : Min(S) <= y
<1> DEFINE T == {x - H : x \in S}
<1>1. T # {} /\ \A t \in T : t \in Nat
  OBVIOUS
<1>2. PICK m \in T : \A y \in T : m <= y
  BY <1>1, Least
<1>3. PICK x \in S : m = x - H
  OBVIOUS
<1>4. ASSUME NEW y \in S PROVE x <= y
  <2>1. y - H \in T /\ x \in Int /\ y \in Int
    OBVIOUS
  <2>2. x - H <= y - H
    BY <1>2, <1>3, <2>1
  <2>3. QED
    BY <2>1, <2>2
<1> HIDE DEF T
<1>5. Min(S) \in S /\ \A y \in S : Min(S) <= y
  BY <1>4 DEF Min
<1>6. QED
  BY <1>5

\* A number that fits an int survives the conversion to int.
LEMMA ToIntKeeps ==
  ASSUME NEW v \in 0 .. INT_HALF - 1
  PROVE  ToInt(v) = v
<1>1. 0 <= v + INT_HALF /\ v + INT_HALF < 2 * INT_HALF /\ v # Unset
  BY CheckEnvironmentAssumption
<1>2. (v + INT_HALF) % (2 * INT_HALF) = v + INT_HALF
  BY <1>1, CheckEnvironmentAssumption
<1>3. QED
  BY <1>1, <1>2, CheckEnvironmentAssumption DEF ToInt

-----------------------------------------------------------------------------
(* The job *)

\* The ranks are 0 .. N - 1, and there are few enough to count with an int.
LEMMA JobShape ==
  ASSUME TypeOK
  PROVE  /\ N \in 1 .. INT_HALF - 1 /\ Ranks = 0 .. N - 1 /\ Root \in Ranks
         /\ \A r \in Ranks : setup[r] \in Setup
         /\ IsFiniteSet(Ranks)
<1>1. N \in 1 .. INT_HALF - 1 /\ setup \in [0 .. N - 1 -> Setup]
  BY CheckEnvironmentAssumption DEF TypeOK, N, Ranks
<1>2. Ranks = 0 .. N - 1
  BY <1>1 DEF Ranks
<1>3. IsFiniteSet(0 .. N - 1)
  BY <1>1, FS_Interval
<1>4. QED
  BY <1>1, <1>2, <1>3, CheckEnvironmentAssumption DEF Root

\* Setups do not change, and the checks depend on nothing else.
LEMMA SetupIsFixed ==
  ASSUME setup' = setup
  PROVE  /\ Ranks' = Ranks /\ Script' = Script
         /\ \A r \in Ranks : /\ EarlyChecks(r)' <=> EarlyChecks(r)
                             /\ LocalChecks(r)' <=> LocalChecks(r)
                             /\ WellFormed(r)' <=> WellFormed(r)
                             /\ Agrees(r)' <=> Agrees(r)
                             /\ SameLibrary(r)' <=> SameLibrary(r)
         /\ LayoutChecks' <=> LayoutChecks
         /\ Sane' <=> Sane
<1>1. Ranks' = Ranks /\ N' = N
  BY DEF Ranks, N
<1>2. \A f : vmin(f)' = vmin(f) /\ vmax(f)' = vmax(f)
  BY <1>1 DEF vmin, vmax, local, ToInt
<1>3. \A r \in Ranks : WellFormed(r)' <=> WellFormed(r)
  BY DEF WellFormed
<1>4. Script' = Script
  BY <1>1, <1>2, <1>3 DEF Script, Gathering, Gathers
<1>5. \A r \in Ranks : /\ EarlyChecks(r)' <=> EarlyChecks(r)
                       /\ LocalChecks(r)' <=> LocalChecks(r)
                       /\ SameLibrary(r)' <=> SameLibrary(r)
  BY <1>1 DEF EarlyChecks, LocalChecks, Singleton, SameLibrary
<1>6. \A r \in Ranks : Agrees(r)' <=> Agrees(r)
  BY <1>2 DEF Agrees, local, ToInt
<1>7. LayoutChecks' <=> LayoutChecks
  BY <1>1, <1>2 DEF LayoutChecks, NodesUsed, SizeOf
<1>8. Sane' <=> Sane
  <2>1. NodesUsed' = NodesUsed /\ Root' = Root
    BY <1>1 DEF NodesUsed, Root
  <2>2. \A n : SizeOf(n)' = SizeOf(n)
    BY <1>1 DEF SizeOf
  <2>3. Consistent' <=> Consistent
    BY <1>1, <1>3, <1>5, <2>1, <2>2 DEF Consistent, Met, InRange
  <2>4. QED
    BY <1>1, <2>1, <2>2, <2>3 DEF Sane
<1>9. QED
  BY <1>1, <1>3, <1>4, <1>5, <1>6, <1>7, <1>8

\* Nodes and processes of a node can be counted with an int, and there are some.
LEMMA Counts ==
  ASSUME TypeOK
  PROVE  /\ Cardinality(NodesUsed) \in 1 .. INT_HALF - 1
         /\ \A n \in NodesUsed : SizeOf(n) \in 1 .. INT_HALF - 1
<1>1. /\ N \in 1 .. INT_HALF - 1 /\ IsFiniteSet(Ranks) /\ N = Cardinality(Ranks)
      /\ Root \in Ranks
  BY JobShape DEF N
<1>2. Cardinality(NodesUsed) \in 1 .. INT_HALF - 1
  <2> DEFINE f == [r \in Ranks |-> setup[r].node]
  <2>1. f \in Surjection(Ranks, NodesUsed)
    BY DEF Surjection, NodesUsed
  <2>2. IsFiniteSet(NodesUsed) /\ Cardinality(NodesUsed) <= N
    BY <1>1, <2>1, FS_Surjection
  <2>3. NodesUsed # {}
    BY <1>1 DEF NodesUsed
  <2>4. Cardinality(NodesUsed) \in Nat /\ Cardinality(NodesUsed) # 0
    BY <2>2, <2>3, FS_CardinalityType, FS_EmptySet
  <2>5. QED
    BY <1>1, <2>2, <2>4, CheckEnvironmentAssumption
<1>3. ASSUME NEW n \in NodesUsed PROVE SizeOf(n) \in 1 .. INT_HALF - 1
  <2> DEFINE S == {r \in Ranks : setup[r].node = n}
  <2>1. S \in SUBSET Ranks /\ S # {}
    BY DEF NodesUsed
  <2>2. SizeOf(n) = Cardinality(S)
    BY DEF SizeOf
  <2> HIDE DEF S
  <2>3. IsFiniteSet(S) /\ Cardinality(S) <= N
    BY <1>1, <2>1, FS_Subset
  <2>4. Cardinality(S) \in Nat /\ Cardinality(S) # 0
    BY <2>1, <2>3, FS_CardinalityType, FS_EmptySet
  <2>5. QED
    BY <1>1, <2>2, <2>3, <2>4, CheckEnvironmentAssumption
<1>4. QED
  BY <1>2, <1>3

\* A version and a variable that is not malformed are ints as the reductions
\* see them, so the reductions find their extremes.
LEMMA Reduced ==
  ASSUME TypeOK, NEW f \in {"abi", "version", "num_nodes", "node_size"},
         f \in {"abi", "version"} \/ \A r \in Ranks : WellFormed(r)
  PROVE  /\ \A r \in Ranks : local(r, f) \in -INT_HALF .. INT_HALF - 1
         /\ \E r \in Ranks : vmax(f) = local(r, f)
         /\ \E r \in Ranks : vmin(f) = local(r, f)
         /\ \A r \in Ranks : vmin(f) <= local(r, f) /\ local(r, f) <= vmax(f)
<1> DEFINE S == {local(r, f) : r \in Ranks}
<1> USE CheckEnvironmentAssumption
<1>1. ASSUME NEW r \in Ranks PROVE local(r, f) \in -INT_HALF .. INT_HALF - 1
  <2>1. setup[r] \in Setup
    BY JobShape
  <2>2. CASE f \in {"abi", "version"}
    <3>1. setup[r].abi \in Abis /\ setup[r].version \in Versions
      BY <2>1 DEF Setup
    <3>2. QED
      BY <2>2, <3>1 DEF local
  <2>3. ASSUME NEW v \in Int \union {Unset} PROVE ToInt(v) \in -INT_HALF .. INT_HALF - 1
    <3>1. CASE v = Unset
      BY <3>1 DEF ToInt
    <3>2. CASE v \in Int
      <4>1. (v + INT_HALF) % (2 * INT_HALF) \in 0 .. 2 * INT_HALF - 1
        BY <3>2
      <4>2. QED
        BY <3>2, <4>1 DEF ToInt
    <3>3. QED
      BY <3>1, <3>2
  <2>4. CASE f \in {"num_nodes", "node_size"}
    <3>1. setup[r][f] \in Int \union {Unset}
      BY <2>1, <2>4 DEF Setup, WellFormed
    <3>2. local(r, f) = ToInt(setup[r][f])
      BY <2>4 DEF local
    <3>3. QED
      BY <2>3, <3>1, <3>2
  <2>5. QED
    BY <2>2, <2>4
<1>2. S # {} /\ \A x \in S : x \in Int /\ x <= INT_HALF - 1 /\ -INT_HALF <= x
  BY <1>1, JobShape
<1>3. vmin(f) = Min(S) /\ vmax(f) = Max(S)
  BY DEF vmin, vmax
<1>4. \A r \in Ranks : local(r, f) \in S
  OBVIOUS
<1>5. \A x \in S : \E r \in Ranks : x = local(r, f)
  OBVIOUS
<1> HIDE DEF S
<1>6. Max(S) \in S /\ \A y \in S : y <= Max(S)
  BY <1>2, MaxOfInts
<1>7. Min(S) \in S /\ \A y \in S : Min(S) <= y
  BY <1>2, MinOfInts
<1>8. QED
  BY <1>1, <1>3, <1>4, <1>5, <1>6, <1>7

\* In such a job no check fails.
LEMMA SaneJobPasses ==
  ASSUME TypeOK, Sane, NEW r \in Ranks
  PROVE  /\ EarlyChecks(r) /\ LocalChecks(r) /\ WellFormed(r) /\ Agrees(r)
         /\ SameLibrary(r) /\ LayoutChecks
<1> USE CheckEnvironmentAssumption
<1>1. \A q \in Ranks : /\ EarlyChecks(q) /\ LocalChecks(q) /\ WellFormed(q)
                       /\ SameLibrary(q) /\ setup[q].version = setup[Root].version
  BY DEF Sane, Consistent
<1>2. ASSUME NEW f \in {"abi", "version"} PROVE vmin(f) = vmax(f)
  <2>1. PICK p \in Ranks : vmin(f) = local(p, f)
    BY Reduced
  <2>2. PICK q \in Ranks : vmax(f) = local(q, f)
    BY Reduced
  <2>3. setup[p].abi = setup[q].abi /\ setup[p].version = setup[q].version
    BY <1>1 DEF EarlyChecks
  <2>4. QED
    BY <2>1, <2>2, <2>3 DEF local
<1>3. ASSUME NEW f \in {"num_nodes", "node_size"}, NEW c \in 1 .. INT_HALF - 1,
             \A q \in Ranks : setup[q][f] \in {Unset, c}
      PROVE  /\ \A q \in Ranks : local(q, f) \in {0, vmax(f)}
             /\ vmax(f) > 0 => vmax(f) = c
  <2>1. \A q \in Ranks : local(q, f) \in {0, c}
    <3>1. ToInt(c) = c /\ ToInt(Unset) = 0
      BY ToIntKeeps DEF ToInt
    <3>2. QED
      BY <1>3, <3>1 DEF local
  <2>2. /\ \E q \in Ranks : vmax(f) = local(q, f)
        /\ \A q \in Ranks : local(q, f) <= vmax(f)
    BY <1>1, Reduced
  <2>3. QED
    BY <2>1, <2>2
<1>4. PICK n \in NodesUsed : TRUE
  BY JobShape DEF NodesUsed
<1>5. /\ \A q \in Ranks : local(q, "num_nodes") \in {0, vmax("num_nodes")}
      /\ vmax("num_nodes") > 0 => vmax("num_nodes") = Cardinality(NodesUsed)
  <2> DEFINE c == Cardinality(NodesUsed)
  <2>1. c \in 1 .. INT_HALF - 1 /\ \A q \in Ranks : setup[q]["num_nodes"] \in {Unset, c}
    BY Counts DEF Sane
  <2> HIDE DEF c
  <2>2. QED
    BY <1>3, <2>1 DEF c
<1>6. ASSUME NEW m \in NodesUsed
      PROVE  /\ \A q \in Ranks : local(q, "node_size") \in {0, vmax("node_size")}
             /\ vmax("node_size") > 0 => vmax("node_size") = SizeOf(m)
  <2>1. /\ SizeOf(m) \in 1 .. INT_HALF - 1
        /\ \A q \in Ranks : setup[q]["node_size"] \in {Unset, SizeOf(m)}
    BY Counts DEF Sane
  <2>2. QED
    BY <1>3, <2>1
<1>7. Agrees(r)
  BY <1>2, <1>4, <1>5, <1>6 DEF Agrees
<1>8. LayoutChecks
  BY <1>5, <1>6 DEF LayoutChecks
<1>9. QED
  BY <1>1, <1>7, <1>8

-----------------------------------------------------------------------------
(* The inductive invariant *)

\* Init of CheckEnvironment satisfies the inductive invariant.
LEMMA InitEstablishes == Init => IInv
<1> SUFFICES ASSUME Init PROVE IInv
  OBVIOUS
<1>1. TypeOK
  <2>1. joined \in [Ranks -> Seq(Calls)]
    <3>1. <<>> \in Seq(Calls)
      OBVIOUS
    <3>2. QED
      BY <3>1 DEF Init
  <2>2. aborted \in BOOLEAN /\ broken \in BOOLEAN
    BY DEF Init
  <2>3. QED
    BY <2>1, <2>2 DEF Init, TypeOK
<1>2. Scripted
  BY DEF Init, Scripted, Calls, Script
<1>3. Passed /\ Quiet
  BY DEF Init, Passed, Quiet
<1>4. QED
  BY <1>1, <1>2, <1>3 DEF IInv

\* The script, call by call.
LEMMA ScriptCalls ==
  /\ Script[1] = "dup" /\ Script[2] = "min" /\ Script[3] = "max" /\ Script[4] = "bcast"
  /\ Script[5] = "ring" /\ Script[6] = "reduce"
  /\ Gathering => Len(Script) = 8 /\ Script[7] = "gather" /\ Script[8] = "free"
  /\ ~Gathering => Len(Script) = 7 /\ Script[7] = "free"
BY DEF Script

\* A process's place in the script is where the code has it.
LEMMA Position ==
  ASSUME IInv, NEW r \in Ranks
  PROVE  /\ Len(joined[r]) \in Nat
         /\ pc[r] = "start" => Len(joined[r]) = 0
         /\ pc[r] = "dup" => Len(joined[r]) = 1
         /\ pc[r] = "min" => Len(joined[r]) = 2
         /\ pc[r] = "max" => Len(joined[r]) = 3
         /\ pc[r] = "bcast" => Len(joined[r]) = 4
         /\ pc[r] = "ring" => Len(joined[r]) = 5
         /\ pc[r] = "reduce" => Len(joined[r]) = 6
         /\ pc[r] = "gather" => Len(joined[r]) = 7 /\ Gathering
         /\ pc[r] = "free" => Len(joined[r]) = Len(Script)
<1> DEFINE k == Len(joined[r])
<1>1. k \in Nat /\ k <= Len(Script)
  BY DEF IInv, TypeOK, Scripted
<1>2. /\ pc[r] = "start" => k = 0
      /\ pc[r] \in Calls => k >= 1 /\ pc[r] = Script[k]
  BY DEF IInv, Scripted
<1> HIDE DEF k
<1>3. CASE Gathering
  <2>0. k <= 8
    BY <1>1, <1>3, ScriptCalls
  <2>1. ASSUME pc[r] \in Calls PROVE k \in {1, 2, 3, 4, 5, 6, 7, 8}
    <3>1. k \in Nat /\ k >= 1 /\ k <= 8
      BY <1>1, <1>2, <2>0, <2>1
    <3>2. QED
      BY <3>1
  <2>2. pc[r] \in Calls => \/ k = 1 /\ pc[r] = "dup"
                           \/ k = 2 /\ pc[r] = "min"
                           \/ k = 3 /\ pc[r] = "max"
                           \/ k = 4 /\ pc[r] = "bcast"
                           \/ k = 5 /\ pc[r] = "ring"
                           \/ k = 6 /\ pc[r] = "reduce"
                           \/ k = 7 /\ pc[r] = "gather"
                           \/ k = 8 /\ pc[r] = "free"
    BY <1>2, <1>3, <2>1, ScriptCalls
  <2>3. QED
    BY <1>1, <1>2, <1>3, <2>2, ScriptCalls DEF k, Calls
<1>4. CASE ~Gathering
  <2>0. k <= 7
    BY <1>1, <1>4, ScriptCalls
  <2>1. ASSUME pc[r] \in Calls PROVE k \in {1, 2, 3, 4, 5, 6, 7}
    <3>1. k \in Nat /\ k >= 1 /\ k <= 7
      BY <1>1, <1>2, <2>0, <2>1
    <3>2. QED
      BY <3>1
  <2>2. pc[r] \in Calls => \/ k = 1 /\ pc[r] = "dup"
                           \/ k = 2 /\ pc[r] = "min"
                           \/ k = 3 /\ pc[r] = "max"
                           \/ k = 4 /\ pc[r] = "bcast"
                           \/ k = 5 /\ pc[r] = "ring"
                           \/ k = 6 /\ pc[r] = "reduce"
                           \/ k = 7 /\ pc[r] = "free"
    BY <1>2, <1>4, <2>1, ScriptCalls
  <2>3. QED
    BY <1>1, <1>2, <1>4, <2>2, ScriptCalls DEF k, Calls
<1>5. QED
  BY <1>3, <1>4

\* A call that waits for everybody: they have all come as far.
LEMMA EverybodyIsThere ==
  ASSUME NEW r \in Ranks, Complete(r, Ranks)
  PROVE  \A q \in Ranks : Len(joined[q]) >= Len(joined[r])
BY DEF Complete

\* The call is the next one of the script, and the process has passed what it
\* must have passed to enter it.
Ready(r, call) ==
  /\ Len(joined[r]) < Len(Script)
  /\ call \in Calls /\ call = Script[Len(joined[r]) + 1]
  /\ Len(joined[r]) = 0 => EarlyChecks(r) /\ LocalChecks(r)
  /\ Len(joined[r]) = 1 => WellFormed(r) /\ \A q \in Ranks : Len(joined[q]) >= 1
  /\ Len(joined[r]) = 2 => \A q \in Ranks : Len(joined[q]) >= 2
  /\ Len(joined[r]) = 3 => Agrees(r)
  /\ Len(joined[r]) = 4 => SameLibrary(r)
  /\ Len(joined[r]) = 7 /\ r = Root => LayoutChecks

\* Entering such a call keeps the inductive invariant.
LEMMA EnterStep ==
  ASSUME IInv, NEW r \in Ranks, NEW call, Ready(r, call), Enter(r, call)
  PROVE  IInv'
<1> DEFINE k == Len(joined[r])
<1> USE DEF IInv
<1>0. call \in Calls
  BY DEF Ready
<1>1. /\ UNCHANGED <<setup, window, eager, aborted, broken>>
      /\ pc' = [pc EXCEPT ![r] = call]
      /\ joined' = [joined EXCEPT ![r] = Append(joined[r], call)]
  BY DEF Enter, config
<1>2. /\ Ranks' = Ranks /\ Script' = Script
  BY <1>1, SetupIsFixed
<1>3. /\ joined[r] \in Seq(Calls) /\ k \in Nat /\ Len(Script) \in Nat
      /\ Append(joined[r], call) \in Seq(Calls)
      /\ Len(Append(joined[r], call)) = k + 1
      /\ Append(joined[r], call)[k + 1] = call
      /\ \A i \in 1 .. k : Append(joined[r], call)[i] = joined[r][i]
  BY <1>0, ScriptCalls DEF TypeOK
<1>4. /\ joined' \in [Ranks -> Seq(Calls)]
      /\ Len(joined'[r]) = k + 1 /\ joined'[r][k + 1] = call
      /\ \A i \in 1 .. k : joined'[r][i] = joined[r][i]
      /\ \A q \in Ranks \ {r} : joined'[q] = joined[q]
      /\ pc' \in [Ranks -> {"start"} \union Calls \union Ended] /\ pc'[r] = call
      /\ \A q \in Ranks \ {r} : pc'[q] = pc[q]
  BY <1>0, <1>1, <1>3 DEF TypeOK
<1> HIDE DEF k
<1>5. TypeOK'
  BY <1>1, <1>2, <1>4 DEF TypeOK
<1>6. Scripted'
  <2>1. ASSUME NEW q \in Ranks, q # r PROVE Scripted!(q)'
    BY <1>1, <1>2, <1>4, <2>1 DEF Scripted
  <2>2. Scripted!(r)'
    <3>1. k + 1 <= Len(Script)
      BY <1>3 DEF k, Ready
    <3>2. \A i \in 1 .. k + 1 : joined'[r][i] = Script[i]
      BY <1>3, <1>4 DEF Scripted, k, Ready
    <3>3. call \notin {"start", "returned"}
      BY <1>0 DEF Calls
    <3>4. QED
      BY <1>1, <1>2, <1>3, <1>4, <3>1, <3>2, <3>3, <1>0 DEF k, Ready
  <2>3. QED
    BY <1>2, <2>1, <2>2 DEF Scripted
<1>7. Passed'
  <2>1. \A q \in Ranks : /\ Len(joined[q]) \in Nat /\ Len(joined'[q]) \in Nat
                         /\ Len(joined'[q]) >= Len(joined[q])
    <3>1. \A q \in Ranks : Len(joined[q]) \in Nat
      BY DEF TypeOK
    <3>2. Len(joined'[r]) = Len(joined[r]) + 1
      BY <1>4 DEF k
    <3>3. \A q \in Ranks \ {r} : Len(joined'[q]) = Len(joined[q])
      BY <1>4
    <3>4. QED
      BY <3>1, <3>2, <3>3
  <2>2. \A q \in Ranks : /\ EarlyChecks(q)' <=> EarlyChecks(q)
                         /\ LocalChecks(q)' <=> LocalChecks(q)
                         /\ WellFormed(q)' <=> WellFormed(q)
                         /\ Agrees(q)' <=> Agrees(q)
                         /\ SameLibrary(q)' <=> SameLibrary(q)
                         /\ LayoutChecks' <=> LayoutChecks
    BY <1>1, SetupIsFixed
  <2>3. Root' = Root
    BY DEF Root
  <2>4. /\ k >= 0 => EarlyChecks(r) /\ LocalChecks(r)
        /\ k >= 1 => WellFormed(r) /\ \A q \in Ranks : Len(joined[q]) >= 1
        /\ k >= 2 => \A q \in Ranks : Len(joined[q]) >= 2
        /\ k >= 3 => Agrees(r)
        /\ k >= 4 => SameLibrary(r)
        /\ k = 7 /\ r = Root => LayoutChecks
    <3>1. /\ k >= 1 => EarlyChecks(r) /\ LocalChecks(r)
          /\ k >= 2 => WellFormed(r) /\ \A q \in Ranks : Len(joined[q]) >= 1
          /\ k >= 3 => \A q \in Ranks : Len(joined[q]) >= 2
          /\ k >= 4 => Agrees(r)
          /\ k >= 5 => SameLibrary(r)
      BY DEF Passed, k
    <3>2. /\ k = 0 => EarlyChecks(r) /\ LocalChecks(r)
          /\ k = 1 => WellFormed(r) /\ \A q \in Ranks : Len(joined[q]) >= 1
          /\ k = 2 => \A q \in Ranks : Len(joined[q]) >= 2
          /\ k = 3 => Agrees(r)
          /\ k = 4 => SameLibrary(r)
          /\ k = 7 /\ r = Root => LayoutChecks
      BY DEF k, Ready
    <3>3. QED
      BY <1>3, <3>1, <3>2
  <2>5. ASSUME NEW q \in Ranks
        PROVE  /\ Len(joined'[q]) >= 1 => EarlyChecks(q) /\ LocalChecks(q)
               /\ Len(joined'[q]) >= 2 => WellFormed(q) /\ \A p \in Ranks : Len(joined[p]) >= 1
               /\ Len(joined'[q]) >= 3 => \A p \in Ranks : Len(joined[p]) >= 2
               /\ Len(joined'[q]) >= 4 => Agrees(q)
               /\ Len(joined'[q]) >= 5 => SameLibrary(q)
               /\ Len(joined'[q]) = 8 /\ q = Root => LayoutChecks
    <3>1. CASE q # r
      <4>1. joined'[q] = joined[q]
        BY <1>4, <3>1
      <4>2. QED
        BY <4>1 DEF Passed
    <3>2. CASE q = r
      <4>1. /\ Len(joined'[q]) >= 1 => k >= 0
            /\ Len(joined'[q]) >= 2 => k >= 1
            /\ Len(joined'[q]) >= 3 => k >= 2
            /\ Len(joined'[q]) >= 4 => k >= 3
            /\ Len(joined'[q]) >= 5 => k >= 4
            /\ Len(joined'[q]) = 8 => k = 7
        <5>1. Len(joined'[q]) = k + 1 /\ k \in Nat
          BY <1>3, <1>4, <3>2 DEF k
        <5>2. QED
          BY <5>1
      <4>2. QED
        BY <2>4, <3>2, <4>1
    <3>3. QED
      BY <3>1, <3>2
  <2>6. \A q \in Ranks : /\ Len(joined[q]) >= 1 => Len(joined'[q]) >= 1
                         /\ Len(joined[q]) >= 2 => Len(joined'[q]) >= 2
    BY <2>1
  <2>7. QED
    BY <1>2, <2>2, <2>3, <2>5, <2>6 DEF Passed
<1>8. Quiet'
  <2>1. call # "failed"
    BY <1>0 DEF Calls
  <2>2. Sane' <=> Sane
    BY <1>1, SetupIsFixed
  <2>3. QED
    BY <1>1, <1>2, <1>4, <2>1, <2>2 DEF Quiet
<1>9. QED
  BY <1>5, <1>6, <1>7, <1>8

\* A process leaves the script, ends, or fails for a reason: nobody's place moves.
LEMMA StayStep ==
  ASSUME IInv, NEW r \in Ranks, NEW end \in Ended,
         pc' = [pc EXCEPT ![r] = end],
         UNCHANGED <<setup, window, eager, joined>>,
         aborted' \in BOOLEAN, broken' \in BOOLEAN, broken => broken',
         end = "returned" /\ window => Len(joined[r]) = Len(Script),
         end = "failed" => broken' \/ ~Sane
  PROVE  IInv'
<1> USE DEF IInv
<1>1. Ranks' = Ranks /\ Script' = Script /\ Root' = Root
  BY SetupIsFixed DEF Root
<1>2. /\ pc' \in [Ranks -> {"start"} \union Calls \union Ended] /\ pc'[r] = end
      /\ \A q \in Ranks \ {r} : pc'[q] = pc[q]
  BY DEF TypeOK
<1>3. TypeOK'
  BY <1>1, <1>2 DEF TypeOK
<1>4. Scripted'
  <2>1. end \notin Calls /\ end # "start"
    BY DEF Calls, Ended
  <2>2. QED
    BY <1>1, <1>2, <2>1 DEF Scripted
<1>5. Passed'
  <2>1. \A q \in Ranks : /\ EarlyChecks(q)' <=> EarlyChecks(q)
                         /\ LocalChecks(q)' <=> LocalChecks(q)
                         /\ WellFormed(q)' <=> WellFormed(q)
                         /\ Agrees(q)' <=> Agrees(q)
                         /\ SameLibrary(q)' <=> SameLibrary(q)
                         /\ LayoutChecks' <=> LayoutChecks
    BY SetupIsFixed
  <2>2. QED
    BY <1>1, <2>1 DEF Passed
<1>6. Quiet'
  <2>1. Sane' <=> Sane
    BY SetupIsFixed
  <2>2. QED
    BY <1>1, <1>2, <2>1 DEF Quiet
<1>7. QED
  BY <1>3, <1>4, <1>5, <1>6

\* A check fails: the job is not sane.
LEMMA FailStep ==
  ASSUME IInv, NEW r \in Ranks, Fail(r), ~Sane
  PROVE  IInv'
<1>1. /\ pc' = [pc EXCEPT ![r] = "failed"]
      /\ UNCHANGED <<setup, window, eager, joined, broken>>
  BY DEF Fail, config
<1>2. aborted' \in BOOLEAN /\ broken' \in BOOLEAN
  BY <1>1 DEF Fail, IInv, TypeOK
<1>3. "failed" \in Ended /\ "failed" # "returned"
  BY DEF Ended
<1>4. QED
  BY <1>1, <1>2, <1>3, StayStep

\* Each step of a process keeps the inductive invariant.
LEMMA StepPreserves ==
  ASSUME IInv, NEW r \in Ranks, Progress(r) \/ MpiFails(r)
  PROVE  IInv'
<1> DEFINE k == Len(joined[r])
<1>0. TypeOK /\ Len(Script) \in {7, 8}
  BY ScriptCalls DEF IInv
<1>1. CASE OutsideWindow(r)
  <2>1. CASE EarlyChecks(r)
    <3>1. /\ pc' = [pc EXCEPT ![r] = "returned"] /\ ~window
          /\ UNCHANGED <<setup, window, eager, joined, aborted, broken>>
      BY <1>1, <2>1 DEF OutsideWindow, config
    <3>2. /\ "returned" \in Ended /\ "returned" # "failed"
          /\ aborted' \in BOOLEAN /\ broken' \in BOOLEAN
      BY <1>0, <3>1 DEF Ended, TypeOK
    <3>3. QED
      BY <3>1, <3>2, StayStep
  <2>2. CASE ~EarlyChecks(r)
    BY <1>0, <1>1, <2>2, SaneJobPasses, FailStep DEF OutsideWindow
  <2>3. QED
    BY <2>1, <2>2
<1>2. CASE Start(r)
  <2>1. k = 0
    BY <1>2, Position DEF Start
  <2>2. CASE EarlyChecks(r) /\ LocalChecks(r)
    <3>1. Enter(r, "dup")
      BY <1>2, <2>2 DEF Start, EnterOrFail
    <3>2. Ready(r, "dup")
      BY <1>0, <2>1, <2>2, ScriptCalls DEF Ready, Calls
    <3>3. QED
      BY <3>1, <3>2, EnterStep
  <2>3. CASE ~(EarlyChecks(r) /\ LocalChecks(r))
    BY <1>0, <1>2, <2>3, SaneJobPasses, FailStep DEF Start, EnterOrFail
  <2>4. QED
    BY <2>2, <2>3
<1>3. CASE Dup(r)
  <2>1. k = 1 /\ \A q \in Ranks : Len(joined[q]) >= 1
    <3>1. k = 1
      BY <1>3, Position DEF Dup
    <3>2. QED
      BY <1>3, <3>1, EverybodyIsThere DEF Dup
  <2>2. CASE WellFormed(r)
    <3>1. Enter(r, "min")
      BY <1>3, <2>2 DEF Dup, EnterOrFail
    <3>2. Ready(r, "min")
      BY <1>0, <2>1, <2>2, ScriptCalls DEF Ready, Calls
    <3>3. QED
      BY <3>1, <3>2, EnterStep
  <2>3. CASE ~WellFormed(r)
    BY <1>0, <1>3, <2>3, SaneJobPasses, FailStep DEF Dup, EnterOrFail
  <2>4. QED
    BY <2>2, <2>3
<1>4. CASE MinReduce(r)
  <2>1. k = 2 /\ \A q \in Ranks : Len(joined[q]) >= 2
    <3>1. k = 2
      BY <1>4, Position DEF MinReduce
    <3>2. QED
      BY <1>4, <3>1, EverybodyIsThere DEF MinReduce
  <2>2. Enter(r, "max")
    BY <1>4 DEF MinReduce
  <2>3. Ready(r, "max")
    BY <1>0, <2>1, ScriptCalls DEF Ready, Calls
  <2>4. QED
    BY <2>2, <2>3, EnterStep
<1>5. CASE MaxReduce(r)
  <2>1. k = 3
    BY <1>5, Position DEF MaxReduce
  <2>2. CASE Agrees(r)
    <3>1. Enter(r, "bcast")
      BY <1>5, <2>2 DEF MaxReduce, EnterOrFail
    <3>2. Ready(r, "bcast")
      BY <1>0, <2>1, <2>2, ScriptCalls DEF Ready, Calls
    <3>3. QED
      BY <3>1, <3>2, EnterStep
  <2>3. CASE ~Agrees(r)
    BY <1>0, <1>5, <2>3, SaneJobPasses, FailStep DEF MaxReduce, EnterOrFail
  <2>4. QED
    BY <2>2, <2>3
<1>6. CASE Bcast(r)
  <2>1. k = 4
    BY <1>6, Position DEF Bcast
  <2>2. CASE SameLibrary(r)
    <3>1. Enter(r, "ring")
      BY <1>6, <2>2 DEF Bcast, EnterOrFail
    <3>2. Ready(r, "ring")
      BY <1>0, <2>1, <2>2, ScriptCalls DEF Ready, Calls
    <3>3. QED
      BY <3>1, <3>2, EnterStep
  <2>3. CASE ~SameLibrary(r)
    BY <1>0, <1>6, <2>3, SaneJobPasses, FailStep DEF Bcast, EnterOrFail
  <2>4. QED
    BY <2>2, <2>3
<1>7. CASE Ring(r)
  <2>1. k = 5
    BY <1>7, Position DEF Ring
  <2>2. Enter(r, "reduce")
    BY <1>7 DEF Ring
  <2>3. Ready(r, "reduce")
    BY <1>0, <2>1, ScriptCalls DEF Ready, Calls
  <2>4. QED
    BY <2>2, <2>3, EnterStep
<1>8. CASE Reduce(r)
  <2>1. k = 6
    BY <1>8, Position DEF Reduce
  <2>2. \A q \in Ranks : WellFormed(q)
    <3>1. \A q \in Ranks : Len(joined[q]) >= 2
      <4>1. k >= 3
        BY <2>1
      <4>2. QED
        BY <4>1 DEF IInv, Passed
    <3>2. QED
      BY <3>1 DEF IInv, Passed
  <2>3. Gathers(r) <=> Gathering
    BY <2>2 DEF Gathering, Gathers
  <2>4. CASE Gathering
    <3>1. Enter(r, "gather")
      BY <1>8, <2>3, <2>4 DEF Reduce
    <3>2. Len(Script) = 8 /\ Script[7] = "gather"
      BY <2>4, ScriptCalls
    <3>3. Ready(r, "gather")
      BY <2>1, <3>2 DEF Ready, Calls
    <3>4. QED
      BY <3>1, <3>3, EnterStep
  <2>5. CASE ~Gathering
    <3>1. Enter(r, "free")
      BY <1>8, <2>3, <2>5 DEF Reduce
    <3>2. Ready(r, "free")
      BY <1>0, <2>1, <2>5, ScriptCalls DEF Ready, Calls
    <3>3. QED
      BY <3>1, <3>2, EnterStep
  <2>6. QED
    BY <2>4, <2>5
<1>9. CASE Gather(r)
  <2>1. k = 7 /\ Gathering
    BY <1>9, Position DEF Gather
  <2>2. CASE r = Root => LayoutChecks
    <3>1. Enter(r, "free")
      BY <1>9, <2>2 DEF Gather, EnterOrFail
    <3>2. Len(Script) = 8 /\ Script[8] = "free"
      BY <2>1, ScriptCalls
    <3>3. Ready(r, "free")
      BY <2>1, <2>2, <3>2 DEF Ready, Calls
    <3>4. QED
      BY <3>1, <3>3, EnterStep
  <2>3. CASE ~(r = Root => LayoutChecks)
    BY <1>0, <1>9, <2>3, SaneJobPasses, FailStep DEF Gather, EnterOrFail
  <2>4. QED
    BY <2>2, <2>3
<1>10. CASE CommFree(r)
  <2>1. k = Len(Script)
    BY <1>10, Position DEF CommFree
  <2>2. /\ pc' = [pc EXCEPT ![r] = "returned"]
        /\ UNCHANGED <<setup, window, eager, joined, aborted, broken>>
    BY <1>10 DEF CommFree, config
  <2>3. /\ "returned" \in Ended /\ "returned" # "failed"
        /\ aborted' \in BOOLEAN /\ broken' \in BOOLEAN
    BY <1>0, <2>2 DEF Ended, TypeOK
  <2>4. QED
    BY <2>1, <2>2, <2>3, StayStep
<1>11. CASE Killed(r)
  <2>1. /\ pc' = [pc EXCEPT ![r] = "killed"]
        /\ UNCHANGED <<setup, window, eager, joined, aborted, broken>>
    BY <1>11 DEF Killed, config
  <2>2. /\ "killed" \in Ended /\ "killed" # "failed" /\ "killed" # "returned"
        /\ aborted' \in BOOLEAN /\ broken' \in BOOLEAN
    BY <1>0, <2>1 DEF Ended, TypeOK
  <2>3. QED
    BY <2>1, <2>2, StayStep
<1>12. CASE MpiFails(r)
  <2>1. /\ pc' = [pc EXCEPT ![r] = "failed"] /\ broken'
        /\ UNCHANGED <<setup, window, eager, joined>>
    BY <1>12 DEF MpiFails, config
  <2>2. /\ "failed" \in Ended /\ "failed" # "returned"
        /\ aborted' \in BOOLEAN /\ broken' \in BOOLEAN
    BY <1>12 DEF Ended, MpiFails
  <2>3. QED
    BY <2>1, <2>2, StayStep
<1>13. QED
  BY <1>1, <1>2, <1>3, <1>4, <1>5, <1>6, <1>7, <1>8, <1>9, <1>10, <1>11, <1>12
     DEF Progress

\* The inductive invariant holds in every reachable state.
LEMMA Invariance == Spec => []IInv
<1>1. IInv /\ [Next]_vars => IInv'
  <2> SUFFICES ASSUME IInv, [Next]_vars PROVE IInv'
    OBVIOUS
  <2>1. CASE Next
    BY <2>1, StepPreserves DEF Next
  <2>2. CASE UNCHANGED vars
    <3>1. UNCHANGED <<setup, window, eager, pc, joined, aborted, broken>>
      BY <2>2 DEF vars
    <3>2. TypeOK'
      BY <3>1, SetupIsFixed DEF IInv, TypeOK
    <3>3. Scripted'
      BY <3>1, SetupIsFixed DEF IInv, Scripted
    <3>4. Passed'
      <4>1. Root' = Root
        BY DEF Root
      <4>2. QED
        BY <3>1, <4>1, SetupIsFixed DEF IInv, Passed
    <3>5. Quiet'
      BY <3>1, SetupIsFixed DEF IInv, Quiet
    <3>6. QED
      BY <3>2, <3>3, <3>4, <3>5 DEF IInv
  <2>3. QED
    BY <2>1, <2>2
<1>2. QED
  BY InitEstablishes, <1>1, PTL DEF Spec

-----------------------------------------------------------------------------
(* The theorems *)

\* All processes make the same communication calls in the same order, in a job
\* of any size and whatever each process's environment says.
THEOREM CallsAreOrdered == Spec => []CollectiveOrder
<1>1. IInv => CollectiveOrder
  <2> SUFFICES ASSUME IInv PROVE CollectiveOrder
    OBVIOUS
  <2>1. ASSUME NEW p \in Ranks, NEW q \in Ranks, Len(joined[p]) <= Len(joined[q])
        PROVE  IsPrefix(joined[p], joined[q])
    <3>1. joined[p] \in Seq(Calls) /\ joined[q] \in Seq(Calls)
      BY DEF IInv, TypeOK
    <3>2. \A k \in 1 .. Len(joined[p]) : joined[p][k] = joined[q][k]
      BY <2>1, <3>1 DEF IInv, Scripted
    <3>3. QED
      BY <2>1, <3>1, <3>2 DEF IsPrefix
  <2>2. \A p, q \in Ranks : \/ Len(joined[p]) <= Len(joined[q])
                            \/ Len(joined[q]) <= Len(joined[p])
    BY DEF IInv, TypeOK
  <2>3. QED
    BY <2>1, <2>2 DEF CollectiveOrder, IInv
<1>2. QED
  BY Invariance, <1>1, PTL

\* A process that has returned is at the end of the script: everybody has passed
\* the local checks, and what is known of everybody then.
LEMMA ReturnedKnows ==
  ASSUME IInv, window, NEW r \in Ranks, pc[r] = "returned"
  PROVE  /\ \A q \in Ranks : EarlyChecks(q) /\ LocalChecks(q) /\ WellFormed(q)
         /\ \A q \in Ranks : setup[q].version = setup[Root].version
         /\ Agrees(r) /\ SameLibrary(r)
         /\ r = Root /\ Gathering => LayoutChecks
<1> DEFINE k == Len(joined[r])
<1>1. k = Len(Script)
  BY DEF IInv, Scripted
<1>2. k >= 1 /\ k >= 3 /\ k >= 4 /\ k >= 5
  BY <1>1, ScriptCalls
<1>3. Agrees(r) /\ SameLibrary(r) /\ \A q \in Ranks : Len(joined[q]) >= 2
  BY <1>2 DEF IInv, Passed
<1>4. \A q \in Ranks : WellFormed(q) /\ Len(joined[q]) >= 1
  BY <1>3 DEF IInv, Passed
<1>5. \A q \in Ranks : EarlyChecks(q) /\ LocalChecks(q)
  BY <1>4 DEF IInv, Passed
<1>6. r = Root /\ Gathering => LayoutChecks
  BY <1>1, ScriptCalls DEF IInv, Passed
<1>7. ASSUME NEW q \in Ranks PROVE setup[q].version = vmax("version")
  <2>1. /\ local(q, "version") \in Int /\ vmax("version") \in Int
        /\ vmin("version") <= local(q, "version") /\ local(q, "version") <= vmax("version")
    BY Reduced, CheckEnvironmentAssumption DEF IInv
  <2>2. vmin("version") = vmax("version")
    BY <1>3 DEF Agrees
  <2>3. local(q, "version") = vmax("version")
    BY <2>1, <2>2
  <2>4. QED
    BY <2>3 DEF local
<1>8. Root \in Ranks
  BY JobShape DEF IInv
<1>9. QED
  BY <1>3, <1>4, <1>5, <1>6, <1>7, <1>8

\* One process's return already says that no process fails a local check, has a
\* malformed variable or another version.
THEOREM ReturnBindsAll == Spec => []OneReturnBindsAll
<1>1. IInv => OneReturnBindsAll
  BY ReturnedKnows DEF OneReturnBindsAll
<1>2. QED
  BY Invariance, <1>1, PTL

\* When the check returns everywhere, the job is what every process expects.
THEOREM ReturnsAreConsistent == Spec => []ReturnMeansConsistent
<1>1. IInv => ReturnMeansConsistent
  <2> SUFFICES ASSUME IInv, window, \A r \in Ranks : pc[r] = "returned"
               PROVE  Consistent
    BY DEF ReturnMeansConsistent
  <2>1. /\ TypeOK /\ Root \in Ranks
        /\ \A r \in Ranks : /\ EarlyChecks(r) /\ LocalChecks(r) /\ WellFormed(r)
                            /\ setup[r].version = setup[Root].version
                            /\ SameLibrary(r) /\ Agrees(r)
        /\ Gathering => LayoutChecks
    BY ReturnedKnows, JobShape DEF IInv
  <2>2. ASSUME NEW r \in Ranks, NEW f \in {"num_nodes", "node_size"}, InRange(setup[r][f])
        PROVE  setup[r][f] = vmax(f) /\ vmax(f) > 0 /\ LayoutChecks
    <3>1. setup[r][f] \in 1 .. INT_HALF - 1
      BY <2>2 DEF InRange
    <3>2. local(r, f) = setup[r][f]
      BY <3>1, ToIntKeeps, CheckEnvironmentAssumption DEF local
    <3>3. local(r, f) \in {0, vmax(f)}
      BY <2>1 DEF Agrees
    <3>4. setup[r][f] = vmax(f) /\ vmax(f) > 0
      BY <3>1, <3>2, <3>3, CheckEnvironmentAssumption
    <3>5. Gathers(Root)
      BY <3>4 DEF Gathers
    <3>6. QED
      BY <2>1, <3>4, <3>5 DEF Gathering
  <2>3. \A r \in Ranks : Met(setup[r].num_nodes, Cardinality(NodesUsed))
    BY <2>2 DEF Met, LayoutChecks
  <2>4. \A r \in Ranks : \A n \in NodesUsed : Met(setup[r].node_size, SizeOf(n))
    BY <2>2 DEF Met, LayoutChecks
  <2>5. QED
    BY <2>1, <2>3, <2>4 DEF Consistent
<1>2. QED
  BY Invariance, <1>1, PTL

\* A check that fails while MPI works has a reason.
THEOREM FailuresHaveReasons == Spec => []NoFalseAlarm
<1>1. IInv => NoFalseAlarm
  BY DEF IInv, Quiet, Sane, NoFalseAlarm
<1>2. QED
  BY Invariance, <1>1, PTL
=============================================================================

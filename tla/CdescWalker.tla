---------------------------- MODULE CdescWalker -----------------------------
(***************************************************************************)
(* mpif_cdesc_create_datatype (src/mpif_cdesc.c): given the descriptor of  *)
(* a Fortran array section that is not contiguous, and the (count,         *)
(* datatype) the program passed with it, build one MPI datatype that       *)
(* selects the section's data.  The walk wraps the datatype in one level   *)
(* per dimension, innermost first.                                         *)
(*                                                                         *)
(* A datatype is what the MPI standard makes of it: the byte displacements *)
(* of the oldtype units it selects, in order, with its lower bound and its *)
(* extent.  One step per MPI call that can fail; the input is chosen in    *)
(* Init.                                                                   *)
(***************************************************************************)
EXTENDS Integers, Sequences, FiniteSets, FiniteSetsExt

CONSTANTS
  MaxRank,    \* bound: rank of the descriptor
  ElemLens,   \* bytes of a descriptor element
  Sizes,      \* sizes of oldtype
  Extents,    \* extents of oldtype (it may be resized)
  Shapes,     \* extents of a dimension
  Strides,    \* byte strides (sm) of a dimension, negative ones included
  Counts      \* values of oldcount

ASSUME CdescWalkerAssumption ==
  /\ MaxRank \in Nat \ {0}
  /\ ElemLens \subseteq Nat \ {0}
  /\ Sizes \subseteq Nat
  /\ Shapes \subseteq Nat
  /\ Counts \subseteq Nat
  /\ Extents \union Strides \subseteq Int

VARIABLES
  cdesc,     \* the descriptor: elem_len and dim
  oldcount,  \* the count the program passed
  oldtype,   \* its datatype
  pc,        \* the next step
  cur,       \* the datatype built so far
  owned,     \* cur was created here
  count,     \* the elements to account for
  elems_per_cur,
  bytes_per_cur,
  dense,     \* cur may be replicated by MPI_Type_contiguous
  done,      \* count is accounted for
  i,         \* the dimension (from 1)
  live,      \* how many datatypes created here have not been freed
  refused    \* history: an MPI call failed

input == <<cdesc, oldcount, oldtype>>
walk  == <<cur, owned, count, elems_per_cur, bytes_per_cur, dense, done, i>>
vars  == <<input, pc, walk, live, refused>>

Rank == Len(cdesc.dim)
dim(j) == cdesc.dim[j]

\* The Fortran runtime's test: each stride is what the dimensions below span.
\* The entry points of gen/mpif_f08_cdesc.c call the walker only if it fails.
CFI_is_contiguous(d) ==
  \A j \in 1 .. Len(d.dim) :
    d.dim[j].sm = IF j = 1 THEN d.elem_len
                           ELSE d.dim[j - 1].sm * d.dim[j - 1].extent

Descriptors ==
  [elem_len : ElemLens,
   dim : UNION {[1 .. k -> [extent : Shapes, sm : Strides]] : k \in 1 .. MaxRank}]

Init ==
  /\ cdesc \in {d \in Descriptors : ~CFI_is_contiguous(d)}
  /\ oldcount \in Counts
  /\ \E s \in Sizes, e \in Extents :
       oldtype = [size |-> s, map |-> <<0>>, lb |-> 0, extent |-> e]
  /\ pc = "size"
  /\ cur = oldtype
  /\ owned = FALSE
  /\ count = oldcount
  /\ elems_per_cur = 1
  /\ bytes_per_cur = cdesc.elem_len
  /\ dense = FALSE
  /\ done = FALSE
  /\ i = 1
  /\ live = 0
  /\ refused = FALSE

-----------------------------------------------------------------------------
(* Datatypes (external: MPI-5.0 chapter 5)                                 *)

\* n copies of type t, copy j displaced by j * stride bytes.
Replicate(n, stride, t) ==
  LET len == Len(t.map)
      lbs == {j * stride + t.lb : j \in 0 .. n - 1}
  IN  [size   |-> n * t.size,
       map    |-> [k \in 1 .. n * len |->
                     t.map[((k - 1) % len) + 1] + ((k - 1) \div len) * stride],
       lb     |-> IF n = 0 THEN 0 ELSE Min(lbs),
       extent |-> IF n = 0 THEN 0 ELSE Max(lbs) + t.extent - Min(lbs)]

Type_contiguous(n, t)          == Replicate(n, t.extent, t)
Type_create_hvector(n, sm, t)  == Replicate(n, sm, t)

-----------------------------------------------------------------------------
(* The walk                                                                *)

\* fail: the datatype built so far is freed, if it is ours.
FailLeaks ==        \* mutant: the error is returned without the free
  /\ pc' = "error"
  /\ UNCHANGED <<input, walk, live>>
Fail ==
  /\ pc' = "error"
  /\ live' = IF owned THEN live - 1 ELSE live
  /\ UNCHANGED <<input, walk>>

\* count is a whole number of copies of cur.
Whole == elems_per_cur # 0 /\ count % elems_per_cur = 0

\* MPI_ERR_ARG, for a reason the walk finds itself.
Reject == Fail /\ UNCHANGED refused

Factor == cdesc.elem_len \div oldtype.size

\* An MPI call fails.
MpiFails ==
  /\ pc \in {"size", "base", "seed", "level", "commit"}
  /\ pc = "base" => count % Factor = 0
  /\ pc = "level" => i <= Rank /\ ~done /\ Whole
  /\ Fail
  /\ refused' = TRUE

\* The step's datatype t replaces cur, which is freed if it was created here.
Wrap(t) ==
  /\ cur' = t
  /\ owned' = TRUE
  /\ live' = IF owned THEN live ELSE live + 1

\* MPI_Type_size_c: how many oldtype units make a descriptor element.
Size ==
  /\ pc = "size"
  /\ IF oldtype.size <= 0 \/ cdesc.elem_len % oldtype.size # 0
     THEN Reject
     ELSE /\ pc' = IF Factor > 1 THEN "base" ELSE "seed"
          /\ UNCHANGED <<input, walk, live, refused>>

\* Fold the factor into a contiguous base type.
Base ==
  /\ pc = "base"
  /\ IF count % Factor # 0
     THEN Reject
     ELSE /\ pc' = "seed"
          /\ count' = count \div Factor
          /\ Wrap(Type_contiguous(Factor, oldtype))
          /\ UNCHANGED <<input, elems_per_cur, bytes_per_cur, dense, done, i,
                         refused>>

\* MPI_Type_get_extent_c: seed the invariant from the base type.
Seed ==
  /\ pc = "seed"
  /\ pc' = "level"
  /\ dense' = (cur.lb = 0 /\ cur.extent = bytes_per_cur)
  /\ UNCHANGED <<input, cur, owned, count, elems_per_cur, bytes_per_cur, done, i,
                 live, refused>>

\* Whether dimension j can be a contiguous level.
ContiguousBySpan(j) == dim(j).sm = bytes_per_cur   \* mutant: only the span
Contiguous(j) == dense /\ dim(j).sm = bytes_per_cur

\* Whether part rows are more than dimension j has, so the walk goes on.
GoesOnWhenFull(part, j) == part >= dim(j).extent   \* mutant: >= for >
GoesOn(part, j) == part > dim(j).extent

\* Whether replica placement by extent stays right above the new level.
DenseKept(c) == dense       \* mutant: an hvector is taken to be dense
DenseAfter(c) == dense /\ c

\* The level for dimension i.  The remainder by elems_per_cur is undefined when
\* an inner dimension was empty: the division kills the process, or it yields
\* the count itself, which is not 0.
Level ==
  LET part  == count \div elems_per_cur
      whole == GoesOn(part, i)
      n     == IF whole THEN dim(i).extent ELSE part
  IN
    /\ pc = "level" /\ i <= Rank /\ ~done
    /\ IF ~Whole
       THEN \/ Reject
            \/ /\ elems_per_cur = 0
               /\ pc' = "trap" /\ UNCHANGED <<input, walk, live, refused>>
       ELSE /\ Wrap(IF Contiguous(i) THEN Type_contiguous(n, cur)
                                     ELSE Type_create_hvector(n, dim(i).sm, cur))
            /\ done' = ~whole
            /\ dense' = DenseAfter(Contiguous(i))
            /\ elems_per_cur' = elems_per_cur * dim(i).extent
            /\ bytes_per_cur' = dim(i).sm * dim(i).extent
            /\ i' = i + 1
            /\ UNCHANGED <<input, pc, count, refused>>

\* The dimensions are used up, or the count is.
LoopEnds ==
  /\ pc = "level" /\ (i > Rank \/ done)
  /\ IF done THEN pc' = "commit" /\ UNCHANGED <<input, walk, live, refused>>
             ELSE Reject

\* MPI_Type_commit: the datatype is handed to the caller, who frees it.
Commit ==
  /\ pc = "commit"
  /\ pc' = "success"
  /\ UNCHANGED <<input, walk, live, refused>>

Next ==
  \/ Size \/ Base \/ Seed \/ Level \/ LoopEnds \/ Commit \/ MpiFails

Spec == Init /\ [][Next]_vars

-----------------------------------------------------------------------------
(* Properties                                                              *)

\* The shape of the walk's variables.
TypeOK ==
  /\ pc \in {"size", "base", "seed", "level", "commit", "success", "error", "trap"}
  /\ cur.map \in Seq(Int) /\ cur.lb \in Int /\ cur.extent \in Int
  /\ owned \in BOOLEAN /\ dense \in BOOLEAN /\ done \in BOOLEAN
  /\ count \in Nat /\ elems_per_cur \in Nat /\ bytes_per_cur \in Int
  /\ i \in 1 .. Rank + 1
  /\ live \in Nat

\* The elements of the section d describes: how many there are in dimensions
\* 1 .. j ...
Elements(d) ==
  LET f[j \in 0 .. Len(d.dim)] ==
        IF j = 0 THEN 1 ELSE f[j - 1] * d.dim[j].extent
  IN  f

\* ... and the byte offset of the k-th of them (from 0) in array element order.
\* (Among no elements there is no k-th.)
Offsets(d) ==
  LET f[j \in 0 .. Len(d.dim)] ==
        [k \in Nat |->
           IF j = 0 \/ Elements(d)[j - 1] = 0 THEN 0
           ELSE f[j - 1][k % Elements(d)[j - 1]]
                  + (k \div Elements(d)[j - 1]) * d.dim[j].sm]
  IN  f

ElementsIn(j) == Elements(cdesc)[j]

\* What (oldcount, oldtype) means for the section: oldcount units, Factor of
\* them to an element, in array element order.
Section ==
  [u \in 1 .. oldcount |->
     Offsets(cdesc)[Rank][(u - 1) \div Factor] + ((u - 1) % Factor) * oldtype.extent]

\* The section has as much data as the program says.
Holds == oldcount <= Factor * ElementsIn(Rank)

\* A datatype the walk returns selects exactly the data of the section, in
\* order, whatever the strides: reversed, overlapping a padded dimension, or
\* under a resized oldtype.  More than the section holds is accepted only of an
\* empty section.
SelectsTheSection ==
  pc = "success" =>
    \/ Holds /\ cur.map = Section
    \/ ~Holds /\ ElementsIn(Rank) = 0

\* "dense is the invariant extent(cur) == bytes_per_cur", which is what makes a
\* contiguous level legal.
DenseMeansExtent ==
  dense /\ ~done => cur.lb = 0 /\ cur.extent = bytes_per_cur

\* An input is refused only if it cannot be described: sizes that do not divide,
\* more data than the section holds, or a count that runs past a whole number of
\* slices (the elements of dimensions 1 .. j) and ends inside the next.  A count
\* that ends in the innermost row, or at the end of any slice, is accepted.
RefusedForAReason ==
  pc = "error" /\ ~refused =>
    \/ oldtype.size = 0
    \/ cdesc.elem_len % oldtype.size # 0
    \/ oldcount % Factor # 0
    \/ oldcount \div Factor > ElementsIn(Rank)
    \/ \E j \in 1 .. Rank - 1 :
         /\ 0 < ElementsIn(j) /\ ElementsIn(j) < oldcount \div Factor
         /\ (oldcount \div Factor) % ElementsIn(j) # 0

\* The variables keep their types, and intermediate datatypes are freed on
\* every path: what is left is the result, or nothing.
TypesBalanced ==
  /\ TypeOK
  /\ pc = "success" => live = 1
  /\ pc = "error" => live = 0
  /\ live <= 1

\* "(oldcount, oldtype) describes more data than the descriptor holds" is an
\* error, neither a crash nor a datatype.  (The code does not keep this for a
\* section with an empty dimension.)
ExcessIsAnError == pc \in {"success", "trap"} => Holds
=============================================================================

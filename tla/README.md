# A TLA+ verification of mpif

mpif is a Fortran binding of MPI that sits on any MPI library implementing the
MPI-5.0 standard ABI. The hand-written core in `src/src/` keeps state: registries
that let MPI call Fortran procedures back, a collective self-check, and a routine
that turns Fortran array descriptors into MPI datatypes. The generated part in
`src/gen/` keeps none between calls, but each of its entry points converts
arguments on the way in and results on the way out. This directory models both in
TLA+, checks them with TLC on small instances and proves the safety properties
of every component for all sizes with TLAPS.

Paths below are relative to the repository.

## 1. Inventory

| Component | State | Operations | What makes it correct |
|---|---|---|---|
| Operator pool (`src/mpif_callbacks.c` 364-647) | 128 slots, each an atomic `in_use` and a procedure | reserve, cancel, trampolines; `mpi_op_create_`, `mpi_op_free_` | a reduction runs its own operator's procedure, also after the operator was freed; failed creates cost nothing |
| Attribute registry (118-353) | 256 entries: atomic keyval, copy and delete procedure | register, look up; the `create_keyval` wrappers | a keyval's callbacks are its current owner's, although numbers are reused and entries are never removed |
| Error handler pool (649-917) | 64 slots, four trampolines each | reserve, cancel; create, set, get and free of handlers | an error on an object reaches the handler that was attached, whatever was freed since |
| Callback boxes (919-1128) | heap blocks owned by MPI | grequest and datarep reserve, cancel, trampolines | no use after free, no double free, no leak on a failed call |
| Environment check (`src/mpif_check.c`) | per process: versions, library string, environment; shared: the job | local checks, then dup, two reductions, broadcast, ring, reduce, gather | agreement when it returns, no hang when processes differ |
| Descriptor walker (`src/mpif_cdesc.c`) | the datatype built so far and its invariant `dense` | one level per dimension | the datatype selects exactly the section; intermediate types are freed |
| Descriptor entry points (`gen/mpif_f08_cdesc.c`) | per call: temporary datatypes, a copied string, what is owned | ask about the communicator, convert, test or walk each buffer, call, free | a section reaches MPI as a datatype, nothing insignificant is read or refused, temporaries freed on every path, outputs truthful |
| Generated wrappers (`gen/mpif_functions.c` and the Fortran files) | per call: C copies of handles, strings and request arrays | ask, convert, call, convert back | sentinels and strings arrive as meant, results are written back on the right paths, copies freed |
| Strings (`src/mpif_strings.c`), logicals, attribute values, sizes | none | pure conversions | padding, trimming, truncation, the end of a string array |
| Sentinels (`mpif_constants.c`, `mpif_sentinels.h`) | storage named by the linker | address comparison, both ways | each address becomes the constant it stands for |
| MPI-1 routines (`mpif_removed.c`) | none; uses the error handler pool | conversions | as the routines they forward to |
| ABI toolboxes (`fortran/`), generator (`dev/`), build, CI | outside the library at run time | | |

Interactions. A wrapper called by a program thread reserves a slot, entry or
box, calls MPI with a trampoline, and undoes the reservation if MPI refuses.
From then on MPI calls the trampoline on its own schedule: from another
thread, inside another wrapper, and after the program has given up its handle.
The pools are shared by the `mpi_` and `pmpi_` names, by all kinds of objects
and by the MPI-1 routines. There is no lock anywhere: the pools rest on
compare-and-exchange and release stores, the attribute registry on the
argument that nobody can use a keyval before its create has returned.

An `mpi_f08` call with a choice buffer takes one of two ways: a contiguous buffer
or a sentinel goes on as it is, an array section is walked into a datatype first.
Both the descriptor entry points and the plain wrappers ask MPI the same questions
about a communicator (is this process the root, how long are the arrays of
datatypes) before they touch an argument, since what they may touch depends on
the answers.

What is hard. Thread interleavings between a claim, the store of the procedure
and a cancellation; objects whose life ends long after the program's handle;
numbers and addresses that are handed out again; one step of several failing;
processes that disagree about which collective comes next; arguments that mean
something on one process and nothing on the next, so that a test on one process,
or within one group, never sees the difference; results after a call that half
succeeded. The file
`PROJECT.json` lists each hazard with the line where it bites and the
properties that would catch it.

## 2. Modules

`CallbackDispatch` is the abstract promise all four registries make: while a
handle is bound to a procedure and an interface, a callback made for it calls
that procedure through that interface. It has no slots, tables or threads. Each
registry is shown to implement it under a refinement mapping that reads `bound`
off what the program passed for the objects MPI holds; the call itself goes through
the trampoline the wrapper chose and what that trampoline finds.

| Module | Models | Instances |
|---|---|---|
| `OpPool` | operator pool and its wrappers | `MCOpPool` |
| `AttrRegistry` | attribute registry and its wrappers | `MCAttrRegistry` |
| `ErrhandlerPool` | error handler pool and its wrappers | `MCErrhandlerPool` |
| `CallbackBox` | generalized requests and datareps | `MCCallbackBox` |
| `CheckEnvironment` | `mpif_check_environment` in N processes | `MCCheckEnvironment` |
| `CdescWalker` | `mpif_cdesc_create_datatype` | `MCCdescWalker` |
| `CommLookup` | the questions about a communicator, beside the standard's answers | through the next two |
| `CdescRoutines`, `CdescEntry` | 143 descriptor routines, one row each; what an entry does with a row | `MCCdescEntry` |
| `FortranStrings` | `mpif_strings.c` | through `Wrapper` |
| `Crossings`, `TransferRoutines`, `ObjectRoutines`, `Wrapper` | 311 wrappers that convert an argument, one row each; what each crossing does | `MCWrapper` |
| `OpPoolProofs`, `AttrRegistryProofs`, `ErrhandlerPoolProofs`, `CallbackBoxProofs`, `CheckEnvironmentProofs`, `CdescWalkerProofs`, `CdescEntryProofs`, `WrapperProofs` | the theorems about the module of that name | - |

How state and actions correspond to the code:

* The variables that name C data keep its name (`in_use`, `fn`, `keyval`,
  `copy_fn`, `dense`, `elems_per_cur`). `pc` and a few functions of the thread
  are a wrapper's program counter and locals. Variables with a comment
  "history" exist only to state properties and appear in no guard.
* An atomic operation, a plain store to shared memory and a call to MPI are one
  step each; what a thread does to its own locals between them belongs to the
  step before. So claim, procedure store, MPI's answer and the two stores of a
  cancellation interleave with all other threads.
* `find_attr_entry` is one step although it is a loop: only the thread that is
  creating a keyval makes an entry for it, and an entry then keeps its number,
  so a concurrent registration cannot change what the loop returns.
* The C memory model is not modelled beyond this. Every plain access is shown
  to be exclusive or ordered by the properties that say so (`SlotOwnership`,
  `IssuedMeansRegistered`), which is what makes sequentially consistent
  interleaving adequate.
* MPI itself is external and modelled as generously as the standard allows: any
  call may fail, any unused handle, number or address may be returned,
  callbacks come at any time the standard permits, objects die when their last
  user is gone. `lowest_first`, chosen from `Allocators` in `Init`, is an MPI that
  hands keyval numbers out lowest first, which the comment on the table's growth
  assumes; otherwise any free number may come.
* A trampoline in `CallbackBox` and `AttrRegistry` is the procedure it takes out of
  its box or entry and the declaration it casts that procedure to. The wrappers
  choose it (`c_fns`, `cast`, `mpif_attr_trampoline`): small-count or `_c` conversions
  of a datarep, address-sized or MPI-1 attribute values. MPI keeps what it was given
  (`fns`), and only that decides how a procedure is called; `asked` is history.
  Keyval numbers are distinct across kinds of objects, which the code assumes too:
  the table is searched by the number alone.
* In `CallbackBox` a block is an address with a content. A trampoline that finds
  no box in its block, or a `free` of a block that is not allocated, sets
  `fault`. `abort()` in `mpif_strdup_f2c` ends the behaviour.
* In `CheckEnvironment` the setup of each process is chosen in `Init`: it does
  not change while the check runs. `Complete` says when a collective lets a
  process go; `eager` chooses between an MPI that synchronizes all collectives
  and one that releases a process as early as data flow allows. A value of
  `MPIF_MPI_LIBRARY` is the set of version strings that contain it. One version
  number stands for the seven fields that are treated alike; the ABI's major version,
  which must be equal where the others may be newer, is a field of its own. `ToInt` is the cast
  to `int`, with the width as the constant `INT_HALF`. Fail means `PMPI_Abort`
  inside the MPI window and `abort` outside.
* In `CdescWalker` a datatype is its type map: the displacements of the units it
  selects, in order, with lower bound and extent, as the standard defines them
  for contiguous and hvector types. `Section` is the reference: the offsets of
  the elements in array element order. `count % 0` is undefined behaviour and is
  a choice between a trap and a remainder that is not 0.
* The generated files repeat a small set of statements thousands of times. A
  routine is therefore a row: for `CdescEntry` its buffers (walked, refused when
  not contiguous, or used for their address), the guards each has, the question
  asked about the communicator and the outputs; for `Wrapper` its crossings in
  order. The module that uses the rows gives the statements their meaning, one
  action per phase of a call, and every row is run. Rows follow the source, so a
  guard the generator forgot is missing in the row too: the properties compare
  with lists of the standard (`GatherNames`, `TypeAtRootOnly`, `BufferAtRootOnly`,
  `InRootGroup`, `RootOnlyNames`, `Significant`) that do not come from the rows. The `mpi_`, `pmpi_`, small-count and large-count
  entries of a routine share a row; they were compared and differ in the MPI
  function and the width of integers only.
* In `CdescEntry` the walk is one step that yields a datatype of the entry's own or
  fails; `CdescWalker` says which datatype. In `Wrapper` an address is the name of
  a sentinel's cell, `data` for any other, or `junk` for an argument that need not
  be set; `garbage` is a C local without a value. MPI's answers (`Replies`) include
  failures that leave outputs alone, `MPI_ERR_IN_STATUS` with any subset of
  requests completed, strings cut short without a NUL (`cut`), and lengths left as
  they were passed although the string needs another (`reports`), as `MISSING.md`
  says of `MPI_Session_get_nth_pset` in both implementations. A string longer than
  the array the entry made for it ends the behaviour in `overrun`; `TextDelivered`
  says when that may happen (see the observations in section 4).
* Programs are correct programs: the root arguments of intercommunicators are the
  standard's, and the variable of `MPI_Info_get` has the length `valuelen` that its
  binding declares, which is all the code can go by.

Operators whose comment says "mutant" are plausible bugs of the definition that
follows them. Nothing uses them: replacing the definition by the mutant makes
the property named in `PROJECT.json` fail, which shows that the property
depends on the code.

## 3. Runs

Each module has one type invariant, `TypeOK`. `OpPool` checks it under its own name;
elsewhere it is the first conjunct of the invariant about ownership or accounting
(`EntriesUnique`, `SlotOwnership`, `MemorySafe`, `CollectiveOrder`, `TypesBalanced`,
`CopiesFreed`).

| Run | What it checks and shows |
|---|---|
| `op_safety` | two threads, two slots: a slot of a live operator is its own and unwritten, no slot is lost on a failed create or used twice, a create is refused only when the pool is full, handles are truthful, and the pool implements `CallbackDispatch` |
| `attr_safety` | two threads, two entries, three numbers, both ways of numbering: one entry per number, a returned keyval is registered, a refusal leaves no entry, and the table stays within the number of keyvals live at one time when MPI reuses the lowest number |
| `attr_dispatch` | callbacks follow the current owner of a keyval across reuse of its number, through the trampolines of both attribute interfaces, with attributes that outlive their keyval |
| `errhandler_safety` | ownership and accounting of slots shared by handlers of two kinds, handles that name live handlers, and dispatch of errors on objects whose handler was freed |
| `box_safety` | two threads, two requests and a datarep over two addresses, callbacks that change `extra_state`, every allocation and call failing at will: memory safety and boxes that stay their own request's, no lost block, each callback calls the one of three procedures passed for its object and role, through the small-count or `_c` trampoline it needs |
| `env_safety` | three processes with any mixture of libraries or sizes, two with any mixture of node variables (odd values included), one started by a foreign launcher: same calls in the same order, a pass means agreement, one return speaks for all, no consistent job is refused, and every process returns or dies |
| `env_zero` | finding: a variable that is set is not always checked |
| `cdesc_walk` | sections up to rank 3, signed strides, resized and divided types, every call failing at will: the datatype selects the section, `dense` is truthful, a count is refused only when it does not divide, exceeds the section, or runs past a whole number of slices and ends inside the next, no type is leaked |
| `cdesc_empty` | finding: excess data is not always an error |
| `entry_safety` | every descriptor routine but one, every layout of each buffer, every role and topology, every MPI call failing at will: significant sections are described, what is read is what is supplied, only buffers this process uses are refused (but for one named case), temporaries are freed, outputs are truthful |
| `entry_scatterv` | finding: the one routine left out of `entry_safety` |
| `wrapper_safety` | every wrapper that converts an argument, with every sentinel, string shape, length, argument vector and request array, and every answer of MPI: sentinels, strings and root-only arguments arrive as meant, results, indices and strings return truthfully and, but for one named case, within their arrays; what was copied is freed and nothing else |

Bounds. Two threads and two slots suffice to let one thread be in any step of a
create or cancel while another claims, fails and retries the same slot, and to
exhaust the pool; a third slot or thread adds only symmetric copies, and the
proofs of section 5 hold for any number. `attr_safety` has one number more
than entries, so that the table fills; `attr_dispatch` has one thread and spends
its states on procedures, interfaces and attributes, since the other run shows
that threads cannot disturb each other's entries. `MaxPending`, `MaxAttrs` and
`MaxRefs` bound what would be unbounded counters of the program's own making.
Two addresses are a box for each of two requests, or a box and a name, and force
reuse as soon as one is freed; programs pass one value of `extra_state` and
callbacks may store another. The jobs of
`CheckEnvironment` are five slices of the product of all settings, each with
everything that interacts: three processes, the fewest where a ring, a root and
two others differ, vary in version, library and required library, or in library
and required size; two vary in ABI and version, or in
sizes and node variables, on one node or two; one varies in everything but the
library and the ABI. An `int` is three bits wide there, so that 8 wraps to 0 and 9 to a
plausible count. Strides and shapes of the walker cover an element, a gap, a
reversed dimension, a padded row and an empty one. In the two generated layers
`MaxProcs` lets the local and the remote group, and the in- and outdegree, differ in
both directions and includes no neighbors; `MaxDims` makes a Cartesian degree
differ from its dimension; passed strings (`Strings`) have up to three characters, enough for
leading, inner and trailing blanks; variables for returned strings run from
empty to one longer than MPI's longest (`MaxName`); arrays of up to three requests
(`MaxRequests`) have null, completed and pending ones at once; argument vectors
have up to two words (`MaxWords`) for each of two commands.

Deadlock checking is off where the system really ends: a process that aborts,
a self-check that has returned everywhere, a walk that has produced its result.
An entry point that has returned stutters (`Returned`), so that being stuck
anywhere else is an error.

Symmetry is used for threads, procedures, handles and addresses, which appear
only in equalities, and in runs that check safety only. `env_safety` uses none; the
first process is on a fixed node instead, since nodes are interchangeable.

Fairness. Only `env_safety` assumes any: each process is scheduled, MPI completes
a call that all needed processes have entered, and `PMPI_Abort` reaches every
process, which is what MPI promises. The scans of the pools need no liveness
check: they are loops over a fixed table in which a lost compare-and-exchange
moves on to the next slot, so a thread that is scheduled leaves them.

## 4. Findings

* `env_zero`. `MPIF_NUM_NODES=0` and `MPIF_NODE_SIZE=0`, and values that the cast to
  `int` turns into 0, are treated as unset although the header comment says that
  the variables are "checked when set". In the run's trace one of two processes has
  the variable unset and the other has it set to 0; both return.
* `cdesc_empty`. A count that is not 0 with a section whose inner dimension is
  empty divides by zero at the next dimension instead of returning
  `MPI_ERR_ARG`. An empty outer dimension is not noticed either when the count
  fits the dimensions below it: a datatype is returned for a section that holds
  nothing.
* `entry_scatterv`. `MPI_Scatterv_init` tests and walks its receive buffer on the
  root only, where `MPI_Scatterv` and `MPI_Iscatterv` do so on every process: on the
  others an array section is handed to MPI as if it were contiguous.

Smaller observations that no run asks about. The diagnostic of a full
attribute table says how many keyvals "can exist at a time", but the table counts
distinct numbers ever registered; `TableGrowth` shows that the two agree with an
MPI that reuses the lowest number. When that table is full the keyval stays
created in MPI and its number is in the caller's variable although an error is
returned. And `mpi_register_datarep_` leaks the C copy of the name when the box
cannot be allocated (`lost` in `CallbackBox` records it).

Two observations are named exceptions of properties, so that the runs and proofs show
that there is no other case:

* `MPI_Reduce`, `MPI_Ireduce` and `MPI_Reduce_init` test their send buffer on every
  process. In the root's group of an intercommunicator nothing is sent, but an array
  section there is refused (`UnsentReduction` in `CdescEntry`). The other unused
  buffers of that group, such as the send buffer of a gather, are walked and not
  refused; only the walk's own failure can be noticed.
* `mpi_info_get_nthkey_` and `mpi_file_get_view_` size the C array by the caller's
  CHARACTER length although MPI is told none (`dev/mpiapi.jl` 1908-1909 describes the
  opposite). A string of MPI's that is longer by two than the variable is stored past
  the array (`overrun` in `Wrapper`, excepted by `TextDelivered`).

When MPI returns a cut string without a NUL, what follows it in the array, in bounds
but not written by MPI, reaches the program's variable; `ResultsTruthful` and the
delivery half of `TextDelivered` therefore ask for a NUL. `StringsCross` follows the
strings and argument vectors of a spawn; the names in the array of commands are
copied like any other string and are not compared once more.

## 5. Proofs

The eight `*Proofs` modules state every invariant, action property and refinement
that a passing run checks as a theorem of the component's specification, for every
value of the constants that meets the assumptions below. The runs' small sets and
bounds therefore limit TLC only. Each module has one inductive invariant, `IInv`,
a lemma that `Init` establishes it, one lemma or step per action that it is
preserved, and the theorems that follow from it.

**`OpPoolProofs`**: type correctness, ownership and accounting of slots, fresh
trampolines, justified refusals, truthful returns and the refinement of
`CallbackDispatch`. `SlotOwnership` alone is not inductive: a thread between its
claim and MPI's answer must already be known to own its slot. `Reservations` says
that such a thread has a slot in use that no other thread and no operator has, and
that from the procedure store on the slot holds the thread's procedure;
`Accounted`, that the slots in use are exactly those and the retired ones;
`Scanned`, that the slots a scan has passed were taken when it passed; `Held`, that
an operator a program's variable names exists and is named by that variable alone. The refinement follows from ownership: the
trampoline of an operator reads the slot, and the slot holds what was asked for.

**`ErrhandlerPoolProofs`**: ownership, accounting, live handlers and the refinement.
The argument about slots is that of the operator pool with `KindsMatch` added (an
object names handlers of its own kind). A handler's slot is safe for as long as
some object names it, however, which rests on reference counts:
`NamedHandlersExist` is part of the invariant, and its proof counts the variables
that hold a handle (`Holders`) before and after each call.

**`AttrRegistryProofs`**: one entry per keyval, registration before issue, refusals
that leave nothing, bounded growth and the refinement. Nothing in the registry is
locked, so the invariant says why two registrations never meet: a thread between
MPI's answer and its return is the only one creating its keyval (`KeyvalIsOwn`), no
other thread has the entry it claimed (`EntryIsOwn`), and the copy procedure is
stored before the delete procedure (`CopyIsFirst`). `Unissued` and `Recorded` tie
keyvals in MPI to these threads and to their entries. `TableStaysSmall` has an
invariant of its own: with the lowest number first, the numbers ever used are no
more than the largest number of keyvals held at once, and the entries have
distinct numbers among them.

**`CallbackBoxProofs`**: memory safety, no lost block and the refinement. The
invariant is ownership: each allocated block belongs to exactly one of a wrapper
(`Wrappers`), an object of MPI (`Contents`) or the list of lost names (`Accounted`), no
two owners share one (`Apart`), and the block has the content its owner's next step
expects, so that no step sets `fault`. The refinement adds that MPI's functions are
the wrapper's choice for what was passed, and that this choice is the declaration the
standard gives the procedure.

**`CheckEnvironmentProofs`**: the same calls in the same order, what one return and
what all returns mean, and no false alarm, for any number of processes. The order
does not follow from what a process sees, since processes differ; it follows from
`Script`, the sequence of calls the whole job determines. `Scripted` says that every
process has made a prefix of it; `Passed`, what a process at a given place in the
script knows of all the others; `Quiet`, that nobody fails in a job without a fault.

**`CdescWalkerProofs`**: for every rank, shape, signed stride, element length,
count and extent, the datatype built selects exactly the data of the section in array
element order; `dense` means what its comment says; a count
that ends in the innermost row or with a slice is not refused; types are freed. The inductive invariant says of the dimensions walked so far that the
units of the datatype are those of the section of these dimensions (`Selected`),
and that the elements left are the count divided by theirs (`Sized`, `Counted`). A level is
preserved because division nests (`NestedDivision`): the k-th unit of the next
level is in a copy and at a place of the level below. `Section` is defined by recursive functions
over the rank. Theorems with an operator parameter, the usual way to show that a
recursive definition has its equation, cannot be used; `ProductsExist` and
`OffsetsExist` build the functions instead, by the argument that a set of
naturals has a least element.

**`CdescEntryProofs`**: on every way out of every entry point the datatypes and
the copied string are accounted for, nothing insignificant is read or refused,
significant sections are described, outputs are truthful. `TableOK` compares every
row with the lists of the standard, of which buffers and datatypes a process of
either group uses too (`RootsAgree`); the invariant follows a call through its
phases: what was asked is answered as the standard says (`Answers`), the buffers
tested so far are described or left alone for a reason (`Untested`, `TestsDone`,
`Described`), and every temporary is known (`Balance`). `SectionsAreDescribed` is
stated for sets of routines without `MPI_Scatterv_init`: with it the formula is
false, which is the finding `entry_scatterv`.

**`WrapperProofs`**: sentinels, reads, results, copies, strings, returned texts and
indices, for every row of the two tables, communicators, request arrays, argument
vectors and strings of any size, and every answer of MPI. `TableOK` says
what the 311 rows have in common (at most one way to read and one to return a
string, which arguments belong to the root only); `EveryCrossing` says of each
kind of crossing what it hands to MPI. `IInv` then follows a call through
its phases. Returned strings (`TextInv`), positions (`IndicesInv`) and passed
strings (`StringsInv`) have an invariant each on top of it. Behind them are lemmas
about the conversions themselves: what `strlen` reads stays where MPI wrote
(`ReadIsStored`, `Terminated`), the copy of a Fortran string of any length is the string
without padding (`CopiesAreTrimmed`), a vector of words ends at its first blank
one (`WordsAreCounted`), and the positions of completed requests are a bijection
with the requests (`PositionsFacts`).

One attempt failed for a good reason: two `CASE` expressions of `Wrapper` had arms
that overlapped, which TLC resolves by taking the first and TLA+ leaves open. They
now state the distinction the code makes.

Assumptions, all named in the modules and evaluated by TLC in the runs, and why the
code meets them:

* tables are not empty: `MPIF_OP_SLOTS`, `MPIF_MAX_KEYVALS` and `MPIF_ERRHANDLER_SLOTS` are
  positive literals;
* `NULL`, `OP_NULL` and `Predefined` are not members of the sets of real values: null
  handles, null pointers and the addresses of MPI's own callbacks are none of
  the program's;
* keyvals are finitely many positive numbers (a C `int`, where 0 marks a free entry),
  and threads are finitely many where references are counted;
* a job has between 1 and `INT_MAX` processes, versions are values of `int`, and an
  unset or malformed variable is not a number;
* a descriptor has a positive `elem_len` and extents that are not negative, as the
  Fortran standard says, and counts and sizes of datatypes are not negative;
* routines are rows of the tables, bounds of lengths are natural numbers, and strings
  and words are sequences of characters.

Only model-checked: the liveness property `EveryCallEnds` of `env_safety`, which is
out of the prover's reach, and the violations that the three findings show. Two
choices of `Wrapper` are fixed in the theorems as in the run: a
`MPI_Comm_spawn_multiple` starts two commands, and a variable for a returned
string has any length up to one character more than MPI's longest.

## 6. Not modelled

* About a hundred wrappers of `gen/mpif_functions.c` that hand every argument on or
  convert plain handles only: there is nothing between the call and MPI.
  `MPI_Cart_get`, whose `periods` array is converted with a length of its own, and
  `MPI_F_sync_reg`, which is empty.
* The Fortran files: interfaces, derived types and one-line procedures, checked by
  the compiler.
* The storage of sentinels, which the linker decides and `mpif_check_environment`
  verifies at run time (its verdict is an input of `CheckEnvironment`), and the
  sentinel counter, which is thread-local.
* Attribute value widths, `sizeof`, the MPI-1 datatype and address routines: single
  expressions. Error handler routines of MPI-1 are in `ErrhandlerPool`.
* Overflow of products of extents: the section would not fit an address space.
* The ABI toolboxes in `fortran/`, the generator, build and CI. `PROJECT.json`
  gives the reason for each.

## 7. Plan

Done: every module above, its runs, and a theorem for every safety, action and
refinement property that the passing runs check. What is left, in this order:

1. Any number of commands in `Wrapper` (`Rows`): the lemma about addresses in the
   two-dimensional array then needs the division lemmas of `CdescWalkerProofs`.
2. Facts that are steps of a proof now and deserve a name: that in `CheckEnvironment`
   a process that has returned has made the whole script, and that in `CdescEntry` the
   answers of the communicator lookups are the standard's.
3. The remaining wrappers with a conversion of their own (`MPI_Cart_get`) and the
   attribute value widths, if they are ever more than single expressions.

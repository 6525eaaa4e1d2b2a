------------------------- MODULE MCCheckEnvironment -------------------------
(* Instances of CheckEnvironment for TLC.                                  *)
EXTENDS CheckEnvironment

Vary(fields) ==
  LET default == [skew |-> "none", abi |-> Abi, version |-> Required,
                  library |-> "L1", want_lib |-> Unset, want_size |-> Unset,
                  launched |-> Unset, num_nodes |-> Unset,
                  node_size |-> Unset]
  IN  {s \in Setup : \A f \in DOMAIN default \ fields : s[f] = default[f]}

\* Nodes are interchangeable: the first process is on a fixed one.
FirstNode == CHOOSE n \in Nodes : TRUE
Job(n, fields) == {job \in [0 .. n - 1 -> Vary(fields)] : job[0].node = FirstNode}
OnOneNode(jobs) ==
  {job \in jobs : \A r \in DOMAIN job : job[r].node = FirstNode}

\* Three processes with any mixture of versions and libraries, or of sizes and
\* library, on one node, two with any mixture of ABIs or of node variables, and
\* one that a foreign launcher may have started.
SafetyJobs ==
  OnOneNode(Job(3, {"version", "library", "want_lib"}))
    \union OnOneNode(Job(2, {"abi", "version"}))
    \union OnOneNode(Job(3, {"library", "want_size"}))
    \union Job(2, {"want_size", "num_nodes", "node_size"})
    \union Job(1, {"skew", "version", "want_lib", "want_size", "launched",
                   "num_nodes", "node_size"})

ZeroJobs == Job(2, {"num_nodes", "node_size"})

\* No standard ABI at all, mpif's own and the next.
SomeAbis == {-1, 1, 2}

\* An int holds -4 .. 3 here: 8 wraps to 0, 9 to a plausible count.
OddValues == {Unset, Malformed, -1, 0, 1, 2, 8, 9}
=============================================================================

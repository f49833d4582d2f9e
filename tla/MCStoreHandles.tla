--------------------------- MODULE MCStoreHandles ---------------------------
(* A small instance of StoreHandles for TLC: four processes, and which      *)
(* commands they are.  The set is closed under permutations of them.        *)
EXTENDS StoreHandles, TLC

Of(m, c) == Cardinality({h \in Handles : m[h] = c})

\* Racing creates under a writer and a reader, or under two readers; two writers
\* and a command that reads the file twice.
MCMixes ==
  {m \in [Handles -> {"init", "apply", "check", "query"}] :
     \/ Of(m, "init") = 2 /\ Of(m, "apply") = 1 /\ Of(m, "query") = 1
     \/ Of(m, "init") = 2 /\ Of(m, "check") = 1 /\ Of(m, "query") = 1
     \/ Of(m, "init") = 1 /\ Of(m, "apply") = 2 /\ Of(m, "check") = 1}

Symmetry == Permutations(Handles)
=============================================================================

--------------------------- MODULE MCWalRecovery ---------------------------
EXTENDS WalRecovery

CONSTANTS c1, v1, v2, alice, bob

OneCol == {c1}
TwoValues == {v1, v2}
TwoNames == {alice, bob}

Named(faults, lines) ==
  [calls |-> LoggedCalls \cup {"save"}, faults |-> faults, ids |-> TwoNames, lines |-> lines]

\* Every kind of call, and automatic ids too.
Unlogged ==
  [calls  |-> {"insert", "insert_custom", "insert_batch", "update", "update_values", "delete"},
   faults |-> {"torn", "in_recovery"},
   ids    |-> {0, 1, alice},
   lines  |-> 2]

\* A full disk: appends fail and the process goes on.
FullDisk ==
  [calls  |-> {"insert", "insert_custom", "insert_batch", "update", "delete"},
   faults |-> {"append_fails"},
   ids    |-> {0, alice},
   lines  |-> 2]

AllProfiles == {Named({"in_save", "save_error"}, 3), Unlogged, FullDisk}
TornLines == {Named({"torn"}, 3)}

Symmetry == Permutations(TwoValues)
=============================================================================

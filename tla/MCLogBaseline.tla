--------------------------- MODULE MCLogBaseline ---------------------------
(* Small instances of LogBaseline for TLC. *)
EXTENDS LogBaseline, TLC

CONSTANTS a, b,      \* line contents
          c1, c2,    \* collectors
          k1         \* checker

\* No content ends in white space.
PlainTrim == [c \in Contents |-> c]

\* Content b is content a followed by white space.
PaddedTrim == [c \in Contents |-> a]

\* Contents are only compared for equality, and so are goroutines.
Symmetry == Permutations(Contents) \cup Permutations(Collectors)
=============================================================================

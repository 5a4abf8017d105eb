---------------------------- MODULE MCMemoryStorage ----------------------------
(* Instances of MemoryStorage for TLC. *)
EXTENDS MemoryStorage, TLC

(* Identifiers, names, hosts and paths are only compared. *)
Symmetry ==
  Permutations(ServerIds) \cup Permutations(LogFileIds) \cup Permutations(EntryIds)
    \cup Permutations(ChunkIds) \cup Permutations(CheckIds)
    \cup Permutations(Names) \cup Permutations(Hosts) \cup Permutations(Paths)
=============================================================================

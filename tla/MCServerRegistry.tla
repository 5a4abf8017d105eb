---------------------------- MODULE MCServerRegistry ----------------------------
(* An instance of ServerRegistry for TLC. *)
EXTENDS ServerRegistry

CONSTANTS h1, h2

At(name, host) == [name |-> name, host |-> host]

(* Two servers, the same with their hosts exchanged, one that has the name *)
(* of one and the host of the other, and two entries with one host.        *)
FilesForTLC ==
  {<<At(1, h1), At(2, h2)>>, <<At(1, h2), At(2, h1)>>, <<At(2, h1)>>,
   <<At(1, h1), At(2, h1)>>}
=============================================================================

----------------------------- MODULE MCPqcSign -----------------------------
(* PqcSign on applications of an even and an odd number of units. *)
EXTENDS PqcSign

CONSTANTS shipped, first, second,   \* the header's key in the repository, two pairs
          odd, even,                \* applications
          Unlucky                   \* a 0xE8 where a PQC block would start

MCKeys == {shipped, first, second}

\* The 0xE8 of odd are where no block can start.
MCApps ==
  { [name |-> odd,  len |-> 3, e8 |-> {1, 2}],
    [name |-> even, len |-> 6, e8 |-> IF Unlucky THEN {3} ELSE {}] }

\* Inside an application.
MCInnerE8 == {<<"app", 1122>>}
=============================================================================

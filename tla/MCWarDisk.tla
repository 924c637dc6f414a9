----------------------------- MODULE MCWarDisk -----------------------------
(* Small disks for WarDisk. *)
EXTENDS WarDisk, TLC

CONSTANTS x, y

TwoBlk == {x, y}

Sym == Permutations({x, y})

\* Every name fits its field.
ShortNames == [n \in Names |-> n]

\* Name 2 is 96 bytes long; name 1 is its first 95 bytes.
LongName == [n \in Names |-> IF n = 2 THEN 1 ELSE n]
=============================================================================

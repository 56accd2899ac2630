------------------------------ MODULE MCFlatSet ------------------------------
(***************************************************************************)
(* An instance of FlatSet; the view leaves out what no call reads.         *)
(***************************************************************************)
EXTENDS FlatSet

SomeRanges == {<<2, 4>>, <<1, 2, 3, 6>>, <<2, 3, 5, 6, 7>>}

WithoutAnswer == vec
==============================================================================

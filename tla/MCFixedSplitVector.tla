-------------------------- MODULE MCFixedSplitVector --------------------------
(***************************************************************************)
(* An instance of FixedSplitVector: a key tells its value.                 *)
(***************************************************************************)
EXTENDS FixedSplitVector

TwoEntries == {<<1, "a">>, <<2, "b">>}
==============================================================================

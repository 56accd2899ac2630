----------------------------- MODULE MCCrdtMap -----------------------------
(***************************************************************************)
(* Two replicas, one of which may be a mere reader, and the uses that the  *)
(* properties are about.                                                   *)
(***************************************************************************)
EXTENDS CrdtMap, TLC

CONSTANT k

\* Insertion through operator[], and of sets of one element.
Brackets == {<<>>}
Single == {<<e>> : e \in Elem}

SetCalls == {"map.insert", "map.erase", "map.clear", "set.insert", "set.erase", "set.clear"}

Registers == {"map.insert", "value_mv.set"}

\* Without discipline.
AnyUse ==
  [keys |-> {k}, writers |-> Replica, calls |-> SetCalls,
   inserts |-> Brackets, eager |-> FALSE, fresh |-> FALSE, dots |-> 2, deltas |-> 2]

Kept == [AnyUse EXCEPT !.calls = @ \ {"map.erase", "map.clear"}, !.dots = 3]

KeptRegisters == [AnyUse EXCEPT !.calls = Registers, !.dots = 3]

\* One element after the other, in each other's sets.
Shared ==
  [keys |-> Key, writers |-> Replica, calls |-> {"map.insert", "set.insert", "set.erase"},
   inserts |-> Single, eager |-> TRUE, fresh |-> TRUE, dots |-> 2, deltas |-> 3]

\* One writer, who clears no nested set.
Writer(w) ==
  [keys |-> Key, writers |-> {w}, calls |-> SetCalls \ {"set.clear"},
   inserts |-> Single, eager |-> TRUE, fresh |-> TRUE, dots |-> 4, deltas |-> 6]

AllUses == {AnyUse, Kept, KeptRegisters, Shared} \cup {Writer(w) : w \in Replica}

\* One writer of registers.
Overwriting ==
  {[Writer(w) EXCEPT !.keys = {k}, !.calls = Registers, !.inserts = Brackets] : w \in Replica}

\* Elements and replicas are interchangeable, and so are the uses.
Symmetry == {p @@ q : p \in Permutations(Elem), q \in Permutations(Replica)}
=============================================================================

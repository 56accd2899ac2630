---------------------------- MODULE CrdtValueMv ----------------------------
(***************************************************************************)
(* Replicas of one crdt::value_mv< Value, ..., tag_state, ..., hook_extract>*)
(* (crdt/value_mv.h): a register that is a set of values. set(v) builds    *)
(* one delta that deletes every value present and inserts v. Extraction    *)
(* and delivery are those of CrdtSet; Key is the set of values. Set keeps  *)
(* no discipline of its own: deltas may be buffered and v may be there.    *)
(***************************************************************************)
EXTENDS CrdtSet

VARIABLE log   \* history: log[r] is the sequence of updates replica r issued

mvars == <<state, hook, sent, got, inserted, erased, log>>

\* How many set calls of each replica have reached replica r.
Seen(r) == [s \in Replica |-> Reached(r, s)]

\* Mutant of SetDelta: the values present are not deleted.
SetDeltaNoClear(r, v) == ValueDelta(v, r, NextDot(r))

\* Mutant of SetDelta: only the values this replica wrote are deleted.
SetDeltaOwn(r, v) ==
  LET clear == CountersDelta(state[r], state[r].keys)
      value == ValueDelta(v, r, NextDot(r))
  IN  [value EXCEPT !.counters[r] = clear.counters[r] \cup @]

\* delta_clear and delta_insert into the same delta.
SetDelta(r, v) ==
  LET clear == CountersDelta(state[r], state[r].keys)
      value == ValueDelta(v, r, NextDot(r))
  IN  [value EXCEPT !.counters = [s \in Replica |-> clear.counters[s] \cup @[s]]]

\* value_mv::set.
Set(r, v) ==
  /\ MayUpdate(r)
  /\ Len(inserted[r]) < MaxDot[r]
  /\ Commit(r, SetDelta(r, v))
  /\ inserted' = [inserted EXCEPT ![r] = Append(@, v)]
  /\ Forget(r, state[r].keys)
  /\ log' = [log EXCEPT ![r] =
       Append(@, [adds |-> {v}, removes |-> state[r].keys, past |-> Seen(r)])]

MvInit == Init /\ log = [r \in Replica |-> <<>>]

MvExtract(r) == Extract(r) /\ UNCHANGED log

MvDeliver(r, s) == Deliver(r, s) /\ UNCHANGED log

MvNext ==
  \E r \in Replica :
    \/ \E v \in Key : Set(r, v)
    \/ MvExtract(r)
    \/ \E s \in Replica : MvDeliver(r, s)

MvSpec == MvInit /\ [][MvNext]_mvars

-----------------------------------------------------------------------------

Abstract == INSTANCE ORSet WITH
  seen <- [r \in Replica |-> Seen(r)],
  content <- [r \in Replica |-> state[r].keys]

\* The replicas implement a multi-value register: a replica holds exactly the values
\* whose write has reached it and was overwritten by no write that has.
ImplementsRegister == Abstract!Spec

\* A set call leaves its value alone in the register of its replica, and nothing that is
\* merged later empties a register: get_one() returns Value() only before the first set.
SetReplaces == [][
  \A r \in Replica :
    /\ \A v \in Key : Set(r, v) => state'[r].keys = {v}
    /\ state[r].keys # {} => state'[r].keys # {}]_mvars

\* A register holds at most one value of each replica, so that get_one() can meet
\* several values (and abort) only after concurrent writes.
OneValuePerReplica ==
  \A r, s \in Replica :
    Cardinality({k \in Key : state[r].dots[k][s] # {}}) <= 1
=============================================================================

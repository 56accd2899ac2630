--------------------------- MODULE CrdtSetCausal ---------------------------
(***************************************************************************)
(* The set under a disciplined use, which is nearly that of its tests:     *)
(* every update is extracted and sent before the next one (Eager; the      *)
(* tests also extract two inserts together), insert is called for absent   *)
(* keys (FreshInserts) and a delta is merged after those its replica had   *)
(* merged (Causal). Each extracted delta then carries one update, and the  *)
(* replicas implement the observed-remove set of ORSet.                    *)
(***************************************************************************)
EXTENDS CrdtSet

VARIABLE log   \* history: log[r] is the sequence of updates replica r issued

cvars == <<state, hook, sent, got, inserted, erased, log>>

\* How many updates of each log replica r has applied: its own, and the delivered ones.
Seen(r) == [s \in Replica |-> IF s = r THEN Len(log[r]) ELSE got[r][s]]

Record(r, adds, removes) ==
  log' = [log EXCEPT ![r] =
            Append(@, [adds |-> adds, removes |-> removes, past |-> Seen(r)])]

CausalInit == Init /\ log = [r \in Replica |-> <<>>]

CausalUpdate(r) ==
  \/ \E k \in Key : Insert(r, k) /\ Record(r, {k}, {})
  \/ \E k \in Key : Erase(r, k) /\ Record(r, {}, {k})
  \/ Clear(r) /\ Record(r, {}, state[r].keys)

CausalExtract(r) == Extract(r) /\ UNCHANGED log

CausalDeliver(r, s) == Deliver(r, s) /\ UNCHANGED log

CausalNext ==
  \E r \in Replica :
    \/ CausalUpdate(r)
    \/ CausalExtract(r)
    \/ \E s \in Replica : CausalDeliver(r, s)

CausalSpec == CausalInit /\ [][CausalNext]_cvars

\* The application keeps extracting and delivering; nobody has to keep updating.
Fairness ==
  /\ \A r \in Replica : WF_cvars(CausalExtract(r))
  /\ \A r, s \in Replica : WF_cvars(CausalDeliver(r, s))

FairCausalSpec == CausalSpec /\ Fairness

-----------------------------------------------------------------------------

Abstract == INSTANCE ORSet WITH
  seen <- [r \in Replica |-> Seen(r)],
  content <- [r \in Replica |-> state[r].keys]

\* The replicas implement an observed-remove set: what a reader of a replica sees is a
\* function of the updates that have reached it, whatever the order in which the deltas
\* of different replicas were merged.
ImplementsORSet == Abstract!Spec

\* Replicas that have applied the same updates agree on the metadata of the elements
\* too, so that they keep agreeing: the same dots support each element.
SameSeenSameDots ==
  \A r, s \in Replica :
    Seen(r) = Seen(s) => SameElements(state[r], state[s])

\* Once updates cease all replicas come to hold the same elements, for good.
EventuallyConverged ==
  <>[](\A r, s \in Replica : state[r].keys = state[s].keys)
=============================================================================

------------------------------- MODULE ORSet -------------------------------
(***************************************************************************)
(* What a replicated observed-remove set promises, without any metadata.   *)
(*                                                                         *)
(* Every replica keeps a log of its updates. An update adds some keys and  *)
(* removes some keys; "past" tells how much of every log its replica had   *)
(* applied, so it removes the adds that it observed and no other. The      *)
(* content of a replica is a function of the prefixes of the logs it has   *)
(* applied: the keys with an applied add that no applied update removes.   *)
(*                                                                         *)
(* A set adds one key or removes some; a multi-value register is the set   *)
(* of its values, where a write adds one and removes all that are there.   *)
(***************************************************************************)
EXTENDS Naturals, Sequences

CONSTANTS Replica, Key

VARIABLES
  log,       \* log[r]: the updates replica r issued, in order
  seen,      \* seen[r][s]: how many updates of log[s] replica r has applied
  content    \* content[r]: the keys a reader of replica r sees

vars == <<log, seen, content>>

Update == [adds : SUBSET Key, removes : SUBSET Key, past : [Replica -> Nat]]

\* Some update in the prefixes v removes key k and observed the i-th update of log s.
Removed(l, v, k, s, i) ==
  \E t \in Replica : \E j \in 1 .. v[t] :
    k \in l[t][j].removes /\ i <= l[t][j].past[s]

\* The keys with an add in the prefixes v that no update in them removes.
Value(l, v) ==
  {k \in Key : \E s \in Replica : \E i \in 1 .. v[s] :
     k \in l[s][i].adds /\ ~Removed(l, v, k, s, i)}

Init ==
  /\ log = [r \in Replica |-> <<>>]
  /\ seen = [r \in Replica |-> [s \in Replica |-> 0]]
  /\ content = [r \in Replica |-> {}]

\* Replica r issues an update of keys it can see, and is the first to apply it.
Issue(r, adds, removes) ==
  /\ removes \subseteq content[r]
  /\ log' = [log EXCEPT ![r] =
               Append(@, [adds |-> adds, removes |-> removes, past |-> seen[r]])]
  /\ seen' = [seen EXCEPT ![r][r] = @ + 1]
  /\ content' = [content EXCEPT ![r] = Value(log', seen'[r])]

\* Replica r applies the updates of log s up to the n-th one.
Receive(r, s, n) ==
  /\ seen[r][s] < n
  /\ seen' = [seen EXCEPT ![r][s] = n]
  /\ content' = [content EXCEPT ![r] = Value(log, seen'[r])]
  /\ UNCHANGED log

Next ==
  \E r \in Replica :
    \/ \E adds, removes \in SUBSET Key : Issue(r, adds, removes)
    \/ \E s \in Replica : \E n \in 1 .. Len(log[s]) : Receive(r, s, n)

Spec == Init /\ [][Next]_vars
=============================================================================

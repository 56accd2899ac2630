-------------------------------- MODULE Slots --------------------------------
(***************************************************************************)
(* Memory in which a container keeps its elements, and the ways flat/      *)
(* memory.h moves elements in it.  A memory m is a record: m.slot maps the *)
(* positions of the buffer, from 0, to what is there; m.trivial says that  *)
(* elements are bytes, trivially copyable and destructible; m.fault says   *)
(* that the code has left what C++ defines: a position outside of the      *)
(* buffer, an object constructed over a living one (what that one owns is  *)
(* lost), destroyed twice, or read where there is none.  After a fault the *)
(* memory goes on as the machine does.                                     *)
(***************************************************************************)
EXTENDS Integers, SequencesExt

CONSTANTS
    Raw,        \* no object lives in the slot
    Moved       \* the object in it has been moved from

ASSUME SlotsAssumption == Raw # Moved

Buffer(n) == [a \in 0..n - 1 |-> Raw]

Positions(from, n) == from..from + n - 1

Faulty(m, condition) == [m EXCEPT !.fault = @ \/ condition]

\* for (i = 0; i < n; ++i) m = Step(m, i)
Loop(Step(_, _), m, n) ==
    LET after[i \in 0..n] == IF i = 0 THEN m ELSE Step(after[i - 1], i - 1) IN after[n]

-----------------------------------------------------------------------------
(* One object *)

Put(m, a, v) ==
    IF a \in DOMAIN m.slot THEN [m EXCEPT !.slot[a] = v] ELSE Faulty(m, TRUE)

Living(m, a) == a \in DOMAIN m.slot /\ m.slot[a] # Raw

Read(m, a) == IF Living(m, a) THEN m.slot[a] ELSE Raw

\* construct(&slot[a], v)
Construct(m, a, v) == Put(Faulty(m, ~m.trivial /\ Living(m, a)), a, v)

\* destroy(&slot[a])
DestroyOne(m, a) == IF m.trivial THEN m ELSE Put(Faulty(m, ~Living(m, a)), a, Raw)

\* The moved-from object lives on; for bytes to move is to copy.
MoveOut(m, a) == IF m.trivial \/ ~Living(m, a) THEN m ELSE Put(m, a, Moved)

\* construct(&slot[to], std::move(slot[from]))
ConstructMoved(m, to, from) ==
    MoveOut(Construct(Faulty(m, ~Living(m, from)), to, Read(m, from)), from)

\* slot[to] = v
AssignTo(m, to, v) == Put(Faulty(m, ~Living(m, to)), to, v)

\* slot[to] = std::move(slot[from])
AssignMoved(m, to, from) ==
    MoveOut(AssignTo(Faulty(m, ~Living(m, from)), to, Read(m, from)), from)

\* memmove.  memcpy of overlapping ranges does the same in the C libraries in use.
CopyBytes(m, to, from, n) ==
    [m EXCEPT !.slot = [a \in DOMAIN @ |->
                            IF a \in Positions(to, n) THEN Read(m, a - to + from) ELSE @[a]],
              !.fault = @ \/ \E a \in Positions(to, n) \cup Positions(from, n) : a \notin DOMAIN m.slot]

\* To free the first n slots now loses an object.
Leaks(m, n) == ~m.trivial /\ \E a \in Positions(0, n) : Living(m, a)

-----------------------------------------------------------------------------
(* flat/memory.h *)

Destroy(m, from, n) == Loop(LAMBDA o, i : DestroyOne(o, from + i), m, n)

\* Mutant of MoveUninitialized: the source is not destroyed.
MoveUninitializedOnly(m, to, from, n) ==
    IF m.trivial THEN CopyBytes(m, to, from, n)
    ELSE Loop(LAMBDA o, i : ConstructMoved(o, to + i, from + i), m, n)

MoveUninitialized(m, to, from, n) ==
    IF m.trivial THEN CopyBytes(m, to, from, n)
    ELSE Destroy(Loop(LAMBDA o, i : ConstructMoved(o, to + i, from + i), m, n), from, n)

\* Mutant of MoveConstruct: in descending order, as only a move upwards needs it.
MoveConstructDescending(m, to, from, n) ==
    Loop(LAMBDA o, i : ConstructMoved(DestroyOne(o, to + n - 1 - i), to + n - 1 - i, from + n - 1 - i), m, n)

\* Whichever way the ranges overlap, in ascending order.
MoveConstruct(m, to, from, n) ==
    Loop(LAMBDA o, i : ConstructMoved(DestroyOne(o, to + i), to + i, from + i), m, n)

\* The part of the destination outside of the source is raw, the rest is overwritten, and
\* what remains of the source is destroyed.
MoveDown(m, to, from, n) ==
    LET diff == from - to
    IN  Destroy(MoveConstruct(MoveUninitialized(m, to, from, diff), from, from + diff, n - diff),
                from + n - diff, diff)

MoveUp(m, to, from, n) ==
    LET diff == to - from
    IN  Destroy(MoveConstruct(MoveUninitialized(m, from + n, from + n - diff, diff), to, from, n - diff),
                from, diff)

Move(m, to, from, n) ==
    CASE m.trivial -> CopyBytes(m, to, from, n)
      [] ~m.trivial /\ (to + n <= from \/ from + n <= to) -> MoveUninitialized(m, to, from, n)
      [] ~m.trivial /\ to < from /\ from < to + n -> MoveDown(m, to, from, n)
      [] ~m.trivial /\ to >= from /\ to < from + n -> MoveUp(m, to, from, n)

\* copy_uninitialized; the branch for other than bytes does not compile.
CopyUninitialized(m, to, values) ==
    Loop(LAMBDA o, i : Put(o, to + i, values[i + 1]), m, Len(values))
==============================================================================

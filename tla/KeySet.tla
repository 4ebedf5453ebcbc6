------------------------------ MODULE KeySet ------------------------------
(***************************************************************************)
(* What a RangeList promises (spec section 4.7): an ordered set of keys to *)
(* which half-open intervals [low, high) are added and from which they are *)
(* removed; Search(p) is membership of p.                                  *)
(***************************************************************************)
EXTENDS Naturals

CONSTANT Keys   \* the keys, by their order

VARIABLES
  keys,  \* the keys the set holds
  call   \* the last call: its operation and arguments

Interval(low, high) == {k \in Keys : low <= k /\ k < high}

Call(op, low, high) == [op |-> op, low |-> low, high |-> high]

Init == keys = {} /\ call = Call("new", 0, 0)

Add(low, high) ==
  /\ call' = Call("add", low, high)
  /\ keys' = keys \cup Interval(low, high)

Delete(low, high) ==
  /\ call' = Call("delete", low, high)
  /\ keys' = keys \ Interval(low, high)

Next == \E low, high \in Keys : Add(low, high) \/ Delete(low, high)

Spec == Init /\ [][Next]_<<keys, call>>
=============================================================================

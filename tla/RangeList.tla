----------------------------- MODULE RangeList -----------------------------
(***************************************************************************)
(* utils/RangeList.go: a sorted list of boundaries l1, h1, l2, h2, ... of  *)
(* the ranges [l1, h1), [l2, h2), ...  The keys are strings compared with  *)
(* < and <= only, so they are abstracted to their rank in Keys.  Indices   *)
(* are Go's (from 0, -1 before the first boundary); get translates them.   *)
(***************************************************************************)
EXTENDS Integers, Sequences
LOCAL INSTANCE SequencesExt

CONSTANT Keys   \* the keys, by their order: a finite set of naturals

VARIABLES
  lists,  \* RangeList.lists
  call    \* the last call of AddRange or DeleteRange, with its arguments

\* A Go index panics when it leaves the slice; find reports it as Panic.
Panic == -2

nilRagne(ls) == Len(ls) = 0
get(ls, plc) == ls[plc + 1]

\* Mutant: index 0 is taken for "before the list".
StepThereFromOne(ls, s, plc) == plc > 0 /\ get(ls, plc) = s

stepThere(ls, s, plc) == plc >= 0 /\ get(ls, plc) = s
\* plc % 2 == 0 in Go; for plc = -1 Go gives -1 and TLA+ 1, both odd.
redPlace(plc) == plc % 2 = 0

goodPlace(ls, s, plc) ==
  /\ plc = -1 \/ get(ls, plc) <= s
  /\ plc = Len(ls) - 1 \/ s < get(ls, plc + 1)

\* Mutant: the midpoint rounded down (floor), not toward zero.
MidFloor(start, end) == (start + end) \div 2

\* (start + end) / 2 in Go: integer division truncates toward zero.
Mid(start, end) ==
  IF start + end < 0 THEN -((-(start + end)) \div 2) ELSE (start + end) \div 2

\* find's loop, one call per iteration.  Each iteration shrinks the window
\* [start, end], so fuel (the list's length plus two) never runs out unless
\* the loop is wrong.
RECURSIVE findLoop(_, _, _, _, _)
findLoop(ls, s, start, end, fuel) ==
  LET plc == Mid(start, end) IN
  CASE fuel = 0 \/ plc < -1 \/ plc > Len(ls) - 1 -> Panic
    [] goodPlace(ls, s, plc)                     -> plc
    [] plc = -1                                  -> Panic  \* get(-1)
    [] s < get(ls, plc) -> findLoop(ls, s, start, plc - 1, fuel - 1)
    [] OTHER            -> findLoop(ls, s, plc + 1, end, fuel - 1)

\* find: the index of the last boundary <= s (-1 if none).
find(ls, s) == findLoop(ls, s, -1, Len(ls) - 1, Len(ls) + 2)

Search(ls, p) == redPlace(find(ls, p))

\* lists[:plc] and lists[plc+1:].
leftRange(ls, plc) == IF plc = -1 THEN <<>> ELSE SubSeq(ls, 1, plc)
rightRange(ls, plc) == IF plc = Len(ls) - 1 THEN <<>> ELSE SubSeq(ls, plc + 2, Len(ls))

Call(op, low, high) == [op |-> op, low |-> low, high |-> high]

Init == lists = <<>> /\ call = Call("new", 0, 0)

\* Mutant: both ends at the same place are taken as nothing to add.
CoveredSamePlace(pl, pr) == pr = pl

\* Both ends of the new range lie in one existing range.
covered(pl, pr) == pr = pl /\ redPlace(pl)

\* AddRange: the new range absorbs the ranges it touches, a range ending
\* exactly at rangeLow included.
AddRange(rangeLow, rangeHigh) ==
  LET ls == lists
      pl == find(ls, rangeLow)
      pr == find(ls, rangeHigh)
      left ==
        CASE redPlace(pl)                  -> <<leftRange(ls, pl), get(ls, pl)>>
          [] stepThere(ls, rangeLow, pl)   -> <<leftRange(ls, pl - 1), get(ls, pl - 1)>>
          [] OTHER                         -> <<leftRange(ls, pl + 1), rangeLow>>
      right ==
        CASE redPlace(pr)                  -> <<rightRange(ls, pr + 1), get(ls, pr + 1)>>
          [] stepThere(ls, rangeHigh, pr)  -> <<rightRange(ls, pr), get(ls, pr)>>
          [] OTHER                         -> <<rightRange(ls, pr), rangeHigh>>
  IN
  /\ call' = Call("add", rangeLow, rangeHigh)
  /\ lists' =
       CASE rangeHigh <= rangeLow        -> ls
         [] nilRagne(ls)                 -> <<rangeLow, rangeHigh>>
         [] covered(pl, pr)              -> ls
         [] OTHER -> left[1] \o <<left[2], right[2]>> \o right[1]

\* Mutant: a range ending exactly at rangeHigh keeps one boundary too many.
DeleteRightOffByOne(ls, pr) == rightRange(ls, pr)

\* The boundaries to the right of a deletion that ends inside a range.
deleteRight(ls, pr) == rightRange(ls, pr - 1)

\* DeleteRange: boundaries inside [rangeLow, rangeHigh) go; a range cut
\* in two gets rangeLow and rangeHigh as new boundaries.
DeleteRange(rangeLow, rangeHigh) ==
  LET ls == lists
      pl == find(ls, rangeLow)
      pr == find(ls, rangeHigh)
      left ==
        CASE redPlace(pl) /\ stepThere(ls, rangeLow, pl) -> <<leftRange(ls, pl), <<>>>>
          [] redPlace(pl) -> <<leftRange(ls, pl + 1), <<rangeLow>>>>
          [] OTHER        -> <<leftRange(ls, pl + 1), <<>>>>
      right ==
        CASE redPlace(pr) /\ stepThere(ls, rangeHigh, pr) -> <<deleteRight(ls, pr), <<>>>>
          [] redPlace(pr) -> <<rightRange(ls, pr), <<rangeHigh>>>>
          [] OTHER        -> <<rightRange(ls, pr), <<>>>>
  IN
  /\ call' = Call("delete", rangeLow, rangeHigh)
  /\ lists' =
       CASE rangeHigh <= rangeLow \/ nilRagne(ls) -> ls
         [] pr = pl /\ ~redPlace(pl)              -> ls
         [] OTHER -> left[1] \o left[2] \o right[2] \o right[1]

Next ==
  \E low, high \in Keys : AddRange(low, high) \/ DeleteRange(low, high)

Spec == Init /\ [][Next]_<<lists, call>>

(***************************************************************************)
(* Properties.                                                             *)
(***************************************************************************)
TypeOK ==
  /\ lists \in Seq(Keys) /\ Len(lists) % 2 = 0
  /\ call \in [op : {"new", "add", "delete"}, low : Keys, high : Keys]

\* AddRange and DeleteRange keep the list canonical (spec 4.7): boundaries
\* strictly increasing, so ranges neither overlap nor touch.  Range(),
\* StartKey and EndKey rely on it.
Canonical == IsSorted(lists, <)

\* find's binary search, with Go's truncating midpoint, ends within the
\* slice for every key: Search and the finds of AddRange and DeleteRange
\* never panic on an index.
NoPanic == \A p \in Keys : find(lists, p) # Panic

\* The RangeList implements the key set: after any sequence of AddRange
\* and DeleteRange calls, Search(p) holds exactly for the keys the
\* intervals added and not deleted contain.
Abstract == INSTANCE KeySet WITH keys <- {p \in Keys : Search(lists, p)}, call <- call
RefinesKeySet == Abstract!Spec
=============================================================================

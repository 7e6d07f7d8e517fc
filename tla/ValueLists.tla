----------------------------- MODULE ValueLists -----------------------------
(***************************************************************************)
(* What QueryPairsMut promises: while it is open, every name has a list of *)
(* values, and what it holds is what the query says before it was opened   *)
(* and after it was dropped.                                               *)
(***************************************************************************)
EXTENDS Sequences

CONSTANTS Name, Value

VARIABLES values,    \* [Name -> Seq(Value)]
          open

vvars == <<values, open>>
-----------------------------------------------------------------------------
Init == ~open

Outside == ~open /\ ~open'

Open == ~open /\ open' /\ UNCHANGED values

Close == open /\ ~open' /\ UNCHANGED values

Edit(f) == open /\ open' /\ values' = f

Add == \E n \in Name, v \in Value : Edit([values EXCEPT ![n] = Append(@, v)])

Set == \E n \in Name, v \in Value : Edit([values EXCEPT ![n] = <<v>>])

Delete == \E n \in Name : Edit([values EXCEPT ![n] = <<>>])

DeleteValue == \E n \in Name, v \in Value :
  Edit([values EXCEPT ![n] = SelectSeq(@, LAMBDA w : w # v)])

Clear == Edit([n \in Name |-> <<>>])

(* Sorting moves names, never the values of one name past each other.      *)
Sort == Edit(values)

Next == Outside \/ Open \/ Close \/ Add \/ Set \/ Delete \/ DeleteValue \/ Clear \/ Sort

Spec == Init /\ [][Next]_vvars
=============================================================================

---------------------------- MODULE WikiOrdering ----------------------------
(***************************************************************************)
(* The order in which the children of a folder are shown (wiki/tree).      *)
(* Rows carry a sort_order that creation and PUT set without looking at    *)
(* the siblings, and that a move writes anew for both folders it touches.  *)
(* An item is its rank by name and id, which decides between equal orders. *)
(***************************************************************************)
EXTENDS Integers, FiniteSets, NoValue

CONSTANTS
    Items,    \* nodes, as their rank by name and id
    Folders   \* the folders they can be in

ASSUME OrderingAssumption == Items \subseteq Nat /\ IsFiniteSet(Items)

VARIABLE place   \* per item its folder, None before creation; order; active

Free == [folder |-> None, order |-> 0, active |-> FALSE]
OrderingInit == place = [i \in Items |-> Free]

Children(f) == {i \in Items : place[i].folder = f /\ place[i].active}
Precedes(i, j) ==
    \/ place[i].order < place[j].order
    \/ place[i].order = place[j].order /\ i < j
\* Mutant of Rank: siblings read by name alone.
RankByName(i, row) == Cardinality({j \in row : j < i})
Rank(i, row) == Cardinality({j \in row : Precedes(j, i)})
\* Mutant of Clamp: no lower bound.
ClampNot(index, size) == IF index > size THEN size ELSE index
Clamp(index, size) == IF index < 0 THEN 0 ELSE IF index > size THEN size ELSE index

Create(i, f) ==
    /\ place[i].folder = None
    /\ place' = [place EXCEPT ![i] = [folder |-> f, order |-> 0, active |-> TRUE]]

\* PUT takes any order, and a folder without asking for a place in it.
Put(i, f, order) ==
    /\ place[i].active
    /\ place' = [place EXCEPT ![i].folder = f, ![i].order = order]

\* The item goes to an index among the others; the children of the folder it
\* leaves close up.
Move(i, f, index) ==
    LET others == Children(f) \ {i}
        left == Children(place[i].folder) \ {i}
        at == Clamp(index, Cardinality(others))
        order(j) == IF j = i THEN at
                    ELSE IF j \in others
                         THEN Rank(j, others) + (IF Rank(j, others) >= at THEN 1 ELSE 0)
                    ELSE IF j \in left THEN Rank(j, left)
                    ELSE place[j].order
    IN /\ place[i].active
       /\ place' = [j \in Items |->
            [place[j] EXCEPT !.order = order(j),
                             !.folder = IF j = i THEN f ELSE @]]

\* Deletion and restoration leave the order as it is.
Toggle(i) ==
    /\ place[i].folder # None
    /\ place' = [place EXCEPT ![i].active = ~@]

OrderingNext ==
    \E i \in Items :
      \/ Toggle(i)
      \/ \E f \in Folders :
           \/ Create(i, f)
           \/ \E order \in 0..1 : Put(i, f, order)
           \/ \E index \in -1..Cardinality(Items) : Move(i, f, index)

\* Every item has a place of its shape.
OrderingTypeOK ==
    place \in [Items -> [folder : Folders \cup {None}, order : Nat, active : BOOLEAN]]

\* A request takes one item to another place: two others that are shown in one
\* folder before and after are shown in the same order.
OthersKeepOrder ==
    \E i \in Items : \A j, k \in Items \ {i} :
      /\ place[j].active /\ place[k].active /\ place[j].folder = place[k].folder
      /\ place'[j].active /\ place'[k].active /\ place'[j].folder = place'[k].folder
      /\ Precedes(j, k)
      => Precedes(j, k)'
=============================================================================

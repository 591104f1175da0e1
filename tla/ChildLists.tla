------------------------------ MODULE ChildLists ------------------------------
(***************************************************************************)
(* What the document tree of tinyxml2 promises its users: every node has a *)
(* list of children, a node is in one list at most and once, and a step of *)
(* a call adds, moves or takes out one child, leaving the order of all     *)
(* others.                                                                 *)
(***************************************************************************)
EXTENDS Sequences, Naturals

CONSTANTS Holders, Nodes   \* whatever may have children, and the children

VARIABLE kids

\* A list without n, which is in it once at most.
Others(list, n) ==
  IF \A i \in DOMAIN list : list[i] # n THEN list
  ELSE [i \in 1..(Len(list) - 1) |->
          IF \E j \in 1..i : list[j] = n THEN list[i + 1] ELSE list[i]]

Occurrences(lists, n) == UNION {{<<h, i>> : i \in {j \in DOMAIN lists[h] : lists[h][j] = n}} : h \in Holders}

Init == kids = [h \in Holders |-> <<>>]

Place(n) ==
  /\ \A h \in Holders : Others(kids'[h], n) = Others(kids[h], n)
  /\ \A s, t \in Occurrences(kids', n) : s = t

Next == \E n \in Nodes : Place(n)

Spec == Init /\ [][Next]_kids
===============================================================================

------------------------------- MODULE DomTree -------------------------------
(***************************************************************************)
(* The node structure of tinyxml2: a document and its nodes hold their     *)
(* children in a doubly linked list, the document keeps the nodes that are *)
(* not linked anywhere, and the memory pools count what they handed out.   *)
(* One operator per method, from one structure to the next.                *)
(*                                                                         *)
(* The pools of a document are one, and a freed node may be handed out     *)
(* again at once, by the pool of either document.  doc[n] is the document  *)
(* a live node belongs to, Null for memory that is free.                   *)
(***************************************************************************)
EXTENDS Integers, Sequences, FiniteSets

CONSTANTS Docs, Nodes, Null

ASSUME DomAssumption ==
  Docs \cap Nodes = {} /\ Null \notin Docs \cup Nodes /\ IsFiniteSet(Nodes)

\* Whatever has children: XMLDocument is an XMLNode.
Places == Docs \cup Nodes

EmptyDom ==
  LET nowhere == [x \in Places |-> Null]
  IN [doc |-> [n \in Nodes |-> Null],
      parent |-> nowhere, first |-> nowhere, last |-> nowhere,
      prev |-> nowhere, next |-> nowhere,
      unlinked |-> [d \in Docs |-> <<>>], untracked |-> [d \in Docs |-> 0]]

Alive(D) == {n \in Nodes : D.doc[n] # Null}
NodesOf(D, d) == {n \in Nodes : D.doc[n] = d}

-----------------------------------------------------------------------------
\* Mutant: the document does not note the new node.
CreateForgottenNode(D, d, n) == [D EXCEPT !.doc[n] = d, !.untracked[d] = @ + 1]

\* The pool hands out n, and the document notes that it is not linked yet.
CreateUnlinkedNode(D, d, n) ==
  [D EXCEPT !.doc[n] = d, !.unlinked[d] = Append(@, n), !.untracked[d] = @ + 1]

SetTracked(D, n) == [D EXCEPT !.untracked[D.doc[n]] = @ - 1]

\* DynArray::SwapRemove: the last entry takes the place of the removed one.
SwapRemove(u, i) == [j \in 1..(Len(u) - 1) |-> IF j = i THEN u[Len(u)] ELSE u[j]]

Without(u, n) ==
  LET found == {i \in 1..Len(u) : u[i] = n}
  IN IF found = {} THEN u ELSE SwapRemove(u, CHOOSE i \in found : \A j \in found : i <= j)

\* Takes n off the list of its document; no other lists it.
MarkInUse(D, n) == [D EXCEPT !.unlinked = [d \in Docs |-> Without(D.unlinked[d], n)]]

Free(D, n) == [D EXCEPT !.doc[n] = Null]

-----------------------------------------------------------------------------
\* The siblings of c are linked to each other.
NextPast(D, c) ==
  [x \in Places |-> IF x = c THEN Null ELSE IF x = D.prev[c] THEN D.next[c] ELSE D.next[x]]
PrevPast(D, c) ==
  [x \in Places |-> IF x = c THEN Null ELSE IF x = D.next[c] THEN D.prev[c] ELSE D.prev[x]]

\* Mutants: the first child is not moved on, or the next sibling keeps its
\* link to the node that left.
UnlinkKeepsFirst(D, c) ==
  [D EXCEPT !.last[D.parent[c]] = IF @ = c THEN D.prev[c] ELSE @,
            !.next = NextPast(D, c), !.prev = PrevPast(D, c), !.parent[c] = Null]
UnlinkKeepsPrev(D, c) ==
  LET p == D.parent[c]
  IN [D EXCEPT !.first[p] = IF @ = c THEN D.next[c] ELSE @,
               !.last[p] = IF @ = c THEN D.prev[c] ELSE @,
               !.next = NextPast(D, c), !.prev[c] = Null, !.parent[c] = Null]

\* XMLNode::Unlink of the parent of c.
Unlink(D, c) ==
  LET p == D.parent[c]
  IN [D EXCEPT !.first[p] = IF @ = c THEN D.next[c] ELSE @,
               !.last[p] = IF @ = c THEN D.prev[c] ELSE @,
               !.next = NextPast(D, c), !.prev = PrevPast(D, c), !.parent[c] = Null]

\* Mutant: a node that is moved stays in its list.
PreambleLinked(D, n) == IF D.parent[n] # Null THEN D ELSE SetTracked(MarkInUse(D, n), n)

\* A node that is moved leaves its list, a new one is now in use.
InsertChildPreamble(D, n) ==
  IF D.parent[n] # Null THEN Unlink(D, n) ELSE SetTracked(MarkInUse(D, n), n)

\* n, which is in no list, becomes the last or first child of p, or the next
\* sibling of a, which has one.
LinkLast(D, p, n) ==
  [D EXCEPT
     !.first[p] = IF @ = Null THEN n ELSE @,
     !.last[p] = n,
     !.next = [x \in Places |-> IF x = n THEN Null ELSE IF x = D.last[p] THEN n ELSE D.next[x]],
     !.prev[n] = D.last[p],
     !.parent[n] = p]

LinkFirst(D, p, n) ==
  [D EXCEPT
     !.first[p] = n,
     !.last[p] = IF @ = Null THEN n ELSE @,
     !.prev = [x \in Places |-> IF x = n THEN Null ELSE IF x = D.first[p] THEN n ELSE D.prev[x]],
     !.next[n] = D.first[p],
     !.parent[n] = p]

LinkAfter(D, p, a, n) ==
  [D EXCEPT
     !.next = [x \in Places |-> IF x = n THEN D.next[a] ELSE IF x = a THEN n ELSE D.next[x]],
     !.prev = [x \in Places |-> IF x = n THEN a ELSE IF x = D.next[a] THEN n ELSE D.prev[x]],
     !.parent[n] = p]

InsertEndChild(D, p, n) == LinkLast(InsertChildPreamble(D, n), p, n)
InsertFirstChild(D, p, n) == LinkFirst(InsertChildPreamble(D, n), p, n)

\* InsertAfterChild tests afterThis->_next, lets addThis leave its place, and
\* then writes to afterThis->_next->_prev: through a null pointer when addThis
\* was the only sibling behind.
InsertAfterIsNull(D, a, n) ==
  a # n /\ D.next[a] # Null /\ InsertChildPreamble(D, n).next[a] = Null

\* Mutant: the test for a node inserted after itself is missing.
InsertAfterItself(D, p, a, n) ==
  IF D.next[a] = Null THEN InsertEndChild(D, p, n)
  ELSE LinkAfter(InsertChildPreamble(D, n), p, a, n)

InsertAfterChild(D, p, a, n) ==
  IF a = n THEN D
  ELSE IF D.next[a] = Null THEN InsertEndChild(D, p, n)
  ELSE LinkAfter(InsertChildPreamble(D, n), p, a, n)

-----------------------------------------------------------------------------
\* XMLNode::DeleteNode up to the destructor, and DeleteChild with it: the
\* node is out of its list and of the unlinked nodes, its subtree still hangs
\* on it.
LeaveTree(D, n) == MarkInUse(IF D.parent[n] # Null THEN Unlink(D, n) ELSE D, n)

\* Mutant: the method of XMLNode in place of that of XMLDocument.
DropUntracked(D, n) == LeaveTree(D, n)

\* XMLDocument::DeleteNode: a node that never was in the tree is tracked now.
DropNode(D, n) ==
  LeaveTree(IF D.parent[n] # Null THEN D ELSE SetTracked(D, n), n)

-----------------------------------------------------------------------------
\* The children of p in the order of FirstChild and NextSibling.  A list never
\* is longer than all nodes.
Kids(D) ==
  LET from[k \in 0..Cardinality(Nodes)] ==
        [x \in Places \cup {Null} |->
           IF x = Null \/ k = 0 THEN <<>> ELSE <<x>> \o from[k - 1][D.next[x]]]
  IN [p \in Places |-> from[Cardinality(Nodes)][D.first[p]]]

\* n is neither p nor above it.
NotAbove(D, n, p) ==
  \E line \in SUBSET Places :
    /\ p \in line /\ n \notin line
    /\ \A x \in line : D.parent[x] = Null \/ D.parent[x] \in line
===============================================================================

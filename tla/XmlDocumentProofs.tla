-------------------------- MODULE XmlDocumentProofs --------------------------
(***************************************************************************)
(* Proofs about the document tree, for every number of documents and nodes *)
(* and every depth.                                                        *)
(***************************************************************************)
EXTENDS XmlDocument, FiniteSetTheorems, SequenceTheorems, WellFoundedInduction, TLAPS

PointerType == [Places -> Places \cup {Null}]

DomType ==
  [doc : [Nodes -> Docs \cup {Null}],
   parent : PointerType, first : PointerType, last : PointerType,
   prev : PointerType, next : PointerType,
   unlinked : [Docs -> Seq(Nodes)], untracked : [Docs -> Int]]

\* No set of nodes in which everybody has the sibling before it, or the
\* parent, is closed: there are no rings.
NoRing(link) == \A S \in SUBSET Nodes : S # {} => \E x \in S : link[x] \notin S

Tree(D) ==
  /\ D \in DomType
  /\ Links(D)
  /\ OfOneDocument(D)
  /\ NoRing(D.prev)
  /\ NoRing(D.parent)

In(u, n) == \E i \in DOMAIN u : u[i] = n
Distinct(u) == \A i, j \in DOMAIN u : u[i] = u[j] => i = j

\* The list of unlinked nodes of D, when gone is the set of dying nodes.
Listed(D, gone) ==
  \A d \in Docs :
    /\ \A n \in Nodes : In(D.unlinked[d], n) <=> D.doc[n] = d /\ D.parent[n] = Null /\ n \notin gone
    /\ Distinct(D.unlinked[d])
    /\ D.untracked[d] = Len(D.unlinked[d])

Sound(D, gone) ==
  /\ Tree(D)
  /\ Listed(D, gone)
  /\ \A d \in Docs : D.parent[d] = Null

Gone == {dying[i] : i \in DOMAIN dying}

DyingOK ==
  /\ dying \in Seq(Nodes)
  /\ \A i \in DOMAIN dying : dom.doc[dying[i]] # Null /\ dom.parent[dying[i]] = Null
  /\ Distinct(dying)

CallOK ==
  /\ pc \in Calls
  /\ then \in {"idle", "clone"} \cup Loads
  /\ target \in Places \cup {Null}
  /\ pc = "empty" => target \in Places
  /\ pc \in Loads \cup {"clear", "discard", "clone"} => target \in Docs

\* The nodes of d that hang nowhere and are not being destroyed: among them
\* what a parse or a copy is putting together.
LooseOf(D, gone, d) == {n \in Nodes : D.doc[n] = d /\ D.parent[n] = Null /\ n \notin gone}
Loose(n) == n \in LooseOf(dom, Gone, target)

OpenOK ==
  /\ open \in Seq(Places)
  /\ pc \in Loads =>
       /\ Len(open) > 0 /\ open[1] = target
       /\ \A i \in DOMAIN open : i > 1 => Loose(open[i])
       /\ Distinct(open)
       /\ \A n \in Nodes : In(dom.unlinked[target], n) => In(open, n)
  /\ pc = "discard" => dom.unlinked[target] = <<>>

CopyingOK ==
  /\ copying \in Seq([from : Places, to : Places, at : Places \cup {Null}])
  /\ pc = "clear" /\ then = "clone" => Len(copying) = 1 /\ copying[1].to = target
  /\ pc = "clone" =>
       /\ Len(copying) > 0 /\ dying = <<>>
       /\ copying[1].to = target \/ Loose(copying[1].to)
       /\ \A i \in DOMAIN copying : i > 1 => Loose(copying[i].to)
       /\ \A i, j \in DOMAIN copying : copying[i].to = copying[j].to => i = j
       /\ \A i \in DOMAIN copying : i < Len(copying) => copying[i].at # Null

IInv ==
  /\ Sound(dom, Gone)
  /\ DyingOK
  /\ CallOK
  /\ OpenOK
  /\ CopyingOK
-----------------------------------------------------------------------------
\* What each method changes.
Unlinked(D, E, c) ==
  /\ E \in DomType
  /\ E.doc = D.doc /\ E.unlinked = D.unlinked /\ E.untracked = D.untracked
  /\ E.parent = [D.parent EXCEPT ![c] = Null]
  /\ E.first = [D.first EXCEPT ![D.parent[c]] = IF @ = c THEN D.next[c] ELSE @]
  /\ E.last = [D.last EXCEPT ![D.parent[c]] = IF @ = c THEN D.prev[c] ELSE @]
  /\ E.next = NextPast(D, c) /\ E.prev = PrevPast(D, c)

\* Unlink changes the links of the node, its parent and its neighbours.
LEMMA UnlinkType ==
  ASSUME NEW D \in DomType, NEW c \in Nodes, D.parent[c] # Null
  PROVE  Unlinked(D, Unlink(D, c), c)
<1>1. NextPast(D, c) \in PointerType /\ PrevPast(D, c) \in PointerType
  BY DEF NextPast, PrevPast, DomType, PointerType, Places
<1>2. D.parent[c] \in Places
  BY DEF DomType, PointerType, Places
<1> QED
  BY <1>1, <1>2 DEF Unlinked, Unlink, DomType, PointerType, Places

\* Unlink keeps the links in agreement.
LEMMA UnlinkLinks ==
  ASSUME NEW D \in DomType, NEW c \in Nodes, D.parent[c] # Null, Links(D)
  PROVE  Links(Unlink(D, c))
<1> DEFINE E == Unlink(D, c)
<1> HIDE DEF E
<1>1. Unlinked(D, E, c)
  BY UnlinkType DEF E
<1>2. D.parent[c] \in Places /\ c \in Places /\ Null \notin Places /\ Null \notin Nodes
  BY DomAssumption DEF DomType, PointerType, Places
<1>3. ASSUME NEW q \in Places PROVE (E.first[q] = Null) = (E.last[q] = Null)
  BY <1>1, <1>2, <1>3 DEF Unlinked, Links, DomType, PointerType, NextPast, PrevPast
<1>4. ASSUME NEW q \in Places, E.first[q] # Null
      PROVE /\ E.first[q] \in Nodes /\ E.parent[E.first[q]] = q /\ E.prev[E.first[q]] = Null
            /\ E.last[q] \in Nodes /\ E.parent[E.last[q]] = q /\ E.next[E.last[q]] = Null
  BY <1>1, <1>2, <1>4 DEF Unlinked, Links, DomType, PointerType, NextPast, PrevPast, Places
<1>5. ASSUME NEW x \in Places, E.next[x] # Null
      PROVE E.next[x] \in Nodes /\ E.prev[E.next[x]] = x /\ E.parent[E.next[x]] = E.parent[x]
  BY <1>1, <1>2, <1>5 DEF Unlinked, Links, DomType, PointerType, NextPast, PrevPast, Places
<1>6. ASSUME NEW x \in Places, E.prev[x] # Null
      PROVE E.prev[x] \in Nodes /\ E.next[E.prev[x]] = x /\ E.parent[E.prev[x]] = E.parent[x]
  BY <1>1, <1>2, <1>6 DEF Unlinked, Links, DomType, PointerType, NextPast, PrevPast, Places
<1>7. ASSUME NEW n \in Nodes, E.parent[n] # Null
      PROVE /\ E.prev[n] = Null => E.first[E.parent[n]] = n
            /\ E.next[n] = Null => E.last[E.parent[n]] = n
  BY <1>1, <1>2, <1>7 DEF Unlinked, Links, DomType, PointerType, NextPast, PrevPast, Places
<1>8. ASSUME NEW x \in Places, E.parent[x] = Null PROVE E.prev[x] = Null /\ E.next[x] = Null
  BY <1>1, <1>2, <1>8 DEF Unlinked, Links, DomType, PointerType, NextPast, PrevPast, Places
<1> QED
  BY <1>3, <1>4, <1>5, <1>6, <1>7, <1>8 DEF Links, E

\* Unlink keeps the structure a forest.
LEMMA UnlinkTree ==
  ASSUME NEW D, NEW c \in Nodes, D.parent[c] # Null, Tree(D)
  PROVE  Tree(Unlink(D, c))
<1> DEFINE E == Unlink(D, c)
<1> HIDE DEF E
<1>0. D \in DomType /\ Links(D) /\ OfOneDocument(D) /\ NoRing(D.prev) /\ NoRing(D.parent)
  BY DEF Tree
<1>1. Unlinked(D, E, c)
  BY <1>0, UnlinkType DEF E
<1>2. Links(E)
  BY <1>0, UnlinkLinks DEF E
<1>3. c \in Places /\ D.parent[c] \in Places /\ Null \notin Places /\ Null \notin Nodes /\ Nodes \subseteq Places
  BY <1>0, DomAssumption DEF DomType, PointerType, Places
<1>4. OfOneDocument(E)
  <2> SUFFICES ASSUME NEW n \in Nodes
               PROVE /\ E.parent[n] # Null =>
                          /\ E.doc[n] # Null
                          /\ E.parent[n] = E.doc[n] \/ E.parent[n] \in NodesOf(E, E.doc[n])
                     /\ E.doc[n] = Null => E.parent[n] = Null /\ E.first[n] = Null
    BY DEF OfOneDocument
  <2>1. NodesOf(E, E.doc[n]) = NodesOf(D, D.doc[n])
    BY <1>1 DEF Unlinked, NodesOf
  <2>2. D.first[n] = Null => E.first[n] = Null
    BY <1>0, <1>1, <1>3 DEF Unlinked, DomType, PointerType, Places
  <2>3. E.parent[n] = Null \/ E.parent[n] = D.parent[n]
    BY <1>0, <1>1, <1>3 DEF Unlinked, DomType, PointerType
  <2> QED
    BY <1>0, <1>1, <1>3, <2>1, <2>2, <2>3 DEF Unlinked, OfOneDocument, DomType, PointerType
<1>5. NoRing(E.parent)
  <2>1. \A x \in Places : E.parent[x] = IF x = c THEN Null ELSE D.parent[x]
    BY <1>0, <1>1, <1>3 DEF Unlinked, DomType, PointerType
  <2> QED
    BY <1>0, <1>3, <2>1 DEF NoRing
<1>6. NoRing(E.prev)
  <2> SUFFICES ASSUME NEW S \in SUBSET Nodes, S # {}, \A x \in S : E.prev[x] \in S
               PROVE  FALSE
    BY DEF NoRing
  <2>1. \A x \in Places : E.prev[x] = IF x = c THEN Null
                                      ELSE IF x = D.next[c] THEN D.prev[c] ELSE D.prev[x]
    BY <1>1 DEF Unlinked, PrevPast
  <2>2. c \notin S
    BY <2>1, <1>3
  <2>3. D.next[c] # Null => D.prev[D.next[c]] = c
    BY <1>0, <1>3 DEF Links
  <2>4. CASE D.next[c] \in S
    <3>1. S \cup {c} \in SUBSET Nodes /\ S \cup {c} # {}
      OBVIOUS
    <3>2. \A x \in S \cup {c} : D.prev[x] \in S \cup {c}
      BY <2>1, <2>2, <2>3, <2>4, <1>3
    <3> QED
      BY <3>1, <3>2, <1>0 DEF NoRing
  <2>5. CASE D.next[c] \notin S
    BY <2>1, <2>2, <2>5, <1>0, <1>3 DEF NoRing
  <2> QED
    BY <2>4, <2>5
<1> QED
  BY <1>1, <1>2, <1>4, <1>5, <1>6 DEF Unlinked, Tree, E

\* Hanging n, with whatever hangs on it, below a place that is not below n.
LEMMA HangNoRing ==
  ASSUME NEW D \in DomType, NEW p \in Places, NEW n \in Nodes, NoRing(D.parent), NotAbove(D, n, p)
  PROVE  NoRing([D.parent EXCEPT ![n] = p])
<1> DEFINE up == [D.parent EXCEPT ![n] = p]
<1> SUFFICES ASSUME NEW S \in SUBSET Nodes, S # {}, \A x \in S : up[x] \in S
             PROVE  FALSE
  BY DEF NoRing
<1>1. \A x \in Places : up[x] = IF x = n THEN p ELSE D.parent[x]
  BY DEF DomType, PointerType, Places
<1>2. Nodes \subseteq Places /\ Null \notin Nodes
  BY DomAssumption DEF Places
<1> HIDE DEF up
<1>3. CASE n \in S
  <2>1. p \in S
    BY <1>1, <1>2, <1>3
  <2>2. PICK line \in SUBSET Places :
          /\ p \in line /\ n \notin line
          /\ \A x \in line : D.parent[x] = Null \/ D.parent[x] \in line
    BY DEF NotAbove
  <2>3. S \cap line \in SUBSET Nodes /\ S \cap line # {}
    BY <2>1, <2>2
  <2>4. \A x \in S \cap line : D.parent[x] \in S \cap line
    BY <1>1, <1>2, <2>2
  <2> QED
    BY <2>3, <2>4 DEF NoRing
<1>4. CASE n \notin S
  BY <1>1, <1>2, <1>4 DEF NoRing
<1> QED
  BY <1>3, <1>4

\* A node hung in its own document leaves every node in one document.
LEMMA HangOneDocument ==
  ASSUME NEW D \in DomType, NEW E \in DomType, NEW p \in Places, NEW n \in Nodes, OfOneDocument(D),
         D.doc[n] # Null, p = D.doc[n] \/ p \in NodesOf(D, D.doc[n]),
         E.doc = D.doc, E.parent = [D.parent EXCEPT ![n] = p],
         \A x \in Places : x # p => E.first[x] = D.first[x]
  PROVE  OfOneDocument(E)
<1>1. Nodes \subseteq Places /\ Null \notin Nodes /\ Null \notin Docs /\ Docs \cap Nodes = {}
  BY DomAssumption DEF Places
<1>2. \A x \in Places : E.parent[x] = IF x = n THEN p ELSE D.parent[x]
  BY DEF DomType, PointerType, Places
<1> SUFFICES ASSUME NEW m \in Nodes
             PROVE /\ E.parent[m] # Null =>
                        /\ E.doc[m] # Null
                        /\ E.parent[m] = E.doc[m] \/ E.parent[m] \in NodesOf(E, E.doc[m])
                   /\ E.doc[m] = Null => E.parent[m] = Null /\ E.first[m] = Null
  BY DEF OfOneDocument
<1>3. NodesOf(E, E.doc[m]) = NodesOf(D, D.doc[m])
  BY DEF NodesOf
<1>4. D.doc[m] = Null => m # p /\ m # n
  <2>1. D.doc[n] \in Docs
    BY DEF DomType
  <2> QED
    BY <1>1, <2>1 DEF NodesOf
<1> QED
  BY <1>1, <1>2, <1>3, <1>4 DEF OfOneDocument

\* What the insertions have in common.
MayHang(D, p, n) ==
  /\ Tree(D)
  /\ p \in Places /\ n \in Nodes /\ n # p
  /\ D.doc[n] # Null
  /\ p = D.doc[n] \/ p \in NodesOf(D, D.doc[n])
  /\ D.parent[n] = Null
  /\ NotAbove(D, n, p)

\* The tree with n hung below p, all else being as before.
Hung(D, E, p, n) ==
  /\ Tree(E)
  /\ E.doc = D.doc /\ E.unlinked = D.unlinked /\ E.untracked = D.untracked
  /\ E.parent = [D.parent EXCEPT ![n] = p]

\* A node without a parent has no neighbours and is nobody's.
LEMMA LooseLinks ==
  ASSUME NEW D \in DomType, NEW n \in Nodes, Links(D), D.parent[n] = Null
  PROVE  /\ D.prev[n] = Null /\ D.next[n] = Null
         /\ \A x \in Places : D.next[x] # n /\ D.prev[x] # n /\ D.first[x] # n /\ D.last[x] # n
<1>1. n \in Places /\ Null \notin Places
  BY DomAssumption DEF Places
<1>2. D.prev[n] = Null /\ D.next[n] = Null
  BY <1>1 DEF Links
<1>3. ASSUME NEW x \in Places PROVE D.next[x] # n /\ D.prev[x] # n
  BY <1>1, <1>2, DomAssumption DEF Links, Places
<1>4. ASSUME NEW x \in Places PROVE D.first[x] # n /\ D.last[x] # n
  BY <1>1, DomAssumption DEF Links, Places
<1> QED
  BY <1>2, <1>3, <1>4

LastLinked(D, E, p, n) ==
  /\ E \in DomType
  /\ E.doc = D.doc /\ E.unlinked = D.unlinked /\ E.untracked = D.untracked
  /\ E.parent = [D.parent EXCEPT ![n] = p]
  /\ E.first = [D.first EXCEPT ![p] = IF @ = Null THEN n ELSE @]
  /\ E.last = [D.last EXCEPT ![p] = n]
  /\ E.next = [x \in Places |-> IF x = n THEN Null ELSE IF x = D.last[p] THEN n ELSE D.next[x]]
  /\ E.prev = [D.prev EXCEPT ![n] = D.last[p]]

\* What hanging a node last changes.
LEMMA LinkLastType ==
  ASSUME NEW D \in DomType, NEW p \in Places, NEW n \in Nodes
  PROVE  LastLinked(D, LinkLast(D, p, n), p, n)
BY DEF LastLinked, LinkLast, DomType, PointerType, Places

\* Hanging it last keeps the links in agreement.
LEMMA LinkLastLinks ==
  ASSUME NEW D \in DomType, NEW p \in Places, NEW n \in Nodes, n # p, D.parent[n] = Null, Links(D)
  PROVE  Links(LinkLast(D, p, n))
<1> DEFINE E == LinkLast(D, p, n)
<1> HIDE DEF E
<1>1. LastLinked(D, E, p, n)
  BY LinkLastType DEF E
<1>2. n \in Places /\ Null \notin Places /\ Null \notin Nodes
  BY DomAssumption DEF Places
<1>3. /\ D.prev[n] = Null /\ D.next[n] = Null
      /\ \A x \in Places : D.next[x] # n /\ D.prev[x] # n /\ D.first[x] # n /\ D.last[x] # n
  BY LooseLinks
<1>4. ASSUME NEW q \in Places PROVE (E.first[q] = Null) = (E.last[q] = Null)
  BY <1>1, <1>2, <1>3, <1>4 DEF LastLinked, Links, DomType, PointerType
<1>5. ASSUME NEW q \in Places, E.first[q] # Null
      PROVE /\ E.first[q] \in Nodes /\ E.parent[E.first[q]] = q /\ E.prev[E.first[q]] = Null
            /\ E.last[q] \in Nodes /\ E.parent[E.last[q]] = q /\ E.next[E.last[q]] = Null
  BY <1>1, <1>2, <1>3, <1>5 DEF LastLinked, Links, DomType, PointerType, Places
<1>6. ASSUME NEW x \in Places, E.next[x] # Null
      PROVE E.next[x] \in Nodes /\ E.prev[E.next[x]] = x /\ E.parent[E.next[x]] = E.parent[x]
  BY <1>1, <1>2, <1>3, <1>6 DEF LastLinked, Links, DomType, PointerType, Places
<1>7. ASSUME NEW x \in Places, E.prev[x] # Null
      PROVE E.prev[x] \in Nodes /\ E.next[E.prev[x]] = x /\ E.parent[E.prev[x]] = E.parent[x]
  BY <1>1, <1>2, <1>3, <1>7 DEF LastLinked, Links, DomType, PointerType, Places
<1>8. ASSUME NEW m \in Nodes, E.parent[m] # Null
      PROVE /\ E.prev[m] = Null => E.first[E.parent[m]] = m
            /\ E.next[m] = Null => E.last[E.parent[m]] = m
  BY <1>1, <1>2, <1>3, <1>8 DEF LastLinked, Links, DomType, PointerType, Places
<1>9. ASSUME NEW x \in Places, E.parent[x] = Null PROVE E.prev[x] = Null /\ E.next[x] = Null
  BY <1>1, <1>2, <1>3, <1>9 DEF LastLinked, Links, DomType, PointerType, Places
<1> QED
  BY <1>4, <1>5, <1>6, <1>7, <1>8, <1>9 DEF Links, E

\* Hanging it last makes it a child of the place and moves nothing else.
LEMMA LinkLastHung ==
  ASSUME NEW D, NEW p, NEW n, MayHang(D, p, n)
  PROVE  Hung(D, LinkLast(D, p, n), p, n)
<1> DEFINE E == LinkLast(D, p, n)
<1> HIDE DEF E
<1>0. /\ D \in DomType /\ Links(D) /\ OfOneDocument(D) /\ NoRing(D.prev) /\ NoRing(D.parent)
      /\ p \in Places /\ n \in Nodes /\ n # p /\ D.parent[n] = Null
  BY DEF MayHang, Tree
<1>1. LastLinked(D, E, p, n)
  BY <1>0, LinkLastType DEF E
<1>2. Links(E)
  BY <1>0, LinkLastLinks DEF E
<1>3. Nodes \subseteq Places /\ Null \notin Nodes
  BY DomAssumption DEF Places
<1>4. \A x \in Places : D.prev[x] # n /\ D.last[x] # n
  BY <1>0, LooseLinks
<1>5. OfOneDocument(E)
  <2>1. \A x \in Places : x # p => E.first[x] = D.first[x]
    BY <1>0, <1>1 DEF LastLinked, DomType, PointerType
  <2>2. /\ D.doc[n] # Null /\ (p = D.doc[n] \/ p \in NodesOf(D, D.doc[n]))
        /\ E \in DomType /\ E.doc = D.doc /\ E.parent = [D.parent EXCEPT ![n] = p]
    BY <1>1 DEF MayHang, LastLinked
  <2> QED
    BY <1>0, <2>1, <2>2, HangOneDocument
<1>6. NoRing(E.parent)
  BY <1>0, <1>1, HangNoRing DEF MayHang, LastLinked
<1>7. NoRing(E.prev)
  <2> SUFFICES ASSUME NEW S \in SUBSET Nodes, S # {}, \A x \in S : E.prev[x] \in S
               PROVE  FALSE
    BY DEF NoRing
  <2>1. \A x \in Places : E.prev[x] = IF x = n THEN D.last[p] ELSE D.prev[x]
    BY <1>0, <1>1 DEF LastLinked, DomType, PointerType
  <2>2. \A x \in S \ {n} : D.prev[x] \in S \ {n}
    BY <1>3, <1>4, <2>1
  <2>3. S \ {n} \in SUBSET Nodes /\ S \ {n} # {}
    BY <1>0, <1>3, <1>4, <2>1
  <2> QED
    BY <1>0, <2>2, <2>3 DEF NoRing
<1> QED
  BY <1>1, <1>2, <1>5, <1>6, <1>7 DEF Hung, Tree, LastLinked, E

FirstLinked(D, E, p, n) ==
  /\ E \in DomType
  /\ E.doc = D.doc /\ E.unlinked = D.unlinked /\ E.untracked = D.untracked
  /\ E.parent = [D.parent EXCEPT ![n] = p]
  /\ E.first = [D.first EXCEPT ![p] = n]
  /\ E.last = [D.last EXCEPT ![p] = IF @ = Null THEN n ELSE @]
  /\ E.next = [D.next EXCEPT ![n] = D.first[p]]
  /\ E.prev = [x \in Places |-> IF x = n THEN Null ELSE IF x = D.first[p] THEN n ELSE D.prev[x]]

\* What hanging a node first changes.
LEMMA LinkFirstType ==
  ASSUME NEW D \in DomType, NEW p \in Places, NEW n \in Nodes
  PROVE  FirstLinked(D, LinkFirst(D, p, n), p, n)
BY DEF FirstLinked, LinkFirst, DomType, PointerType, Places

\* Hanging it first keeps the links in agreement.
LEMMA LinkFirstLinks ==
  ASSUME NEW D \in DomType, NEW p \in Places, NEW n \in Nodes, n # p, D.parent[n] = Null, Links(D)
  PROVE  Links(LinkFirst(D, p, n))
<1> DEFINE E == LinkFirst(D, p, n)
<1> HIDE DEF E
<1>1. FirstLinked(D, E, p, n)
  BY LinkFirstType DEF E
<1>2. n \in Places /\ Null \notin Places /\ Null \notin Nodes
  BY DomAssumption DEF Places
<1>3. /\ D.prev[n] = Null /\ D.next[n] = Null
      /\ \A x \in Places : D.next[x] # n /\ D.prev[x] # n /\ D.first[x] # n /\ D.last[x] # n
  BY LooseLinks
<1>4. ASSUME NEW q \in Places PROVE (E.first[q] = Null) = (E.last[q] = Null)
  BY <1>1, <1>2, <1>3, <1>4 DEF FirstLinked, Links, DomType, PointerType
<1>5. ASSUME NEW q \in Places, E.first[q] # Null
      PROVE /\ E.first[q] \in Nodes /\ E.parent[E.first[q]] = q /\ E.prev[E.first[q]] = Null
            /\ E.last[q] \in Nodes /\ E.parent[E.last[q]] = q /\ E.next[E.last[q]] = Null
  BY <1>1, <1>2, <1>3, <1>5 DEF FirstLinked, Links, DomType, PointerType, Places
<1>6. ASSUME NEW x \in Places, E.next[x] # Null
      PROVE E.next[x] \in Nodes /\ E.prev[E.next[x]] = x /\ E.parent[E.next[x]] = E.parent[x]
  BY <1>1, <1>2, <1>3, <1>6 DEF FirstLinked, Links, DomType, PointerType, Places
<1>7. ASSUME NEW x \in Places, E.prev[x] # Null
      PROVE E.prev[x] \in Nodes /\ E.next[E.prev[x]] = x /\ E.parent[E.prev[x]] = E.parent[x]
  BY <1>1, <1>2, <1>3, <1>7 DEF FirstLinked, Links, DomType, PointerType, Places
<1>8. ASSUME NEW m \in Nodes, E.parent[m] # Null
      PROVE /\ E.prev[m] = Null => E.first[E.parent[m]] = m
            /\ E.next[m] = Null => E.last[E.parent[m]] = m
  BY <1>1, <1>2, <1>3, <1>8 DEF FirstLinked, Links, DomType, PointerType, Places
<1>9. ASSUME NEW x \in Places, E.parent[x] = Null PROVE E.prev[x] = Null /\ E.next[x] = Null
  BY <1>1, <1>2, <1>3, <1>9 DEF FirstLinked, Links, DomType, PointerType, Places
<1> QED
  BY <1>4, <1>5, <1>6, <1>7, <1>8, <1>9 DEF Links, E

\* Hanging it first makes it a child of the place and moves nothing else.
LEMMA LinkFirstHung ==
  ASSUME NEW D, NEW p, NEW n, MayHang(D, p, n)
  PROVE  Hung(D, LinkFirst(D, p, n), p, n)
<1> DEFINE E == LinkFirst(D, p, n)
<1> HIDE DEF E
<1>0. /\ D \in DomType /\ Links(D) /\ OfOneDocument(D) /\ NoRing(D.prev) /\ NoRing(D.parent)
      /\ p \in Places /\ n \in Nodes /\ n # p /\ D.parent[n] = Null
  BY DEF MayHang, Tree
<1>1. FirstLinked(D, E, p, n)
  BY <1>0, LinkFirstType DEF E
<1>2. Links(E)
  BY <1>0, LinkFirstLinks DEF E
<1>3. Nodes \subseteq Places /\ Null \notin Nodes
  BY DomAssumption DEF Places
<1>4. \A x \in Places : D.prev[x] # n /\ D.last[x] # n
  BY <1>0, LooseLinks
<1>5. OfOneDocument(E)
  <2>1. \A x \in Places : x # p => E.first[x] = D.first[x]
    BY <1>0, <1>1 DEF FirstLinked, DomType, PointerType
  <2>2. /\ D.doc[n] # Null /\ (p = D.doc[n] \/ p \in NodesOf(D, D.doc[n]))
        /\ E \in DomType /\ E.doc = D.doc /\ E.parent = [D.parent EXCEPT ![n] = p]
    BY <1>1 DEF MayHang, FirstLinked
  <2> QED
    BY <1>0, <2>1, <2>2, HangOneDocument
<1>6. NoRing(E.parent)
  BY <1>0, <1>1, HangNoRing DEF MayHang, FirstLinked
<1>7. NoRing(E.prev)
  <2> SUFFICES ASSUME NEW S \in SUBSET Nodes, S # {}, \A x \in S : E.prev[x] \in S
               PROVE  FALSE
    BY DEF NoRing
  <2>1. \A x \in Places : E.prev[x] = IF x = n THEN Null ELSE IF x = D.first[p] THEN n ELSE D.prev[x]
    BY <1>0, <1>1 DEF FirstLinked, DomType, PointerType
  <2>2. n \notin S
    BY <1>0, <1>3, <2>1
  <2>3. \A x \in S : D.prev[x] \in S
    BY <1>3, <2>1, <2>2
  <2> QED
    BY <1>0, <2>3 DEF NoRing
<1> QED
  BY <1>1, <1>2, <1>5, <1>6, <1>7 DEF Hung, Tree, FirstLinked, E

AfterLinked(D, E, p, a, n) ==
  /\ E \in DomType
  /\ E.doc = D.doc /\ E.unlinked = D.unlinked /\ E.untracked = D.untracked
  /\ E.parent = [D.parent EXCEPT ![n] = p]
  /\ E.first = D.first /\ E.last = D.last
  /\ E.next = [x \in Places |-> IF x = n THEN D.next[a] ELSE IF x = a THEN n ELSE D.next[x]]
  /\ E.prev = [x \in Places |-> IF x = n THEN a ELSE IF x = D.next[a] THEN n ELSE D.prev[x]]

\* What hanging a node after another changes.
LEMMA LinkAfterType ==
  ASSUME NEW D \in DomType, NEW p \in Places, NEW n \in Nodes, NEW a \in Nodes
  PROVE  AfterLinked(D, LinkAfter(D, p, a, n), p, a, n)
BY DEF AfterLinked, LinkAfter, DomType, PointerType, Places

\* Hanging it after another keeps the links in agreement.
LEMMA LinkAfterLinks ==
  ASSUME NEW D \in DomType, NEW p \in Places, NEW n \in Nodes, NEW a \in Nodes, n # p, a # n, D.parent[a] = p, D.next[a] # Null, D.parent[n] = Null, Links(D)
  PROVE  Links(LinkAfter(D, p, a, n))
<1> DEFINE E == LinkAfter(D, p, a, n)
<1> HIDE DEF E
<1>1. AfterLinked(D, E, p, a, n)
  BY LinkAfterType DEF E
<1>2. n \in Places /\ Null \notin Places /\ Null \notin Nodes
  BY DomAssumption DEF Places
<1>3. /\ D.prev[n] = Null /\ D.next[n] = Null
      /\ \A x \in Places : D.next[x] # n /\ D.prev[x] # n /\ D.first[x] # n /\ D.last[x] # n
  BY LooseLinks
<1>4. ASSUME NEW q \in Places PROVE (E.first[q] = Null) = (E.last[q] = Null)
  BY <1>1, <1>2, <1>3, <1>4 DEF AfterLinked, Links, DomType, PointerType
<1>5. ASSUME NEW q \in Places, E.first[q] # Null
      PROVE /\ E.first[q] \in Nodes /\ E.parent[E.first[q]] = q /\ E.prev[E.first[q]] = Null
            /\ E.last[q] \in Nodes /\ E.parent[E.last[q]] = q /\ E.next[E.last[q]] = Null
  BY <1>1, <1>2, <1>3, <1>5 DEF AfterLinked, Links, DomType, PointerType, Places
<1>6. ASSUME NEW x \in Places, E.next[x] # Null
      PROVE E.next[x] \in Nodes /\ E.prev[E.next[x]] = x /\ E.parent[E.next[x]] = E.parent[x]
  BY <1>1, <1>2, <1>3, <1>6 DEF AfterLinked, Links, DomType, PointerType, Places
<1>7. ASSUME NEW x \in Places, E.prev[x] # Null
      PROVE E.prev[x] \in Nodes /\ E.next[E.prev[x]] = x /\ E.parent[E.prev[x]] = E.parent[x]
  BY <1>1, <1>2, <1>3, <1>7 DEF AfterLinked, Links, DomType, PointerType, Places
<1>8. ASSUME NEW m \in Nodes, E.parent[m] # Null
      PROVE /\ E.prev[m] = Null => E.first[E.parent[m]] = m
            /\ E.next[m] = Null => E.last[E.parent[m]] = m
  BY <1>1, <1>2, <1>3, <1>8 DEF AfterLinked, Links, DomType, PointerType, Places
<1>9. ASSUME NEW x \in Places, E.parent[x] = Null PROVE E.prev[x] = Null /\ E.next[x] = Null
  BY <1>1, <1>2, <1>3, <1>9 DEF AfterLinked, Links, DomType, PointerType, Places
<1> QED
  BY <1>4, <1>5, <1>6, <1>7, <1>8, <1>9 DEF Links, E

\* Hanging it after another makes it a child and moves nothing else.
LEMMA LinkAfterHung ==
  ASSUME NEW D, NEW p, NEW n, NEW a \in Nodes, MayHang(D, p, n), a # n, D.parent[a] = p, D.next[a] # Null
  PROVE  Hung(D, LinkAfter(D, p, a, n), p, n)
<1> DEFINE E == LinkAfter(D, p, a, n)
<1> HIDE DEF E
<1>0. /\ D \in DomType /\ Links(D) /\ OfOneDocument(D) /\ NoRing(D.prev) /\ NoRing(D.parent)
      /\ p \in Places /\ n \in Nodes /\ n # p /\ D.parent[n] = Null
  BY DEF MayHang, Tree
<1>1. AfterLinked(D, E, p, a, n)
  BY <1>0, LinkAfterType DEF E
<1>2. Links(E)
  BY <1>0, LinkAfterLinks DEF E
<1>3. Nodes \subseteq Places /\ Null \notin Nodes
  BY DomAssumption DEF Places
<1>4. \A x \in Places : D.prev[x] # n /\ D.last[x] # n
  BY <1>0, LooseLinks
<1>5. OfOneDocument(E)
  <2>1. \A x \in Places : x # p => E.first[x] = D.first[x]
    BY <1>0, <1>1 DEF AfterLinked, DomType, PointerType
  <2> QED
    BY <1>0, <1>1, <2>1, HangOneDocument DEF MayHang, AfterLinked
<1>6. NoRing(E.parent)
  BY <1>0, <1>1, HangNoRing DEF MayHang, AfterLinked
<1>7. NoRing(E.prev)
  <2> SUFFICES ASSUME NEW S \in SUBSET Nodes, S # {}, \A x \in S : E.prev[x] \in S
               PROVE  FALSE
    BY DEF NoRing
  <2>1. \A x \in Places : E.prev[x] = IF x = n THEN a ELSE IF x = D.next[a] THEN n ELSE D.prev[x]
    BY <1>0, <1>1 DEF AfterLinked
  <2>2. D.prev[D.next[a]] = a
    BY <1>0, <1>3 DEF Links
  <2>3. \A x \in S \ {n} : D.prev[x] \in S \ {n}
    BY <1>0, <1>3, <1>4, <2>1, <2>2
  <2>4. S \ {n} \in SUBSET Nodes /\ S \ {n} # {}
    BY <1>0, <1>3, <1>4, <2>1
  <2> QED
    BY <1>0, <2>3, <2>4 DEF NoRing
<1> QED
  BY <1>1, <1>2, <1>5, <1>6, <1>7 DEF Hung, Tree, AfterLinked, E

-----------------------------------------------------------------------------
\* The list of unlinked nodes.
LEMMA WithoutList ==
  ASSUME NEW u \in Seq(Nodes), Distinct(u), NEW n \in Nodes
  PROVE  /\ Without(u, n) \in Seq(Nodes)
         /\ Distinct(Without(u, n))
         /\ \A m \in Nodes : In(Without(u, n), m) <=> In(u, m) /\ m # n
         /\ Len(Without(u, n)) = IF In(u, n) THEN Len(u) - 1 ELSE Len(u)
<1> DEFINE found == {i \in 1..Len(u) : u[i] = n}
<1>1. CASE found = {}
  <2>1. Without(u, n) = u
    BY <1>1 DEF Without
  <2>2. ~In(u, n)
    BY <1>1 DEF In
  <2> QED
    BY <2>1, <2>2 DEF In
<1>2. CASE found # {}
  <2>1. PICK k \in found : TRUE
    BY <1>2
  <2>2. found = {k}
    BY <2>1 DEF Distinct
  <2>3. (CHOOSE i \in found : \A j \in found : i <= j) = k
    BY <2>1, <2>2
  <2> DEFINE w == SwapRemove(u, k)
  <2>4. Without(u, n) = w
    BY <1>2, <2>3 DEF Without
  <2>5. k \in 1..Len(u) /\ u[k] = n /\ Len(u) \in Nat
    BY <2>1
  <2>6. w = [j \in 1..(Len(u) - 1) |-> IF j = k THEN u[Len(u)] ELSE u[j]]
    BY DEF SwapRemove
  <2> HIDE DEF w
  <2>7. w \in Seq(Nodes) /\ Len(w) = Len(u) - 1 /\ DOMAIN w = 1..(Len(u) - 1)
    BY <2>5, <2>6
  <2>8. Distinct(w)
    BY <2>5, <2>6, <2>7 DEF Distinct
  <2>9. ASSUME NEW m \in Nodes PROVE In(w, m) <=> In(u, m) /\ m # n
    <3>1. In(w, m) => In(u, m) /\ m # n
      BY <2>5, <2>6, <2>7 DEF Distinct, In
    <3>2. ASSUME NEW i \in DOMAIN u, u[i] = m, m # n PROVE In(w, m)
      <4>1. i \in 1..Len(u) /\ i # k
        BY <2>5, <3>2
      <4>2. CASE i = Len(u)
        <5>1. k \in DOMAIN w /\ w[k] = m
          BY <2>5, <2>6, <2>7, <3>2, <4>1, <4>2
        <5> QED
          BY <5>1 DEF In
      <4>3. CASE i # Len(u)
        <5>1. i \in DOMAIN w /\ w[i] = m
          BY <2>5, <2>6, <2>7, <3>2, <4>1, <4>3
        <5> QED
          BY <5>1 DEF In
      <4> QED
        BY <4>2, <4>3
    <3> QED
      BY <3>1, <3>2 DEF In
  <2>10. In(u, n)
    BY <2>5 DEF In
  <2> QED
    BY <2>4, <2>7, <2>8, <2>9, <2>10
<1> QED
  BY <1>1, <1>2

\* A tree and its lists stay as they are when nothing but the lists change.
SameTree(D, E) ==
  /\ E \in DomType
  /\ E.doc = D.doc /\ E.parent = D.parent /\ E.first = D.first /\ E.last = D.last
  /\ E.prev = D.prev /\ E.next = D.next

\* What leaves the links alone leaves the tree alone.
LEMMA SameTreeTree ==
  ASSUME NEW D, NEW E, Tree(D), SameTree(D, E)
  PROVE  Tree(E)
BY DEF Tree, SameTree, Links, OfOneDocument, NodesOf

\* n is off the lists, and as the count says, tracked.
Forgotten(D, E, n) ==
  /\ SameTree(D, E)
  /\ E.unlinked = [d \in Docs |-> Without(D.unlinked[d], n)]
  /\ E.untracked = [D.untracked EXCEPT ![D.doc[n]] = @ - 1]

\* MarkInUse and SetTracked, in either order, take the node off the list.
LEMMA MarkInUseForgets ==
  ASSUME NEW D \in DomType, NEW n \in Nodes, D.doc[n] # Null, \A d \in Docs : Distinct(D.unlinked[d])
  PROVE  /\ Forgotten(D, SetTracked(MarkInUse(D, n), n), n)
         /\ Forgotten(D, MarkInUse(SetTracked(D, n), n), n)
         /\ SameTree(D, MarkInUse(D, n)) /\ MarkInUse(D, n).untracked = D.untracked
         /\ MarkInUse(D, n).unlinked = [d \in Docs |-> Without(D.unlinked[d], n)]
<1>1. [d \in Docs |-> Without(D.unlinked[d], n)] \in [Docs -> Seq(Nodes)]
  BY WithoutList DEF DomType
<1>2. D.doc[n] \in Docs
  BY DEF DomType
<1> DEFINE M == MarkInUse(D, n)
           T == SetTracked(D, n)
<1> DEFINE counts == [D.untracked EXCEPT ![D.doc[n]] = @ - 1]
<1>c. counts \in [Docs -> Int]
  BY <1>2 DEF DomType
<1>t. T = [D EXCEPT !.untracked = counts]
  BY <1>2 DEF SetTracked, DomType
<1>s. SetTracked(M, n) = [M EXCEPT !.untracked = [M.untracked EXCEPT ![M.doc[n]] = @ - 1]]
  BY DEF SetTracked
<1>3. /\ SameTree(D, M) /\ M.untracked = D.untracked
      /\ M.unlinked = [d \in Docs |-> Without(D.unlinked[d], n)]
  BY <1>1 DEF SameTree, MarkInUse, DomType
<1>4. /\ SameTree(D, T) /\ T.unlinked = D.unlinked
      /\ T.untracked = [D.untracked EXCEPT ![D.doc[n]] = @ - 1]
  BY <1>c, <1>t DEF SameTree, DomType
<1> HIDE DEF M, T
<1>5. Forgotten(D, SetTracked(M, n), n)
  <2>1. M \in DomType /\ M.doc = D.doc
    BY <1>3 DEF SameTree
  <2>2. SetTracked(M, n) = [M EXCEPT !.untracked = counts]
    BY <1>3, <1>s, <2>1
  <2> QED
    BY <1>3, <1>c, <2>1, <2>2 DEF Forgotten, SameTree, DomType
<1>6. Forgotten(D, MarkInUse(T, n), n)
  BY <1>1, <1>2, <1>4 DEF Forgotten, SameTree, MarkInUse, DomType
<1> QED
  BY <1>3, <1>5, <1>6 DEF M, T

\* The list stays exact when a node that is gone is taken off it.
LEMMA ForgottenListed ==
  ASSUME NEW D \in DomType, NEW E, NEW gone, NEW n \in Nodes, Forgotten(D, E, n), Listed(D, gone),
         D.doc[n] # Null, D.parent[n] = Null, n \notin gone
  PROVE  Listed(E, gone \cup {n})
<1> SUFFICES ASSUME NEW d \in Docs
             PROVE /\ \A m \in Nodes : In(E.unlinked[d], m)
                                         <=> E.doc[m] = d /\ E.parent[m] = Null /\ m \notin gone \cup {n}
                   /\ Distinct(E.unlinked[d])
                   /\ E.untracked[d] = Len(E.unlinked[d])
  BY DEF Listed
<1>1. D.unlinked[d] \in Seq(Nodes) /\ D.doc[n] \in Docs /\ D.untracked \in [Docs -> Int]
  BY DEF DomType
<1>2. Distinct(D.unlinked[d]) /\ D.untracked[d] = Len(D.unlinked[d])
  BY DEF Listed
<1>3. E.unlinked[d] = Without(D.unlinked[d], n)
  BY DEF Forgotten
<1>4. \A m \in Nodes : In(E.unlinked[d], m) <=> In(D.unlinked[d], m) /\ m # n
  BY <1>1, <1>2, <1>3, WithoutList
<1>5. In(D.unlinked[d], n) <=> D.doc[n] = d
  BY DEF Listed
<1>6. E.untracked[d] = IF d = D.doc[n] THEN D.untracked[d] - 1 ELSE D.untracked[d]
  BY <1>1 DEF Forgotten
<1>7. Len(E.unlinked[d]) = IF In(D.unlinked[d], n) THEN Len(D.unlinked[d]) - 1 ELSE Len(D.unlinked[d])
  BY <1>1, <1>2, <1>3, WithoutList
<1>8. Distinct(E.unlinked[d])
  BY <1>1, <1>2, <1>3, WithoutList
<1>9. \A m \in Nodes : In(E.unlinked[d], m) <=> E.doc[m] = d /\ E.parent[m] = Null /\ m \notin gone \cup {n}
  BY <1>4 DEF Listed, Forgotten, SameTree
<1> QED
  BY <1>2, <1>5, <1>6, <1>7, <1>8, <1>9

\* Removing what a list does not have changes nothing.
LEMMA WithoutOther ==
  ASSUME NEW u, NEW n, ~In(u, n), u \in Seq(Nodes)
  PROVE  Without(u, n) = u
BY DEF Without, In

\* n leaves its list of children.
LEMMA UnlinkListed ==
  ASSUME NEW D, NEW gone, NEW n \in Nodes, Tree(D), Listed(D, gone), D.parent[n] # Null
  PROVE  LET E == Unlink(D, n)
         IN /\ Tree(E) /\ Listed(E, gone \cup {n})
            /\ E.doc = D.doc /\ E.parent = [D.parent EXCEPT ![n] = Null]
<1> DEFINE E == Unlink(D, n)
<1> HIDE DEF E
<1>1. D \in DomType
  BY DEF Tree
<1>2. Tree(E)
  BY UnlinkTree DEF E
<1>3. Unlinked(D, E, n)
  BY <1>1, UnlinkType DEF E
<1>4. \A m \in Nodes : E.parent[m] = IF m = n THEN Null ELSE D.parent[m]
  BY <1>1, <1>3 DEF Unlinked, DomType, PointerType, Places
<1>5. Listed(E, gone \cup {n})
  BY <1>3, <1>4 DEF Unlinked, Listed
<1> QED
  BY <1>2, <1>3, <1>5 DEF Unlinked, E

\* InsertChildPreamble: n hangs nowhere and is on no list.
LEMMA PreambleListed ==
  ASSUME NEW D, NEW gone, NEW n \in Nodes, Tree(D), Listed(D, gone), D.doc[n] # Null, n \notin gone
  PROVE  LET E == InsertChildPreamble(D, n)
         IN /\ Tree(E) /\ Listed(E, gone \cup {n})
            /\ E.doc = D.doc /\ E.parent = [D.parent EXCEPT ![n] = Null]
<1> DEFINE E == InsertChildPreamble(D, n)
<1>0. D \in DomType /\ \A d \in Docs : Distinct(D.unlinked[d])
  BY DEF Tree, Listed
<1>1. CASE D.parent[n] # Null
  BY <1>1, UnlinkListed DEF InsertChildPreamble
<1>2. CASE D.parent[n] = Null
  <2>1. E = SetTracked(MarkInUse(D, n), n)
    BY <1>2 DEF InsertChildPreamble
  <2> HIDE DEF E
  <2>2. Forgotten(D, E, n)
    BY <1>0, <2>1, MarkInUseForgets
  <2>3. Tree(E)
    BY <2>2, SameTreeTree DEF Forgotten
  <2>4. Listed(E, gone \cup {n})
    BY <1>0, <1>2, <2>2, ForgottenListed
  <2>5. E.doc = D.doc /\ E.parent = [D.parent EXCEPT ![n] = Null]
    BY <1>0, <1>2, <2>2, DomAssumption DEF Forgotten, SameTree, DomType, PointerType, Places
  <2> QED
    BY <2>3, <2>4, <2>5 DEF E
<1> QED
  BY <1>1, <1>2

\* From D to E only n moved: it hangs on p now, on nothing when p is Null.
Moved(D, E, n, p) == E.doc = D.doc /\ E.parent = [D.parent EXCEPT ![n] = p]

\* A moved node has its new parent, everybody else the old one.
LEMMA MovedOnTop ==
  ASSUME NEW D \in DomType, NEW E, NEW n \in Nodes, NEW p, Moved(D, E, n, p),
         \A d \in Docs : D.parent[d] = Null
  PROVE  /\ \A d \in Docs : E.parent[d] = Null
         /\ \A m \in Nodes : E.parent[m] = IF m = n THEN p ELSE D.parent[m]
BY DomAssumption DEF Moved, DomType, PointerType, Places

\* A node whose list of children is empty is nobody's parent.
LEMMA NoOrphans ==
  ASSUME NEW D, Tree(D), NEW m \in Nodes, D.parent[m] # Null
  PROVE  D.parent[m] \in Places /\ D.first[D.parent[m]] # Null
<1> DEFINE p == D.parent[m]
           S == {x \in Nodes : D.parent[x] = p}
<1>1. D \in DomType /\ Links(D) /\ NoRing(D.prev)
  BY DEF Tree
<1>2. p \in Places
  BY <1>1 DEF DomType, PointerType, Places
<1>3. ASSUME D.first[p] = Null, NEW x \in S PROVE D.prev[x] \in S
  <2>1. x \in Places /\ x \in Nodes /\ D.parent[x] = p
    BY DEF Places
  <2>2. D.prev[x] # Null
    BY <1>1, <1>3, <2>1, DomAssumption DEF Links
  <2> QED
    BY <1>1, <2>1, <2>2 DEF Links
<1>4. S \in SUBSET Nodes /\ S # {}
  OBVIOUS
<1> QED
  BY <1>1, <1>2, <1>3, <1>4 DEF NoRing

\* A node leaves its tree.
LEMMA LeaveSound ==
  ASSUME NEW D, NEW gone, NEW n \in Nodes, Sound(D, gone), D.parent[n] # Null
  PROVE  Sound(LeaveTree(D, n), gone \cup {n}) /\ Moved(D, LeaveTree(D, n), n, Null)
<1> DEFINE U == Unlink(D, n)
           E == MarkInUse(U, n)
<1>1. LeaveTree(D, n) = E
  BY DEF LeaveTree
<1>2. Tree(D) /\ Listed(D, gone) /\ D \in DomType
  BY DEF Sound, Tree
<1>3. Tree(U) /\ Listed(U, gone \cup {n}) /\ U.doc = D.doc /\ U.parent = [D.parent EXCEPT ![n] = Null]
  BY <1>2, UnlinkListed
<1>4. U \in DomType
  BY <1>3 DEF Tree
<1> HIDE DEF U
<1>5. \A d \in Docs : Without(U.unlinked[d], n) = U.unlinked[d]
  BY <1>3, <1>4, WithoutOther DEF Listed, DomType
<1>6. E = U
  BY <1>4, <1>5 DEF MarkInUse, DomType
<1>7. Moved(D, E, n, Null)
  BY <1>3, <1>6 DEF Moved
<1> QED
  BY <1>1, <1>2, <1>3, <1>6, <1>7, MovedOnTop DEF Sound

\* A node leaves its tree or the list of its document.
LEMMA DropSound ==
  ASSUME NEW D, NEW gone, NEW n \in Nodes, Sound(D, gone), D.doc[n] # Null, n \notin gone
  PROVE  Sound(DropNode(D, n), gone \cup {n}) /\ Moved(D, DropNode(D, n), n, Null)
<1>0. Tree(D) /\ Listed(D, gone) /\ D \in DomType /\ \A d \in Docs : Distinct(D.unlinked[d])
  BY DEF Sound, Tree, Listed
<1>1. CASE D.parent[n] # Null
  BY <1>1, LeaveSound DEF DropNode
<1>2. CASE D.parent[n] = Null
  <2> DEFINE E == MarkInUse(SetTracked(D, n), n)
  <2>1. DropNode(D, n) = E
    BY <1>2 DEF DropNode, LeaveTree, SetTracked
  <2>2. Forgotten(D, E, n)
    BY <1>0, MarkInUseForgets
  <2> HIDE DEF E
  <2>3. Tree(E)
    BY <1>0, <2>2, SameTreeTree DEF Forgotten
  <2>4. Listed(E, gone \cup {n})
    BY <1>0, <1>2, <2>2, ForgottenListed
  <2>5. Moved(D, E, n, Null)
    BY <1>0, <1>2, <2>2 DEF Moved, Forgotten, SameTree, DomType, PointerType, Places
  <2> QED
    BY <1>0, <2>1, <2>3, <2>4, <2>5, MovedOnTop DEF Sound
<1> QED
  BY <1>1, <1>2

\* The memory of a node that is gone is given back.
LEMMA FreeSound ==
  ASSUME NEW D, NEW gone, NEW n \in Nodes, Sound(D, gone), n \in gone,
         D.parent[n] = Null, D.first[n] = Null
  PROVE  /\ Sound(Free(D, n), gone \ {n})
         /\ Free(D, n).doc = [D.doc EXCEPT ![n] = Null] /\ Free(D, n).parent = D.parent
<1> DEFINE E == Free(D, n)
<1>0. Tree(D) /\ Listed(D, gone) /\ D \in DomType
  BY DEF Sound, Tree
<1>1. /\ E \in DomType /\ E.parent = D.parent /\ E.first = D.first /\ E.last = D.last
      /\ E.prev = D.prev /\ E.next = D.next /\ E.unlinked = D.unlinked /\ E.untracked = D.untracked
      /\ E.doc = [D.doc EXCEPT ![n] = Null]
  BY <1>0 DEF Free, DomType
<1> HIDE DEF E
<1>2. Links(E)
  BY <1>0, <1>1 DEF Tree, Links
<1>3. \A m \in Nodes : E.doc[m] = IF m = n THEN Null ELSE D.doc[m]
  BY <1>0, <1>1 DEF DomType
<1>4. \A m \in Nodes : D.parent[m] # n
  BY <1>0, NoOrphans, DomAssumption
<1>5. OfOneDocument(E)
  BY <1>0, <1>1, <1>3, <1>4 DEF Tree, OfOneDocument, NodesOf
<1>6. Listed(E, gone \ {n})
  BY <1>0, <1>1, <1>3, DomAssumption DEF Listed
<1> QED
  BY <1>0, <1>1, <1>2, <1>5, <1>6 DEF Sound, Tree, E

\* A new node is unlinked.
LEMMA CreateSound ==
  ASSUME NEW D, NEW gone, NEW d \in Docs, NEW n \in Nodes, Sound(D, gone), D.doc[n] = Null, n \notin gone
  PROVE  /\ Sound(CreateUnlinkedNode(D, d, n), gone)
         /\ CreateUnlinkedNode(D, d, n).doc = [D.doc EXCEPT ![n] = d]
         /\ CreateUnlinkedNode(D, d, n).parent = D.parent
<1> DEFINE E == CreateUnlinkedNode(D, d, n)
<1>0. Tree(D) /\ Listed(D, gone) /\ D \in DomType /\ OfOneDocument(D)
  BY DEF Sound, Tree
<1>1. /\ E.parent = D.parent /\ E.first = D.first /\ E.last = D.last
      /\ E.prev = D.prev /\ E.next = D.next
      /\ E.unlinked = [D.unlinked EXCEPT ![d] = Append(@, n)]
      /\ E.untracked = [D.untracked EXCEPT ![d] = @ + 1]
      /\ E.doc = [D.doc EXCEPT ![n] = d]
  BY <1>0 DEF CreateUnlinkedNode, DomType
<1>2. E \in DomType
  <2>1. [D.unlinked EXCEPT ![d] = Append(@, n)] \in [Docs -> Seq(Nodes)]
    BY <1>0 DEF DomType
  <2>2. [D.untracked EXCEPT ![d] = @ + 1] \in [Docs -> Int]
    BY <1>0 DEF DomType
  <2>3. [D.doc EXCEPT ![n] = d] \in [Nodes -> Docs \cup {Null}]
    BY <1>0 DEF DomType
  <2> QED
    BY <1>0, <2>1, <2>2, <2>3 DEF CreateUnlinkedNode, DomType
<1> HIDE DEF E
<1>3. Links(E)
  BY <1>0, <1>1 DEF Tree, Links
<1>4. \A m \in Nodes : E.doc[m] = IF m = n THEN d ELSE D.doc[m]
  BY <1>0, <1>1 DEF DomType
<1>5. D.parent[n] = Null
  BY <1>0 DEF OfOneDocument
<1>6. OfOneDocument(E)
  BY <1>0, <1>1, <1>4, <1>5, DomAssumption DEF OfOneDocument, NodesOf
<1>7. Listed(E, gone)
  <2> SUFFICES ASSUME NEW e \in Docs
               PROVE /\ \A m \in Nodes : In(E.unlinked[e], m)
                                           <=> E.doc[m] = e /\ E.parent[m] = Null /\ m \notin gone
                     /\ Distinct(E.unlinked[e])
                     /\ E.untracked[e] = Len(E.unlinked[e])
    BY DEF Listed
  <2>1. /\ \A m \in Nodes : In(D.unlinked[e], m)
                              <=> D.doc[m] = e /\ D.parent[m] = Null /\ m \notin gone
        /\ Distinct(D.unlinked[e])
        /\ D.untracked[e] = Len(D.unlinked[e]) /\ D.unlinked[e] \in Seq(Nodes)
    BY <1>0 DEF Listed, DomType
  <2>2. CASE e # d
    <3>1. E.unlinked[e] = D.unlinked[e] /\ E.untracked[e] = D.untracked[e]
      BY <1>0, <1>1, <2>2 DEF DomType
    <3> QED
      BY <1>1, <1>4, <2>1, <2>2, <3>1, DomAssumption
  <2>3. CASE e = d
    <3>1. E.unlinked[e] = Append(D.unlinked[e], n) /\ E.untracked[e] = D.untracked[e] + 1
      BY <1>0, <1>1, <2>3 DEF DomType
    <3>2. ~In(D.unlinked[e], n)
      BY <2>1, DomAssumption
    <3>3. Distinct(E.unlinked[e])
      BY <2>1, <3>1, <3>2 DEF Distinct, In
    <3>4. \A m \in Nodes : In(E.unlinked[e], m) <=> In(D.unlinked[e], m) \/ m = n
      <4> SUFFICES ASSUME NEW m \in Nodes
                   PROVE In(E.unlinked[e], m) <=> In(D.unlinked[e], m) \/ m = n
        OBVIOUS
      <4>1. In(E.unlinked[e], m) => In(D.unlinked[e], m) \/ m = n
        BY <2>1, <3>1 DEF In
      <4>2. In(D.unlinked[e], m) => In(E.unlinked[e], m)
        BY <2>1, <3>1 DEF In
      <4>3. Len(E.unlinked[e]) \in DOMAIN E.unlinked[e] /\ E.unlinked[e][Len(E.unlinked[e])] = n
        BY <2>1, <3>1
      <4> QED
        BY <4>1, <4>2, <4>3 DEF In
    <3>5. E.untracked[e] = Len(E.unlinked[e])
      BY <2>1, <3>1
    <3> QED
      BY <1>1, <1>4, <1>5, <2>1, <2>3, <3>3, <3>4, <3>5
  <2> QED
    BY <2>2, <2>3
<1> QED
  BY <1>0, <1>1, <1>2, <1>3, <1>6, <1>7 DEF Sound, Tree, E

\* A node may be put below p: both belong to one document.
MayMove(D, gone, p, n) ==
  /\ Sound(D, gone)
  /\ p \in Places /\ n \in Nodes
  /\ D.doc[n] # Null /\ n \notin gone
  /\ p = D.doc[n] \/ p \in NodesOf(D, D.doc[n])
  /\ NotAbove(D, n, p)

\* InsertChildPreamble makes a node ready to be hung.
LEMMA PreambleMayHang ==
  ASSUME NEW D, NEW gone, NEW p, NEW n, MayMove(D, gone, p, n)
  PROVE  LET E == InsertChildPreamble(D, n)
         IN MayHang(E, p, n) /\ Listed(E, gone \cup {n}) /\ Moved(D, E, n, Null)
<1> DEFINE E == InsertChildPreamble(D, n)
<1>0. /\ Tree(D) /\ Listed(D, gone) /\ D \in DomType /\ p \in Places /\ n \in Nodes
      /\ D.doc[n] # Null /\ n \notin gone /\ \A d \in Docs : D.parent[d] = Null
  BY DEF MayMove, Sound, Tree
<1>1. Tree(E) /\ Listed(E, gone \cup {n}) /\ E.doc = D.doc /\ E.parent = [D.parent EXCEPT ![n] = Null]
  BY <1>0, PreambleListed
<1> HIDE DEF E
<1>2. \A x \in Places : E.parent[x] = IF x = n THEN Null ELSE D.parent[x]
  BY <1>0, <1>1 DEF DomType, PointerType
<1>3. n # p
  BY DEF MayMove, NotAbove
<1>4. NotAbove(E, n, p)
  <2>1. PICK line \in SUBSET Places :
          /\ p \in line /\ n \notin line
          /\ \A x \in line : D.parent[x] = Null \/ D.parent[x] \in line
    BY DEF MayMove, NotAbove
  <2>2. \A x \in line : E.parent[x] = Null \/ E.parent[x] \in line
    BY <1>2, <2>1
  <2> QED
    BY <2>1, <2>2 DEF NotAbove
<1>5. E.parent[n] = Null
  BY <1>0, <1>2 DEF Places
<1>6. p = E.doc[n] \/ p \in NodesOf(E, E.doc[n])
  BY <1>1 DEF MayMove, NodesOf
<1> QED
  BY <1>0, <1>1, <1>3, <1>4, <1>5, <1>6 DEF MayHang, Moved, E

\* Before, between and after: E is the tree without n in a list, F with it.
LEMMA HungSound ==
  ASSUME NEW D, NEW gone, NEW p, NEW n, MayMove(D, gone, p, n), NEW E,
         Listed(E, gone \cup {n}), Moved(D, E, n, Null), NEW F, Hung(E, F, p, n)
  PROVE  Sound(F, gone) /\ Moved(D, F, n, p)
<1>0. /\ D \in DomType /\ p \in Places /\ p # Null /\ n \in Nodes /\ Tree(F)
      /\ D.doc[n] # Null /\ n \notin gone /\ \A d \in Docs : D.parent[d] = Null
  BY DomAssumption DEF MayMove, Sound, Tree, Hung, Places
<1>1. F.parent = [D.parent EXCEPT ![n] = p]
  BY <1>0 DEF Hung, Moved, DomType, PointerType
<1>2. Moved(D, F, n, p)
  BY <1>1 DEF Hung, Moved
<1>3. \A d \in Docs : F.parent[d] = Null
  BY <1>0, <1>2, MovedOnTop
<1>4. \A m \in Nodes : /\ E.parent[m] = IF m = n THEN Null ELSE D.parent[m]
                       /\ F.parent[m] = IF m = n THEN p ELSE D.parent[m]
  BY <1>0, <1>1 DEF Moved, DomType, PointerType, Places
<1>5. Listed(F, gone)
  BY <1>0, <1>4 DEF Listed, Hung
<1> QED
  BY <1>0, <1>2, <1>3, <1>5 DEF Sound

\* InsertEndChild keeps the structure.
LEMMA EndSound ==
  ASSUME NEW D, NEW gone, NEW p, NEW n, MayMove(D, gone, p, n)
  PROVE  Sound(InsertEndChild(D, p, n), gone) /\ Moved(D, InsertEndChild(D, p, n), n, p)
<1> DEFINE E == InsertChildPreamble(D, n)
<1>1. MayHang(E, p, n) /\ Listed(E, gone \cup {n}) /\ Moved(D, E, n, Null)
  BY PreambleMayHang
<1>2. InsertEndChild(D, p, n) = LinkLast(E, p, n)
  BY DEF InsertEndChild
<1> HIDE DEF E
<1>3. Hung(E, LinkLast(E, p, n), p, n)
  BY <1>1, LinkLastHung
<1> QED
  BY <1>1, <1>2, <1>3, HungSound

\* InsertFirstChild keeps the structure.
LEMMA FirstSound ==
  ASSUME NEW D, NEW gone, NEW p, NEW n, MayMove(D, gone, p, n)
  PROVE  Sound(InsertFirstChild(D, p, n), gone) /\ Moved(D, InsertFirstChild(D, p, n), n, p)
<1> DEFINE E == InsertChildPreamble(D, n)
<1>1. MayHang(E, p, n) /\ Listed(E, gone \cup {n}) /\ Moved(D, E, n, Null)
  BY PreambleMayHang
<1>2. InsertFirstChild(D, p, n) = LinkFirst(E, p, n)
  BY DEF InsertFirstChild
<1> HIDE DEF E
<1>3. Hung(E, LinkFirst(E, p, n), p, n)
  BY <1>1, LinkFirstHung
<1> QED
  BY <1>1, <1>2, <1>3, HungSound

\* InsertAfterChild keeps the structure.
LEMMA AfterSound ==
  ASSUME NEW D, NEW gone, NEW p, NEW a \in Nodes, NEW n, MayMove(D, gone, p, n),
         D.parent[a] = p, ~InsertAfterIsNull(D, a, n)
  PROVE  Sound(InsertAfterChild(D, p, a, n), gone) /\ Moved(D, InsertAfterChild(D, p, a, n), n, p)
<1> DEFINE E == InsertChildPreamble(D, n)
<1>0. D \in DomType /\ n \in Nodes /\ Sound(D, gone)
  BY DEF MayMove, Sound, Tree
<1>1. CASE a = n
  <2>1. InsertAfterChild(D, p, a, n) = D
    BY <1>1 DEF InsertAfterChild
  <2>2. Moved(D, D, n, p)
    BY <1>0, <1>1 DEF Moved, DomType, PointerType
  <2> QED
    BY <1>0, <2>1, <2>2
<1>2. CASE a # n /\ D.next[a] = Null
  BY <1>2, EndSound DEF InsertAfterChild
<1>3. CASE a # n /\ D.next[a] # Null
  <2>1. MayHang(E, p, n) /\ Listed(E, gone \cup {n}) /\ Moved(D, E, n, Null)
    BY PreambleMayHang
  <2>2. InsertAfterChild(D, p, a, n) = LinkAfter(E, p, a, n)
    BY <1>3 DEF InsertAfterChild
  <2>3. E.next[a] # Null
    BY <1>3 DEF InsertAfterIsNull
  <2> HIDE DEF E
  <2>4. E.parent[a] = p
    BY <1>0, <1>3, <2>1 DEF Moved, DomType, PointerType, Places
  <2>5. Hung(E, LinkAfter(E, p, a, n), p, n)
    BY <1>3, <2>1, <2>3, <2>4, LinkAfterHung
  <2> QED
    BY <2>1, <2>2, <2>5, HungSound
<1> QED
  BY <1>1, <1>2, <1>3

-----------------------------------------------------------------------------
\* The steps.
LEMMA ShorterSeq ==
  ASSUME NEW T, NEW s \in Seq(T), Len(s) > 0
  PROVE  /\ AllButLast(s) \in Seq(T) /\ Len(AllButLast(s)) = Len(s) - 1
         /\ \A i \in DOMAIN AllButLast(s) : AllButLast(s)[i] = s[i] /\ i \in DOMAIN s /\ i # Len(s)
         /\ \A i \in DOMAIN s : i # Len(s) => i \in DOMAIN AllButLast(s)
<1>1. Len(s) \in Nat /\ DOMAIN s = 1..Len(s)
  OBVIOUS
<1>2. Len(s) - 1 \in Nat /\ 1..(Len(s) - 1) \subseteq 1..Len(s)
  BY <1>1
<1>3. AllButLast(s) = [i \in 1..(Len(s) - 1) |-> s[i]]
  BY <1>1, <1>2 DEF AllButLast
<1>4. \A i \in 1..(Len(s) - 1) : s[i] \in T
  BY <1>1, <1>2
<1> QED
  BY <1>1, <1>2, <1>3, <1>4

\* Without a destruction no node is gone.
LEMMA NoneGone ==
  ASSUME dying = <<>>
  PROVE  Gone = {}
BY DEF Gone

\* A destruction starts with one node, which hangs nowhere.
LEMMA OneGone ==
  ASSUME NEW n \in Nodes, dying' = <<n>>, dom'.doc[n] # Null, dom'.parent[n] = Null
  PROVE  Gone' = {n} /\ DyingOK'
BY DEF Gone, DyingOK, Distinct

\* The list of a document is its loose nodes.
LEMMA ListedLoose ==
  ASSUME NEW D, NEW gone, Sound(D, gone), NEW d \in Docs
  PROVE  /\ \A n \in Nodes : In(D.unlinked[d], n) <=> n \in LooseOf(D, gone, d)
         /\ D.unlinked[d] \in Seq(Nodes)
BY DEF Sound, Tree, DomType, Listed, LooseOf

\* A list without members is empty.
LEMMA NothingListed ==
  ASSUME NEW u \in Seq(Nodes)
  PROVE  u = <<>> <=> \A n \in Nodes : ~In(u, n)
<1>1. ASSUME u # <<>> PROVE \E n \in Nodes : In(u, n)
  <2>1. 1 \in DOMAIN u /\ u[1] \in Nodes
    BY <1>1
  <2> QED
    BY <2>1 DEF In
<1> QED
  BY <1>1 DEF In

\* Empty documents are sound.
LEMMA InitInv ==
  ASSUME Init
  PROVE  IInv
<1>1. EmptyDom \in DomType
  BY DEF EmptyDom, DomType, PointerType
<1>2. Links(EmptyDom) /\ OfOneDocument(EmptyDom)
  BY DomAssumption DEF EmptyDom, Links, OfOneDocument, Places
<1>3. NoRing(EmptyDom.prev) /\ NoRing(EmptyDom.parent)
  BY DomAssumption DEF EmptyDom, NoRing, Places
<1>4. Listed(EmptyDom, {})
  BY DomAssumption DEF EmptyDom, Listed, In, Distinct
<1>5. \A d \in Docs : EmptyDom.parent[d] = Null
  BY DEF EmptyDom, Places
<1>6. dying = <<>> /\ Gone = {} /\ dom = EmptyDom
  BY NoneGone DEF Init
<1>7. Sound(dom, Gone)
  BY <1>1, <1>2, <1>3, <1>4, <1>5, <1>6 DEF Sound, Tree
<1>8. DyingOK
  BY <1>6 DEF DyingOK, Distinct
<1> QED
  BY <1>7, <1>8 DEF Init, IInv, CallOK, OpenOK, CopyingOK, Calls, Loads

\* A call that is one step.
LEMMA EditKeeps ==
  ASSUME IInv, Idle, NEW D, Edit(D), Sound(D, {})
  PROVE  IInv'
<1>1. dom' = D /\ dying = <<>> /\ dying' = <<>> /\ pc = "idle"
  BY DEF Edit, Idle
<1>2. Gone' = {}
  BY <1>1 DEF Gone
<1>3. Sound(dom', Gone')
  BY <1>1, <1>2
<1>4. DyingOK'
  BY <1>1 DEF DyingOK, Distinct
<1>5. CallOK' /\ OpenOK' /\ CopyingOK'
  BY <1>1 DEF IInv, Edit, CallOK, OpenOK, CopyingOK, Loads
<1> QED
  BY <1>3, <1>4, <1>5 DEF IInv

\* A call returns.
LEMMA ReturnKeeps ==
  ASSUME IInv, Return, dying = <<>>, dying' = dying, Sound(dom', {})
  PROVE  IInv'
<1>g. Gone' = {}
  BY DEF Gone
<1>1. Sound(dom', Gone')
  BY <1>g
<1>2. DyingOK'
  BY DEF DyingOK, Distinct
<1>3. CallOK' /\ OpenOK' /\ CopyingOK'
  BY DEF Return, CallOK, OpenOK, CopyingOK, Loads, Calls
<1> QED
  BY <1>1, <1>2, <1>3 DEF IInv

\* Destroying nodes: what is loose in a document under construction stays so.
LEMMA DestroyKeeps ==
  ASSUME IInv, Sound(dom', Gone'), DyingOK', UNCHANGED <<pc, target, then, open, copying>>,
         pc # "clone",
         pc \in Loads \cup {"discard"} => LooseOf(dom', Gone', target) = LooseOf(dom, Gone, target)
  PROVE  IInv'
<1>1. CallOK' /\ CopyingOK'
  BY DEF IInv, CallOK, CopyingOK, Loads
<1>2. open' \in Seq(Places)
  BY DEF IInv, OpenOK
<1>3. ASSUME pc \in Loads \cup {"discard"}
      PROVE  /\ target \in Docs
             /\ \A n \in Nodes : Loose(n)' <=> Loose(n)
             /\ \A n \in Nodes : In(dom'.unlinked[target], n) <=> In(dom.unlinked[target], n)
  <2>1. target \in Docs
    BY <1>3 DEF IInv, CallOK, Loads
  <2>2. Sound(dom, Gone)
    BY DEF IInv
  <2> QED
    BY <1>3, <2>1, <2>2, ListedLoose DEF Loose
<1>4. ASSUME pc \in Loads
      PROVE  /\ Len(open) > 0 /\ open[1] = target
             /\ \A i \in DOMAIN open : i > 1 => Loose(open[i])'
             /\ Distinct(open)
             /\ \A n \in Nodes : In(dom'.unlinked[target], n) => In(open, n)
  <2>1. /\ Len(open) > 0 /\ open[1] = target /\ Distinct(open)
        /\ \A i \in DOMAIN open : i > 1 => Loose(open[i])
        /\ \A n \in Nodes : In(dom.unlinked[target], n) => In(open, n)
    BY <1>4 DEF IInv, OpenOK
  <2>2. \A i \in DOMAIN open : i > 1 => open[i] \in Nodes
    BY <2>1 DEF Loose, LooseOf
  <2> QED
    BY <1>3, <1>4, <2>1, <2>2
<1>5. ASSUME pc = "discard" PROVE dom'.unlinked[target] = <<>>
  <2>1. dom.unlinked[target] = <<>>
    BY <1>5 DEF IInv, OpenOK
  <2>2. dom'.unlinked[target] \in Seq(Nodes)
    BY <1>3, <1>5, ListedLoose
  <2> QED
    BY <1>3, <1>5, <2>1, <2>2 DEF In
<1>6. OpenOK'
  BY <1>2, <1>4, <1>5 DEF OpenOK
<1> QED
  BY <1>1, <1>6 DEF IInv

\* The first child of a place leaves the tree to be destroyed.
LEMMA DeleteFirstKeeps ==
  ASSUME IInv, NEW p \in Places, DeleteFirst(p), dying = <<>>, pc # "clone"
  PROVE  IInv'
<1> DEFINE k == dom.first[p]
<1>1. Sound(dom, {}) /\ Links(dom) /\ OfOneDocument(dom) /\ dom \in DomType
  BY NoneGone DEF IInv, Sound, Tree
<1>2. k \in Nodes /\ dom.parent[k] = p /\ p # Null
  BY <1>1, DomAssumption DEF DeleteFirst, Links, Places
<1>3. dom' = LeaveTree(dom, k) /\ dying' = <<k>>
  BY DEF DeleteFirst
<1> HIDE DEF k
<1>4. Sound(dom', {k}) /\ Moved(dom, dom', k, Null)
  BY <1>1, <1>2, <1>3, LeaveSound
<1>5. \A m \in Nodes : dom'.parent[m] = IF m = k THEN Null ELSE dom.parent[m]
  BY <1>1, <1>4 DEF Moved, DomType, PointerType, Places
<1>6. Gone' = {k} /\ DyingOK'
  BY <1>1, <1>2, <1>3, <1>4, <1>5, OneGone DEF Moved, OfOneDocument
<1>7. LooseOf(dom', Gone', target) = LooseOf(dom, Gone, target)
  BY <1>2, <1>4, <1>5, <1>6, NoneGone DEF LooseOf, Moved
<1> QED
  BY <1>4, <1>6, <1>7, DestroyKeeps DEF DeleteFirst

\* A destructor destroys its first child.
LEMMA DestroyChildKeeps ==
  ASSUME IInv, DestroyChild
  PROVE  IInv'
<1> DEFINE x == LastOf(dying)
           k == dom.first[x]
<1>1. Sound(dom, Gone) /\ Links(dom) /\ OfOneDocument(dom) /\ dom \in DomType
  BY DEF IInv, Sound, Tree
<1>2. dying \in Seq(Nodes) /\ Len(dying) > 0 /\ x \in Nodes
  BY DEF IInv, DyingOK, DestroyChild, LastOf
<1>3. k \in Nodes /\ dom.parent[k] = x /\ x # Null
  BY <1>1, <1>2, DomAssumption DEF DestroyChild, Links, Places
<1>4. dom' = LeaveTree(dom, k) /\ dying' = Append(dying, k)
  BY DEF DestroyChild
<1> HIDE DEF k, x
<1>5. Sound(dom', Gone \cup {k}) /\ Moved(dom, dom', k, Null)
  BY <1>1, <1>3, <1>4, LeaveSound
<1>6. \A m \in Nodes : dom'.parent[m] = IF m = k THEN Null ELSE dom.parent[m]
  BY <1>1, <1>5 DEF Moved, DomType, PointerType, Places
<1>7. Gone' = Gone \cup {k}
  BY <1>2, <1>4 DEF Gone
<1>8. \A i \in DOMAIN dying : dying[i] # k
  BY <1>3 DEF IInv, DyingOK
<1>9. DyingOK'
  <2>1. Distinct(dying')
    BY <1>2, <1>4, <1>8 DEF IInv, DyingOK, Distinct
  <2>2. \A i \in DOMAIN dying' : dom'.doc[dying'[i]] # Null /\ dom'.parent[dying'[i]] = Null
    BY <1>1, <1>2, <1>3, <1>4, <1>5, <1>6 DEF IInv, DyingOK, Moved, OfOneDocument
  <2> QED
    BY <1>2, <1>3, <1>4, <2>1, <2>2 DEF DyingOK
<1>10. LooseOf(dom', Gone', target) = LooseOf(dom, Gone, target)
  BY <1>3, <1>5, <1>6, <1>7 DEF LooseOf, Moved
<1>11. pc # "clone"
  BY DEF IInv, CopyingOK, DestroyChild
<1> QED
  BY <1>5, <1>7, <1>9, <1>10, <1>11, DestroyKeeps DEF DestroyChild

\* A destructor without children gives the memory back.
LEMMA DestroyNodeKeeps ==
  ASSUME IInv, DestroyNode
  PROVE  IInv'
<1> DEFINE x == LastOf(dying)
<1>1. Sound(dom, Gone) /\ dom \in DomType
  BY DEF IInv, Sound, Tree
<1>2. /\ dying \in Seq(Nodes) /\ Len(dying) > 0 /\ x \in Nodes /\ dom.parent[x] = Null
      /\ Len(dying) \in DOMAIN dying /\ dying[Len(dying)] = x
  BY DEF IInv, DyingOK, DestroyNode, LastOf
<1>3. dom.first[x] = Null /\ dom' = Free(dom, x) /\ dying' = AllButLast(dying)
  BY DEF DestroyNode
<1> HIDE DEF x
<1>4. x \in Gone
  BY <1>2 DEF Gone
<1>5. Sound(dom', Gone \ {x}) /\ dom'.doc = [dom.doc EXCEPT ![x] = Null] /\ dom'.parent = dom.parent
  BY <1>1, <1>2, <1>3, <1>4, FreeSound
<1>6. /\ dying' \in Seq(Nodes) /\ Len(dying') = Len(dying) - 1
      /\ \A i \in DOMAIN dying' : dying'[i] = dying[i] /\ i \in DOMAIN dying /\ i # Len(dying)
  BY <1>2, <1>3, ShorterSeq
<1>7. \A i \in DOMAIN dying : i # Len(dying) => dying[i] # x /\ i \in DOMAIN dying'
  BY <1>2, <1>6 DEF IInv, DyingOK, Distinct
<1>8. Gone' = Gone \ {x}
  BY <1>2, <1>6, <1>7 DEF Gone
<1>9. \A m \in Nodes : dom'.doc[m] = IF m = x THEN Null ELSE dom.doc[m]
  BY <1>1, <1>5 DEF DomType
<1>10. DyingOK'
  BY <1>5, <1>6, <1>7, <1>9 DEF IInv, DyingOK, Distinct
<1>11. ASSUME target \in Docs PROVE LooseOf(dom', Gone', target) = LooseOf(dom, Gone, target)
  BY <1>4, <1>5, <1>8, <1>9, <1>11, DomAssumption DEF LooseOf
<1>12. pc # "clone"
  BY DEF IInv, CopyingOK, DestroyNode
<1>13. pc \in Loads \cup {"discard"} => target \in Docs
  BY DEF IInv, CallOK
<1> QED
  BY <1>5, <1>8, <1>10, <1>11, <1>12, <1>13, DestroyKeeps DEF DestroyNode

\* Calls that delete one node: Delete, and Clear with what is not linked.
LEMMA DropKeeps ==
  ASSUME IInv, NEW n \in Nodes, dom.doc[n] # Null, dying = <<>>, pc \in {"idle", "clear"},
         dom' = DropNode(dom, n), dying' = <<n>>, UNCHANGED <<pc, target, then, open, copying>>
  PROVE  IInv'
<1>1. Sound(dom, {}) /\ dom \in DomType
  BY NoneGone DEF IInv, Sound, Tree
<1>2. Sound(dom', {n}) /\ Moved(dom, dom', n, Null)
  <2>1. {} \cup {n} = {n}
    OBVIOUS
  <2>2. Sound(DropNode(dom, n), {} \cup {n}) /\ Moved(dom, DropNode(dom, n), n, Null)
    BY <1>1, DropSound
  <2> QED
    BY <2>1, <2>2
<1>3. dom'.doc[n] # Null /\ dom'.parent[n] = Null
  BY <1>1, <1>2 DEF Moved, DomType, PointerType, Places
<1>4. Gone' = {n} /\ DyingOK'
  BY <1>3, OneGone
<1> QED
  BY <1>2, <1>4, DestroyKeeps DEF Loads

\* Clear takes the first of the unlinked nodes.
LEMMA ClearUnlinkedKeeps ==
  ASSUME IInv, ClearUnlinked
  PROVE  IInv'
<1> DEFINE u == dom.unlinked[target]
<1>1. target \in Docs /\ Sound(dom, Gone)
  BY DEF IInv, CallOK, ClearUnlinked, Running
<1>2. u \in Seq(Nodes) /\ u # <<>>
  BY <1>1, ListedLoose DEF ClearUnlinked
<1>3. 1 \in DOMAIN u /\ u[1] \in Nodes
  BY <1>2
<1>4. In(u, u[1])
  BY <1>3 DEF In
<1>5. u[1] \in LooseOf(dom, Gone, target)
  BY <1>1, <1>3, <1>4, ListedLoose
<1>6. dom.doc[u[1]] # Null
  BY <1>1, <1>5, DomAssumption DEF LooseOf
<1> QED
  BY <1>3, <1>6, DropKeeps DEF ClearUnlinked, Running

\* DeleteChildren starts.
LEMMA DeleteChildrenKeeps ==
  ASSUME IInv, NEW p \in Places, DeleteChildren(p)
  PROVE  IInv'
<1>1. dying' = dying /\ dom' = dom /\ open' = open /\ copying' = copying /\ then' = then
      /\ pc' = "empty" /\ target' = p
  BY DEF DeleteChildren
<1>2. Gone' = Gone /\ Sound(dom', Gone') /\ DyingOK'
  BY <1>1 DEF IInv, Gone, DyingOK
<1> QED
  BY <1>1, <1>2 DEF IInv, CallOK, OpenOK, CopyingOK, Loads, Calls

\* Clear starts, for itself or for a parse or copy.
LEMMA StartClearKeeps ==
  ASSUME IInv, NEW d \in Docs, NEW c, StartClear(d, c),
         \/ c \in {"idle"} \cup Loads /\ copying' = copying
         \/ /\ c = "clone"
            /\ \E s \in Docs : copying' = <<Frame(s, d, dom.first[s])>>
  PROVE  IInv'
<1>1. dying' = dying /\ dom' = dom /\ open' = open /\ then' = c /\ pc' = "clear" /\ target' = d
  BY DEF StartClear
<1>2. Gone' = Gone /\ Sound(dom', Gone') /\ DyingOK'
  BY <1>1 DEF IInv, Gone, DyingOK
<1>3. CallOK' /\ OpenOK'
  <2>1. c \in {"idle", "clone"} \cup Loads
    OBVIOUS
  <2>2. CallOK'
    BY <1>1, <2>1 DEF CallOK, Calls, Places
  <2>3. OpenOK'
    BY <1>1 DEF IInv, OpenOK, Loads
  <2> QED
    BY <2>2, <2>3
<1>4. CopyingOK'
  <2>1. CASE c \in {"idle"} \cup Loads /\ copying' = copying
    BY <1>1, <2>1 DEF IInv, CopyingOK, Loads
  <2>2. CASE c = "clone" /\ \E s \in Docs : copying' = <<Frame(s, d, dom.first[s])>>
    <3>1. PICK s \in Docs : copying' = <<Frame(s, d, dom.first[s])>>
      BY <2>2
    <3>2. dom.first[s] \in Places \cup {Null}
      BY DEF IInv, Sound, Tree, DomType, PointerType, Places
    <3>3. Frame(s, d, dom.first[s]) \in [from : Places, to : Places, at : Places \cup {Null}]
      BY <3>2 DEF Frame, Places
    <3>4. copying' \in Seq([from : Places, to : Places, at : Places \cup {Null}])
          /\ Len(copying') = 1 /\ copying'[1].to = d
      BY <3>1, <3>3 DEF Frame
    <3> QED
      BY <1>1, <3>4 DEF CopyingOK
  <2> QED
    BY <2>1, <2>2
<1> QED
  BY <1>2, <1>3, <1>4 DEF IInv

\* Clear returns, or goes on to the parse or copy it was for.
LEMMA ClearReturnKeeps ==
  ASSUME IInv, ClearReturn
  PROVE  IInv'
<1>1. dying = <<>> /\ dying' = <<>> /\ dom' = dom /\ pc = "clear" /\ dom.unlinked[target] = <<>>
  BY DEF ClearReturn, Running
<1>2. Gone = {} /\ Gone' = {} /\ target \in Docs
  BY <1>1 DEF Gone, IInv, CallOK
<1>3. Sound(dom', {})
  BY <1>1, <1>2 DEF IInv
<1>4. CASE then = "idle"
  BY <1>1, <1>3, <1>4, ReturnKeeps DEF ClearReturn
<1>5. CASE then # "idle"
  <2>1. /\ pc' = then /\ target' = target /\ then' = then /\ copying' = copying
        /\ open' = IF then \in Loads THEN <<target>> ELSE open
    BY <1>5 DEF ClearReturn
  <2>2. then \in Loads \cup {"clone"} /\ "clone" \notin Loads /\ "discard" \notin Loads
    BY <1>5 DEF IInv, CallOK, Loads
  <2>3. DyingOK' /\ Sound(dom', Gone')
    BY <1>1, <1>2, <1>3 DEF IInv, DyingOK
  <2>4. CallOK'
    BY <1>2, <2>1, <2>2 DEF IInv, CallOK, Calls, Loads
  <2>5. OpenOK'
    <3>1. CASE then \in Loads
      <4>1. open' = <<target>> /\ target \in Places
        BY <1>2, <2>1, <3>1 DEF Places
      <4> QED
        BY <1>1, <2>1, <2>2, <3>1, <4>1 DEF OpenOK, Distinct, In
    <3>2. CASE then \notin Loads
      BY <2>1, <2>2, <3>2 DEF IInv, OpenOK
    <3> QED
      BY <3>1, <3>2
  <2>6. CopyingOK'
    <3>1. CASE then = "clone"
      <4>1. /\ copying \in Seq([from : Places, to : Places, at : Places \cup {Null}])
            /\ Len(copying) = 1 /\ copying[1].to = target
        BY <1>1, <3>1 DEF IInv, CopyingOK
      <4>2. \A i \in DOMAIN copying : i = 1
        BY <4>1
      <4> QED
        BY <1>1, <2>1, <3>1, <4>1, <4>2 DEF CopyingOK
    <3>2. CASE then # "clone"
      BY <1>1, <2>1, <2>2, <3>2 DEF IInv, CopyingOK, Loads
    <3> QED
      BY <3>1, <3>2
  <2> QED
    BY <2>3, <2>4, <2>5, <2>6 DEF IInv
<1> QED
  BY <1>4, <1>5

-----------------------------------------------------------------------------
\* Parsing.  A node that is not in use hangs nowhere, and nothing hangs on it.
LEMMA UnusedAlone ==
  ASSUME NEW D, NEW gone, Sound(D, gone), NEW n \in Nodes, D.doc[n] = Null
  PROVE  D.parent[n] = Null /\ \A x \in Places : D.parent[x] # n
<1>1. OfOneDocument(D) /\ D \in DomType /\ \A d \in Docs : D.parent[d] = Null
  BY DEF Sound, Tree
<1>2. ASSUME NEW x \in Nodes PROVE D.parent[x] # n
  BY <1>1, DomAssumption DEF OfOneDocument, NodesOf, DomType
<1> QED
  BY <1>1, <1>2, DomAssumption DEF OfOneDocument, Places

\* The state in which a parse goes on.
LEMMA ParsingOK ==
  ASSUME IInv, pc \in Loads, dying = <<>>
  PROVE  /\ Sound(dom, {}) /\ dom \in DomType /\ target \in Docs /\ Gone = {}
         /\ open \in Seq(Places) /\ Len(open) > 0 /\ open[1] = target /\ Distinct(open)
         /\ \A i \in DOMAIN open : i > 1 => open[i] \in LooseOf(dom, {}, target)
         /\ \A n \in Nodes : n \in LooseOf(dom, {}, target) => In(open, n)
<1>1. Gone = {}
  BY NoneGone
<1>2. target \in Docs
  BY DEF IInv, CallOK
<1>3. Sound(dom, {})
  BY <1>1 DEF IInv
<1>4. \A n \in Nodes : In(dom.unlinked[target], n) <=> n \in LooseOf(dom, {}, target)
  BY <1>2, <1>3, ListedLoose
<1> QED
  BY <1>1, <1>2, <1>3, <1>4 DEF IInv, OpenOK, Loose, Sound, Tree

\* What a step of a parse must keep.
LEMMA ParseKeeps ==
  ASSUME IInv, pc \in Loads, UNCHANGED <<pc, target, then, copying>>,
         Sound(dom', Gone'), DyingOK',
         open' \in Seq(Places), Len(open') > 0, open'[1] = target, Distinct(open'),
         \A i \in DOMAIN open' : i > 1 => open'[i] \in LooseOf(dom', Gone', target),
         \A n \in Nodes : n \in LooseOf(dom', Gone', target) => In(open', n)
  PROVE  IInv'
<1>1. CallOK' /\ target \in Docs
  BY DEF IInv, CallOK, Loads
<1>2. CopyingOK'
  BY DEF IInv, CopyingOK, Loads
<1>3. pc # "discard"
  BY DEF Loads
<1>4. \A n \in Nodes : In(dom'.unlinked[target], n) => In(open', n)
  BY <1>1, ListedLoose
<1>5. OpenOK'
  BY <1>3, <1>4 DEF OpenOK, Loose
<1> QED
  BY <1>1, <1>2, <1>5 DEF IInv

\* Where the last of open is: the document, or a node of it that hangs nowhere.
LEMMA OpenPlace ==
  ASSUME IInv, pc \in Loads, dying = <<>>, NEW i \in DOMAIN open
  PROVE  /\ open[i] \in Places
         /\ open[i] = target \/ open[i] \in NodesOf(dom, target)
         /\ dom.parent[open[i]] = Null
<1>1. /\ Sound(dom, {}) /\ target \in Docs
      /\ open \in Seq(Places) /\ open[1] = target
      /\ \A j \in DOMAIN open : j > 1 => open[j] \in LooseOf(dom, {}, target)
  BY ParsingOK
<1>2. i \in Nat /\ i >= 1
  BY <1>1
<1>3. CASE i = 1
  BY <1>1, <1>3 DEF Sound, Places
<1>4. CASE i > 1
  BY <1>1, <1>4 DEF LooseOf, NodesOf, Places
<1> QED
  BY <1>2, <1>3, <1>4

\* A node without children may be put where the parse is.
LEMMA ParseLeafMoves ==
  ASSUME IInv, NEW n \in Nodes, ParseLeaf(n)
  PROVE  LET C == CreateUnlinkedNode(dom, target, n)
         IN /\ dom' = InsertEndChild(C, LastOf(open), n) /\ MayMove(C, {}, LastOf(open), n)
            /\ C.doc = [dom.doc EXCEPT ![n] = target] /\ C.parent = dom.parent
<1> DEFINE p == LastOf(open)
           C == CreateUnlinkedNode(dom, target, n)
<1>1. pc \in Loads /\ dying = <<>> /\ dom.doc[n] = Null /\ dom' = InsertEndChild(C, p, n)
  BY DEF ParseLeaf, Parsing, Unused, Alive
<1> HIDE DEF p
<1>2. Sound(dom, {}) /\ dom \in DomType /\ target \in Docs /\ open \in Seq(Places) /\ Len(open) > 0
  BY <1>1, ParsingOK
<1>3. p \in Places /\ (p = target \/ p \in NodesOf(dom, target))
  BY <1>1, <1>2, OpenPlace DEF LastOf, p
<1>4. Sound(C, {}) /\ C.doc = [dom.doc EXCEPT ![n] = target] /\ C.parent = dom.parent
  <2>1. dom.doc[n] = Null /\ n \notin {} /\ target \in Docs /\ Sound(dom, {})
    BY <1>1, <1>2
  <2> QED
    BY <2>1, CreateSound
<1>5. dom.parent[n] = Null /\ \A x \in Places : dom.parent[x] # n
  BY <1>1, <1>2, UnusedAlone
<1> HIDE DEF C
<1>6. NotAbove(C, n, p)
  <2> DEFINE line == Places \ {n}
  <2>1. p # n
    BY <1>1, <1>2, <1>3, DomAssumption DEF NodesOf
  <2>2. \A x \in line : C.parent[x] = Null \/ C.parent[x] \in line
    BY <1>2, <1>4, <1>5 DEF DomType, PointerType
  <2>3. p \in line /\ n \notin line /\ line \in SUBSET Places
    BY <1>3, <2>1
  <2> QED
    BY <2>2, <2>3 DEF NotAbove
<1>7. \A m \in Nodes : C.doc[m] = IF m = n THEN target ELSE dom.doc[m]
  BY <1>2, <1>4 DEF DomType
<1>8. MayMove(C, {}, p, n)
  BY <1>2, <1>3, <1>4, <1>6, <1>7, DomAssumption DEF MayMove, NodesOf
<1> QED
  BY <1>1, <1>4, <1>8 DEF C, p

\* A parse reads a node without children.
LEMMA ParseLeafKeeps ==
  ASSUME IInv, NEW n \in Nodes, ParseLeaf(n)
  PROVE  IInv'
<1> DEFINE p == LastOf(open)
           C == CreateUnlinkedNode(dom, target, n)
<1>1. /\ pc \in Loads /\ dying = <<>> /\ dying' = <<>> /\ dom.doc[n] = Null
      /\ UNCHANGED <<pc, target, then, open, copying>>
  BY DEF ParseLeaf, Parsing, Unused, Alive
<1>2. /\ Sound(dom, {}) /\ dom \in DomType /\ target \in Docs
      /\ open \in Seq(Places) /\ Len(open) > 0 /\ open[1] = target /\ Distinct(open)
      /\ \A i \in DOMAIN open : i > 1 => open[i] \in LooseOf(dom, {}, target)
      /\ \A m \in Nodes : m \in LooseOf(dom, {}, target) => In(open, m)
  BY <1>1, ParsingOK
<1>3. /\ dom' = InsertEndChild(C, p, n) /\ MayMove(C, {}, p, n)
      /\ C.doc = [dom.doc EXCEPT ![n] = target] /\ C.parent = dom.parent
  BY ParseLeafMoves
<1> HIDE DEF C, p
<1>7. \A m \in Nodes : C.doc[m] = IF m = n THEN target ELSE dom.doc[m]
  BY <1>2, <1>3 DEF DomType
<1>9. Sound(dom', {}) /\ Moved(C, dom', n, p)
  BY <1>3, EndSound
<1>10. \A m \in Nodes : dom'.parent[m] = IF m = n THEN p ELSE dom.parent[m]
  BY <1>2, <1>3, <1>9 DEF Moved, DomType, PointerType, Places
<1>11. LooseOf(dom', {}, target) = LooseOf(dom, {}, target)
  <2>1. p # Null
    BY <1>3, DomAssumption DEF MayMove, Places
  <2> QED
    BY <1>1, <1>2, <1>7, <1>9, <1>10, <2>1, DomAssumption DEF LooseOf, Moved
<1>12. Gone' = {} /\ DyingOK'
  BY <1>1 DEF Gone, DyingOK, Distinct
<1>13. Sound(dom', Gone')
  BY <1>9, <1>12
<1> QED
  BY <1>1, <1>2, <1>11, <1>12, <1>13, ParseKeeps

\* A parse reads an opening tag.
LEMMA ParseOpenKeeps ==
  ASSUME IInv, NEW n \in Nodes, ParseOpen(n)
  PROVE  IInv'
<1>1. /\ pc \in Loads /\ dying = <<>> /\ dying' = <<>> /\ dom.doc[n] = Null
      /\ dom' = CreateUnlinkedNode(dom, target, n) /\ open' = Append(open, n)
      /\ UNCHANGED <<pc, target, then, copying>>
  BY DEF ParseOpen, Parsing, Unused, Alive
<1>2. /\ Sound(dom, {}) /\ dom \in DomType /\ target \in Docs
      /\ open \in Seq(Places) /\ Len(open) > 0 /\ open[1] = target /\ Distinct(open)
      /\ \A i \in DOMAIN open : i > 1 => open[i] \in LooseOf(dom, {}, target)
      /\ \A m \in Nodes : m \in LooseOf(dom, {}, target) => In(open, m)
  BY <1>1, ParsingOK
<1>3. Sound(dom', {}) /\ dom'.doc = [dom.doc EXCEPT ![n] = target] /\ dom'.parent = dom.parent
  BY <1>1, <1>2, CreateSound
<1>4. dom.parent[n] = Null
  BY <1>1, <1>2, UnusedAlone
<1>5. \A m \in Nodes : m \in LooseOf(dom', {}, target) <=> m = n \/ m \in LooseOf(dom, {}, target)
  BY <1>2, <1>3, <1>4 DEF LooseOf, DomType
<1>6. \A i \in DOMAIN open : open[i] # n
  BY <1>1, <1>2, OpenPlace, DomAssumption DEF NodesOf
<1>7. /\ open' \in Seq(Places) /\ Len(open') = Len(open) + 1 /\ open'[Len(open) + 1] = n
      /\ \A i \in DOMAIN open : i \in DOMAIN open' /\ open'[i] = open[i]
      /\ \A i \in DOMAIN open' : i = Len(open) + 1 \/ i \in DOMAIN open
      /\ Len(open) + 1 \in DOMAIN open' /\ Len(open) \in Nat /\ 1 \in DOMAIN open
  BY <1>1, <1>2 DEF Places
<1>8. Distinct(open')
  BY <1>2, <1>6, <1>7 DEF Distinct
<1>9. \A i \in DOMAIN open' : i > 1 => open'[i] \in LooseOf(dom', {}, target)
  <2> SUFFICES ASSUME NEW i \in DOMAIN open', i > 1 PROVE open'[i] \in LooseOf(dom', {}, target)
    OBVIOUS
  <2>1. CASE i = Len(open) + 1
    BY <1>5, <1>7, <2>1
  <2>2. CASE i \in DOMAIN open
    <3>1. open[i] \in LooseOf(dom, {}, target) /\ open[i] \in Nodes
      BY <1>2, <2>2 DEF LooseOf
    <3> QED
      BY <1>5, <1>7, <2>2, <3>1
  <2> QED
    BY <1>7, <2>1, <2>2
<1>10. \A m \in Nodes : m \in LooseOf(dom', {}, target) => In(open', m)
  BY <1>2, <1>5, <1>7 DEF In
<1>11. Gone' = {} /\ DyingOK'
  BY <1>1 DEF Gone, DyingOK, Distinct
<1>12. Sound(dom', Gone') /\ Len(open') > 0 /\ open'[1] = target
  BY <1>2, <1>3, <1>7, <1>11
<1> QED
  BY <1>1, <1>7, <1>8, <1>9, <1>10, <1>11, <1>12, ParseKeeps

\* A parse meets an error at a node.
LEMMA ParseBadKeeps ==
  ASSUME IInv, NEW n \in Nodes, ParseBad(n)
  PROVE  IInv'
<1> DEFINE C == CreateUnlinkedNode(dom, target, n)
<1>1. /\ pc \in Loads /\ dying = <<>> /\ dying' = <<n>> /\ dom.doc[n] = Null
      /\ dom' = DropNode(C, n) /\ UNCHANGED <<pc, target, then, open, copying>>
  BY DEF ParseBad, Parsing, Unused, Alive
<1>2. /\ Sound(dom, {}) /\ dom \in DomType /\ target \in Docs
      /\ open \in Seq(Places) /\ Len(open) > 0 /\ open[1] = target /\ Distinct(open)
      /\ \A i \in DOMAIN open : i > 1 => open[i] \in LooseOf(dom, {}, target)
      /\ \A m \in Nodes : m \in LooseOf(dom, {}, target) => In(open, m)
  BY <1>1, ParsingOK
<1>3. Sound(C, {}) /\ C.doc = [dom.doc EXCEPT ![n] = target] /\ C.parent = dom.parent
  BY <1>1, <1>2, CreateSound
<1>4. dom.parent[n] = Null
  BY <1>1, <1>2, UnusedAlone
<1> HIDE DEF C
<1>5. \A m \in Nodes : C.doc[m] = IF m = n THEN target ELSE dom.doc[m]
  BY <1>2, <1>3 DEF DomType
<1>6. Sound(dom', {n}) /\ Moved(C, dom', n, Null)
  <2>1. {} \cup {n} = {n} /\ C.doc[n] # Null
    BY <1>2, <1>5, DomAssumption
  <2>2. Sound(DropNode(C, n), {} \cup {n}) /\ Moved(C, DropNode(C, n), n, Null)
    BY <1>3, <2>1, DropSound
  <2> QED
    BY <1>1, <2>1, <2>2
<1>7. dom'.parent = dom.parent /\ dom'.doc = C.doc
  BY <1>2, <1>3, <1>4, <1>6 DEF Moved, DomType, PointerType
<1>8. Gone' = {n} /\ DyingOK'
  BY <1>1, <1>2, <1>4, <1>5, <1>7, OneGone, DomAssumption
<1>9. LooseOf(dom', Gone', target) = LooseOf(dom, {}, target)
  BY <1>1, <1>2, <1>5, <1>7, <1>8, DomAssumption DEF LooseOf
<1>10. Sound(dom', Gone')
  BY <1>6, <1>8
<1> QED
  BY <1>1, <1>2, <1>8, <1>9, <1>10, ParseKeeps

\* The last of open is open no more: it hangs below its element now, or it is
\* being deleted.
LEMMA OpenLess ==
  ASSUME IInv, pc \in Loads, dying = <<>>, Len(open) > 1,
         open' = AllButLast(open), UNCHANGED <<pc, target, then, copying>>,
         Sound(dom', Gone'), DyingOK',
         \A m \in Nodes : m \in LooseOf(dom', Gone', target)
                            <=> m \in LooseOf(dom, {}, target) /\ m # LastOf(open)
  PROVE  IInv'
<1>1. /\ open \in Seq(Places) /\ open[1] = target /\ Distinct(open)
      /\ \A i \in DOMAIN open : i > 1 => open[i] \in LooseOf(dom, {}, target)
      /\ \A m \in Nodes : m \in LooseOf(dom, {}, target) => In(open, m)
  BY ParsingOK
<1>2. /\ open' \in Seq(Places) /\ Len(open') = Len(open) - 1
      /\ \A i \in DOMAIN open' : open'[i] = open[i] /\ i \in DOMAIN open /\ i # Len(open)
      /\ \A i \in DOMAIN open : i # Len(open) => i \in DOMAIN open'
  BY <1>1, ShorterSeq
<1>3. Len(open) \in DOMAIN open /\ 1 \in DOMAIN open /\ LastOf(open) = open[Len(open)]
  BY <1>1 DEF LastOf
<1>4. \A i \in DOMAIN open' : open[i] # LastOf(open)
  BY <1>1, <1>2, <1>3 DEF Distinct
<1>5. Len(open') > 0 /\ open'[1] = target /\ Distinct(open')
  BY <1>1, <1>2, <1>3 DEF Distinct
<1>6. \A i \in DOMAIN open' : i > 1 => open'[i] \in LooseOf(dom', Gone', target)
  <2> SUFFICES ASSUME NEW i \in DOMAIN open', i > 1 PROVE open'[i] \in LooseOf(dom', Gone', target)
    OBVIOUS
  <2>1. open[i] \in LooseOf(dom, {}, target) /\ open[i] \in Nodes
    BY <1>1, <1>2 DEF LooseOf
  <2> QED
    BY <1>2, <1>4, <2>1
<1>7. \A m \in Nodes : m \in LooseOf(dom', Gone', target) => In(open', m)
  BY <1>1, <1>2, <1>3 DEF In
<1> QED
  BY <1>2, <1>5, <1>6, <1>7, ParseKeeps

\* A parse finds nothing but blanks.
LEMMA ParseNothingKeeps ==
  ASSUME IInv, ParseNothing
  PROVE  IInv'
<1>1. /\ pc \in Loads /\ dying = <<>> /\ dying' = <<>> /\ dom' = dom
      /\ UNCHANGED <<pc, target, then, open, copying>>
  BY DEF ParseNothing, Parsing
<1>2. Gone' = Gone /\ Sound(dom', Gone') /\ DyingOK' /\ LooseOf(dom', Gone', target) = LooseOf(dom, Gone, target)
  BY <1>1 DEF IInv, Gone, DyingOK
<1>3. pc # "clone"
  BY <1>1 DEF Loads
<1> QED
  BY <1>1, <1>2, <1>3, DestroyKeeps

\* An element that ends may be put below the one it is in, once its closing
\* tag, for which a node was made, is gone.
LEMMA ParseCloseMoves ==
  ASSUME IInv, NEW n \in Nodes, ParseClose(n)
  PROVE  LET C == CreateUnlinkedNode(dom, target, n)
             D == DropNode(C, n)
             F == Free(D, n)
             e == LastOf(open)
             p == open[Len(open) - 1]
         IN /\ dom' = InsertEndChild(F, p, e) /\ MayMove(F, {}, p, e)
            /\ F.doc = dom.doc /\ F.parent = dom.parent /\ e \in LooseOf(dom, {}, target)
            /\ Sound(C, {}) /\ C.doc[n] # Null /\ Sound(D, {n}) /\ D.parent[n] = Null /\ D.first[n] = Null
<1> DEFINE C == CreateUnlinkedNode(dom, target, n)
           D == DropNode(C, n)
           F == Free(D, n)
           e == LastOf(open)
           p == open[Len(open) - 1]
<1>1. /\ pc \in Loads /\ dying = <<>> /\ dying' = <<>> /\ dom.doc[n] = Null /\ Len(open) > 1
      /\ open' = AllButLast(open) /\ UNCHANGED <<pc, target, then, copying>>
  BY DEF ParseClose, Parsing, Unused, Alive
<1>2. /\ Sound(dom, {}) /\ dom \in DomType /\ target \in Docs
      /\ open \in Seq(Places) /\ Len(open) > 0 /\ open[1] = target /\ Distinct(open)
      /\ \A i \in DOMAIN open : i > 1 => open[i] \in LooseOf(dom, {}, target)
      /\ \A m \in Nodes : m \in LooseOf(dom, {}, target) => In(open, m)
  BY <1>1, ParsingOK
<1>3. Sound(C, {}) /\ C.doc = [dom.doc EXCEPT ![n] = target] /\ C.parent = dom.parent
  BY <1>1, <1>2, CreateSound
<1>4. dom.parent[n] = Null /\ dom.first[n] = Null
  BY <1>1, <1>2 DEF Sound, Tree, OfOneDocument
<1>5. D = LeaveTree(SetTracked(C, n), n) /\ C.first = dom.first
  BY <1>2, <1>3, <1>4 DEF DropNode, CreateUnlinkedNode, DomType
<1>6. dom' = InsertEndChild(F, p, e)
  BY <1>5 DEF ParseClose
<1> HIDE DEF C
<1>7. \A m \in Nodes : C.doc[m] = IF m = n THEN target ELSE dom.doc[m]
  BY <1>2, <1>3 DEF DomType
<1>8. Sound(D, {n}) /\ Moved(C, D, n, Null)
  <2>1. {} \cup {n} = {n} /\ C.doc[n] # Null /\ n \notin {} /\ Sound(C, {})
    BY <1>2, <1>3, <1>7, DomAssumption
  <2> HIDE DEF D
  <2>2. Sound(DropNode(C, n), {} \cup {n}) /\ Moved(C, DropNode(C, n), n, Null)
    BY <2>1, DropSound
  <2> QED
    BY <2>1, <2>2 DEF D
<1>9. D.first = dom.first
  <2>1. C.parent[n] = Null
    BY <1>3, <1>4
  <2>2. C \in DomType /\ \A d \in Docs : Distinct(C.unlinked[d])
    BY <1>3 DEF Sound, Tree, Listed
  <2>3. D = MarkInUse(SetTracked(C, n), n)
    BY <1>5, <2>1 DEF LeaveTree, SetTracked
  <2>4. C.doc[n] # Null
    BY <1>2, <1>7, DomAssumption
  <2>5. Forgotten(C, MarkInUse(SetTracked(C, n), n), n)
    BY <2>2, <2>4, MarkInUseForgets
  <2> QED
    BY <1>5, <2>3, <2>5 DEF Forgotten, SameTree
<1>10. D.doc = C.doc /\ D.parent = dom.parent
  BY <1>2, <1>3, <1>4, <1>8 DEF Moved, DomType, PointerType
<1> HIDE DEF D
<1>11. Sound(F, {}) /\ F.doc = dom.doc /\ F.parent = dom.parent
  <2>1. D.parent[n] = Null /\ D.first[n] = Null /\ n \in {n} /\ {n} \ {n} = {}
    BY <1>4, <1>9, <1>10
  <2>2. Sound(F, {n} \ {n}) /\ F.doc = [D.doc EXCEPT ![n] = Null] /\ F.parent = D.parent
    BY <1>8, <2>1, FreeSound
  <2>3. [D.doc EXCEPT ![n] = Null] = dom.doc
    BY <1>1, <1>2, <1>3, <1>10 DEF DomType
  <2> QED
    BY <1>10, <2>1, <2>2, <2>3
<1> HIDE DEF F
<1>12. /\ Len(open) \in DOMAIN open /\ Len(open) - 1 \in DOMAIN open /\ 1 \in DOMAIN open
       /\ e = open[Len(open)] /\ e \in LooseOf(dom, {}, target)
  BY <1>1, <1>2 DEF LastOf
<1>13. /\ p \in Places /\ (p = target \/ p \in NodesOf(dom, target)) /\ dom.parent[p] = Null
  <2>1. pc \in Loads /\ dying = <<>> /\ Len(open) - 1 \in DOMAIN open
    BY <1>1, <1>12
  <2> QED
    BY <2>1, OpenPlace
<1>14. e \in Nodes /\ dom.doc[e] = target /\ dom.parent[e] = Null /\ p # e
  BY <1>1, <1>2, <1>12 DEF LooseOf, Distinct
<1> HIDE DEF e, p
<1>15. NotAbove(F, e, p)
  <2>1. {p} \in SUBSET Places /\ p \in {p} /\ e \notin {p} /\ \A x \in {p} : F.parent[x] = Null
    BY <1>11, <1>13, <1>14
  <2> QED
    BY <2>1 DEF NotAbove
<1>16. MayMove(F, {}, p, e)
  BY <1>2, <1>11, <1>13, <1>14, <1>15, DomAssumption DEF MayMove, NodesOf
<1> QED
  BY <1>2, <1>3, <1>4, <1>6, <1>7, <1>8, <1>9, <1>10, <1>11, <1>12, <1>16, DomAssumption DEF C, D, F, e, p

\* An element is complete: it hangs below the one that was opened before.
LEMMA ParseCloseKeeps ==
  ASSUME IInv, NEW n \in Nodes, ParseClose(n)
  PROVE  IInv'
<1> DEFINE F == Free(DropNode(CreateUnlinkedNode(dom, target, n), n), n)
           e == LastOf(open)
           p == open[Len(open) - 1]
<1>1. /\ pc \in Loads /\ dying = <<>> /\ dying' = <<>> /\ Len(open) > 1
      /\ open' = AllButLast(open) /\ UNCHANGED <<pc, target, then, copying>>
  BY DEF ParseClose, Parsing
<1>2. Sound(dom, {}) /\ dom \in DomType /\ target \in Docs
  BY <1>1, ParsingOK
<1>3. /\ dom' = InsertEndChild(F, p, e) /\ MayMove(F, {}, p, e)
      /\ F.doc = dom.doc /\ F.parent = dom.parent /\ e \in LooseOf(dom, {}, target)
  BY ParseCloseMoves
<1> HIDE DEF e, p, F
<1>17. Sound(dom', {}) /\ Moved(F, dom', e, p)
  BY <1>3, EndSound
<1>18. dom'.doc = dom.doc /\ \A m \in Nodes : dom'.parent[m] = IF m = e THEN p ELSE dom.parent[m]
  BY <1>2, <1>3, <1>17 DEF Moved, DomType, PointerType, Places
<1>19. \A m \in Nodes : m \in LooseOf(dom', {}, target) <=> m \in LooseOf(dom, {}, target) /\ m # e
  <2>1. p # Null
    BY <1>3, DomAssumption DEF MayMove, Places
  <2> QED
    BY <1>18, <2>1 DEF LooseOf
<1>20. Gone' = {} /\ DyingOK'
  BY <1>1 DEF Gone, DyingOK, Distinct
<1>21. Sound(dom', Gone')
  BY <1>17, <1>20
<1>22. \A m \in Nodes : m \in LooseOf(dom', Gone', target) <=> m \in LooseOf(dom, {}, target) /\ m # LastOf(open)
  BY <1>19, <1>20 DEF e
<1> QED
  BY <1>1, <1>20, <1>21, <1>22, OpenLess

\* The element that is open longest of all deletes nothing: the others are
\* deleted by the one that was opened before.
LEMMA DeleteOpenKeeps ==
  ASSUME IInv, pc \in Loads, dying = <<>>, Len(open) > 1, DeleteOpen
  PROVE  IInv'
<1> DEFINE e == LastOf(open)
<1>1. /\ dom' = DropNode(dom, e) /\ dying' = <<e>> /\ open' = AllButLast(open)
      /\ UNCHANGED <<pc, target, then, copying>>
  BY DEF DeleteOpen
<1>2. /\ Sound(dom, {}) /\ dom \in DomType /\ target \in Docs /\ open \in Seq(Places)
      /\ \A i \in DOMAIN open : i > 1 => open[i] \in LooseOf(dom, {}, target)
  BY ParsingOK
<1>3. e \in LooseOf(dom, {}, target)
  BY <1>2 DEF LastOf
<1>4. e \in Nodes /\ dom.doc[e] = target /\ dom.parent[e] = Null /\ dom.doc[e] # Null
  BY <1>2, <1>3, DomAssumption DEF LooseOf
<1> HIDE DEF e
<1>5. Sound(dom', {e}) /\ Moved(dom, dom', e, Null)
  <2>1. {} \cup {e} = {e}
    OBVIOUS
  <2>2. Sound(DropNode(dom, e), {} \cup {e}) /\ Moved(dom, DropNode(dom, e), e, Null)
    BY <1>2, <1>4, DropSound
  <2> QED
    BY <1>1, <2>1, <2>2
<1>6. dom'.doc = dom.doc /\ dom'.parent = dom.parent
  BY <1>2, <1>4, <1>5 DEF Moved, DomType, PointerType
<1>7. Gone' = {e} /\ DyingOK'
  BY <1>1, <1>4, <1>6, OneGone
<1>8. \A m \in Nodes : m \in LooseOf(dom', Gone', target) <=> m \in LooseOf(dom, {}, target) /\ m # e
  BY <1>6, <1>7 DEF LooseOf
<1>9. Sound(dom', Gone')
  BY <1>5, <1>7
<1> QED
  BY <1>1, <1>7, <1>8, <1>9, OpenLess DEF e

\* A parse that failed returns or goes on to discard what it made.
LEMMA UnwindReturnKeeps ==
  ASSUME IInv, UnwindReturn
  PROVE  IInv'
<1>1. pc \in Loads /\ dying = <<>> /\ dying' = dying /\ dom' = dom /\ Len(open) = 1
  BY DEF UnwindReturn, Unwinding
<1>2. /\ Sound(dom, {}) /\ target \in Docs /\ Gone = {} /\ open \in Seq(Places) /\ open[1] = target
      /\ \A m \in Nodes : m \in LooseOf(dom, {}, target) => In(open, m)
  BY <1>1, ParsingOK
<1>3. CASE pc = "file"
  BY <1>1, <1>2, <1>3, ReturnKeeps DEF UnwindReturn
<1>4. CASE pc # "file"
  <2>1. pc' = "discard" /\ open' = <<>> /\ UNCHANGED <<target, then, copying>>
    BY <1>4 DEF UnwindReturn
  <2>2. \A m \in Nodes : ~In(open, m)
    BY <1>1, <1>2, DomAssumption DEF In
  <2>3. dom.unlinked[target] = <<>>
    BY <1>2, <2>2, ListedLoose, NothingListed
  <2>4. Gone' = {} /\ DyingOK'
    BY <1>1 DEF Gone, DyingOK, Distinct
  <2>5. Sound(dom', Gone')
    BY <1>1, <1>2, <2>4
  <2>6. OpenOK' /\ CopyingOK'
    BY <1>1, <2>1, <2>3 DEF IInv, OpenOK, CopyingOK, Loads
  <2>7. CallOK'
    BY <1>2, <2>1 DEF IInv, CallOK, Calls, Loads
  <2> QED
    BY <2>4, <2>5, <2>6, <2>7 DEF IInv
<1> QED
  BY <1>3, <1>4

\* A document with neither children nor unlinked nodes has no nodes at all.
LEMMA NothingLeft ==
  ASSUME NEW D, Sound(D, {}), NEW d \in Docs, D.first[d] = Null, D.unlinked[d] = <<>>
  PROVE  NodesOf(D, d) = {} /\ D.untracked[d] = 0
<1> DEFINE S == NodesOf(D, d)
<1>1. Tree(D) /\ OfOneDocument(D) /\ NoRing(D.parent)
  BY DEF Sound, Tree
<1>2. \A n \in Nodes : n \notin LooseOf(D, {}, d)
  BY ListedLoose DEF In
<1>3. ASSUME NEW x \in S PROVE D.parent[x] \in S
  <2>1. x \in Nodes /\ D.doc[x] = d /\ D.parent[x] # Null
    BY <1>2 DEF NodesOf, LooseOf
  <2>2. D.parent[x] # d
    BY <1>1, <2>1, NoOrphans
  <2> QED
    BY <1>1, <2>1, <2>2 DEF OfOneDocument
<1>4. S = {}
  BY <1>1, <1>3 DEF NoRing, NodesOf
<1>5. D.untracked[d] = 0
  BY DEF Sound, Listed
<1> QED
  BY <1>4, <1>5

\* Giving the memory of the pools back changes nothing: it is empty.
LEMMA DiscardPoolsKeeps ==
  ASSUME IInv, DiscardPools
  PROVE  IInv'
<1>1. pc = "discard" /\ dying = <<>> /\ dying' = dying /\ dom.first[target] = Null /\ Return
  BY DEF DiscardPools, Running
<1>2. Gone = {} /\ target \in Docs /\ dom.unlinked[target] = <<>>
  BY <1>1, NoneGone DEF IInv, CallOK, OpenOK
<1>3. Sound(dom, {}) /\ dom \in DomType
  BY <1>2 DEF IInv, Sound, Tree
<1>4. NodesOf(dom, target) = {} /\ dom.untracked[target] = 0
  BY <1>1, <1>2, <1>3, NothingLeft
<1>5. [n \in Nodes |-> IF dom.doc[n] = target THEN Null ELSE dom.doc[n]] = dom.doc
  BY <1>3, <1>4 DEF DomType, NodesOf
<1>6. [dom.untracked EXCEPT ![target] = 0] = dom.untracked
  BY <1>2, <1>3, <1>4 DEF DomType
<1>7. dom' = [dom EXCEPT !.doc = [n \in Nodes |-> IF dom.doc[n] = target THEN Null ELSE dom.doc[n]],
                         !.untracked = [dom.untracked EXCEPT ![target] = 0]]
  BY <1>3 DEF DiscardPools, DomType
<1>8. dom' = dom
  BY <1>3, <1>5, <1>6, <1>7 DEF DomType
<1>9. Sound(dom', {})
  BY <1>3, <1>8
<1> QED
  BY <1>1, <1>9, ReturnKeeps

-----------------------------------------------------------------------------
\* Copying.
Frames == [from : Places, to : Places, at : Places \cup {Null}]

\* What copying is while a copy is made, for a document D and its new tree.
CopyStack(c, D, d) ==
  /\ c \in Seq(Frames) /\ Len(c) > 0
  /\ c[1].to = d \/ c[1].to \in LooseOf(D, {}, d)
  /\ \A i \in DOMAIN c : i > 1 => c[i].to \in LooseOf(D, {}, d)
  /\ \A i, j \in DOMAIN c : c[i].to = c[j].to => i = j
  /\ \A i \in DOMAIN c : i < Len(c) => c[i].at # Null

\* What a step of a copy finds.
LEMMA CloningOK ==
  ASSUME IInv, pc = "clone"
  PROVE  /\ Sound(dom, {}) /\ dom \in DomType /\ target \in Docs /\ dying = <<>>
         /\ CopyStack(copying, dom, target)
<1>1. dying = <<>> /\ target \in Docs
  BY DEF IInv, CopyingOK, CallOK
<1>2. Gone = {}
  BY <1>1, NoneGone
<1>3. Sound(dom, {}) /\ dom \in DomType
  BY <1>2 DEF IInv, Sound, Tree
<1> QED
  BY <1>1, <1>2, <1>3 DEF IInv, CopyingOK, CopyStack, Loose, Frames

\* What a step of a copy must keep.
LEMMA CloneKeeps ==
  ASSUME IInv, pc' = "clone", target' \in Docs, then' = then, open' = open,
         dying = <<>>, dying' = <<>>, Sound(dom', {}), CopyStack(copying', dom', target')
  PROVE  IInv'
<1>1. Gone' = {} /\ DyingOK'
  BY DEF Gone, DyingOK, Distinct
<1>2. CallOK'
  BY DEF IInv, CallOK, Calls, Loads, Places
<1>3. OpenOK'
  BY DEF IInv, OpenOK, Loads
<1>4. Sound(dom', Gone')
  BY <1>1
<1>5. \A x : Loose(x)' <=> x \in LooseOf(dom', {}, target')
  BY <1>1 DEF Loose
<1>6. CopyingOK'
  BY <1>5 DEF CopyingOK, CopyStack, Frames
<1> QED
  BY <1>1, <1>2, <1>3, <1>4, <1>6 DEF IInv

\* A new node is loose, and so is what was loose before.
LEMMA CreateLoose ==
  ASSUME NEW D, Sound(D, {}), NEW d \in Docs, NEW n \in Nodes, D.doc[n] = Null
  PROVE  LET C == CreateUnlinkedNode(D, d, n)
         IN Sound(C, {}) /\ LooseOf(C, {}, d) = LooseOf(D, {}, d) \cup {n} /\ n \notin LooseOf(D, {}, d)
<1> DEFINE C == CreateUnlinkedNode(D, d, n)
<1>1. Sound(C, {}) /\ C.doc = [D.doc EXCEPT ![n] = d] /\ C.parent = D.parent
  <2>1. n \notin {}
    OBVIOUS
  <2> QED
    BY <2>1, CreateSound
<1>2. D.parent[n] = Null /\ D \in DomType
  BY UnusedAlone DEF Sound, Tree
<1> HIDE DEF C
<1>3. \A m \in Nodes : C.doc[m] = IF m = n THEN d ELSE D.doc[m]
  BY <1>1, <1>2 DEF DomType
<1>4. LooseOf(C, {}, d) = LooseOf(D, {}, d) \cup {n}
  BY <1>1, <1>2, <1>3 DEF LooseOf
<1>5. n \notin LooseOf(D, {}, d)
  BY DomAssumption DEF LooseOf
<1> QED
  BY <1>1, <1>4, <1>5 DEF C

\* DeepClone of a node starts.
LEMMA DeepCloneKeeps ==
  ASSUME IInv, NEW n \in Nodes, NEW d \in Docs, NEW c \in Nodes, DeepClone(n, d, c)
  PROVE  IInv'
<1>1. /\ pc = "idle" /\ dying = <<>> /\ dying' = <<>> /\ dom.doc[c] = Null
      /\ dom' = CreateUnlinkedNode(dom, d, c) /\ copying' = <<Frame(n, c, dom.first[n])>>
      /\ pc' = "clone" /\ target' = d /\ then' = then /\ open' = open
  BY DEF DeepClone, Idle, Unused, Alive
<1>2. Sound(dom, {}) /\ dom \in DomType
  BY <1>1, NoneGone DEF IInv, Sound, Tree
<1>3. Sound(dom', {}) /\ c \in LooseOf(dom', {}, d)
  BY <1>1, <1>2, CreateLoose
<1>4. dom.first[n] \in Places \cup {Null}
  BY <1>2 DEF DomType, PointerType, Places
<1>5. Frame(n, c, dom.first[n]) \in Frames /\ Frame(n, c, dom.first[n]).to = c
  BY <1>4 DEF Frame, Frames, Places
<1>6. copying' \in Seq(Frames) /\ Len(copying') = 1 /\ copying'[1].to = c
      /\ \A i \in DOMAIN copying' : i = 1
  BY <1>1, <1>5
<1>7. CopyStack(copying', dom', d)
  BY <1>3, <1>6 DEF CopyStack
<1> QED
  BY <1>1, <1>3, <1>7, CloneKeeps

\* DeepCopy of a document starts.
LEMMA DeepCopyKeeps ==
  ASSUME IInv, NEW s \in Docs, NEW d \in Docs, DeepCopy(s, d)
  PROVE  IInv'
BY StartClearKeeps DEF DeepCopy

\* A copy makes the next child.
LEMMA CloneChildKeeps ==
  ASSUME IInv, NEW c \in Nodes, CloneChild(c)
  PROVE  IInv'
<1> DEFINE top == LastOf(copying)
           f == Frame(top.at, c, dom.first[top.at])
<1>1. /\ pc = "clone" /\ dying' = dying /\ dom.doc[c] = Null /\ top.at # Null
      /\ dom' = CreateUnlinkedNode(dom, target, c) /\ copying' = Append(copying, f)
      /\ pc' = pc /\ target' = target /\ then' = then /\ open' = open
  BY DEF CloneChild, Running, Unused, Alive
<1>2. /\ Sound(dom, {}) /\ dom \in DomType /\ target \in Docs /\ dying = <<>>
      /\ CopyStack(copying, dom, target)
  BY <1>1, CloningOK
<1>3. /\ Sound(dom', {}) /\ LooseOf(dom', {}, target) = LooseOf(dom, {}, target) \cup {c}
      /\ c \notin LooseOf(dom, {}, target)
  BY <1>1, <1>2, CreateLoose
<1>4. /\ copying \in Seq(Frames) /\ Len(copying) > 0 /\ Len(copying) \in DOMAIN copying
      /\ top = copying[Len(copying)] /\ top \in Frames
  BY <1>2 DEF CopyStack, LastOf
<1>5. top.at \in Places
  BY <1>1, <1>4 DEF Frames
<1>6. dom.first[top.at] \in Places \cup {Null}
  BY <1>2, <1>5 DEF DomType, PointerType, Places
<1>7. f \in Frames /\ f.to = c
  BY <1>5, <1>6 DEF Frame, Frames, Places
<1> HIDE DEF f
<1>8. /\ copying' \in Seq(Frames) /\ Len(copying') = Len(copying) + 1
      /\ copying'[Len(copying) + 1] = f
      /\ \A i \in DOMAIN copying : i \in DOMAIN copying' /\ copying'[i] = copying[i]
      /\ \A i \in DOMAIN copying' : i = Len(copying) + 1 \/ i \in DOMAIN copying
      /\ Len(copying) \in Nat /\ 1 \in DOMAIN copying
  BY <1>1, <1>4, <1>7
<1>9. \A i \in DOMAIN copying : copying[i].to # c
  <2>1. \A i \in DOMAIN copying : i = 1 \/ i > 1
    BY <1>4
  <2>2. c # target
    BY <1>2, DomAssumption
  <2> QED
    BY <1>2, <1>3, <2>1, <2>2 DEF CopyStack
<1>10. copying'[1].to = target \/ copying'[1].to \in LooseOf(dom', {}, target)
  BY <1>2, <1>3, <1>8 DEF CopyStack
<1>11. \A i \in DOMAIN copying' : i > 1 => copying'[i].to \in LooseOf(dom', {}, target)
  BY <1>2, <1>3, <1>7, <1>8 DEF CopyStack
<1>12. \A i, j \in DOMAIN copying' : copying'[i].to = copying'[j].to => i = j
  BY <1>2, <1>7, <1>8, <1>9 DEF CopyStack
<1>13. \A i \in DOMAIN copying' : i < Len(copying') => copying'[i].at # Null
  <2>1. \A i \in DOMAIN copying : i < Len(copying) \/ i = Len(copying)
    BY <1>4
  <2>2. \A i \in DOMAIN copying : copying[i].at # Null
    BY <1>1, <1>2, <1>4, <2>1 DEF CopyStack
  <2> QED
    BY <1>8, <2>2
<1>14. CopyStack(copying', dom', target')
  BY <1>1, <1>8, <1>10, <1>11, <1>12, <1>13 DEF CopyStack
<1> QED
  BY <1>1, <1>2, <1>3, <1>14, CloneKeeps

\* The frame below takes the place of the one that ends.
LEMMA ReplacedTop ==
  ASSUME NEW T, NEW s \in Seq(T), Len(s) > 1, NEW f \in T
  PROVE  /\ ReplaceLast(AllButLast(s), f) \in Seq(T)
         /\ Len(ReplaceLast(AllButLast(s), f)) = Len(s) - 1
         /\ \A i \in 1..(Len(s) - 1) :
              ReplaceLast(AllButLast(s), f)[i] = IF i = Len(s) - 1 THEN f ELSE s[i]
<1> DEFINE b == AllButLast(s)
           r == ReplaceLast(b, f)
<1>1. Len(s) - 1 \in Nat /\ Len(s) > 0
  OBVIOUS
<1>2. b \in Seq(T) /\ Len(b) = Len(s) - 1 /\ \A i \in DOMAIN b : b[i] = s[i]
  BY <1>1, ShorterSeq
<1> HIDE DEF b
<1>3. DOMAIN b = 1..(Len(s) - 1) /\ \A i \in DOMAIN b : b[i] \in T
  BY <1>2
<1>4. r = [i \in 1..(Len(s) - 1) |-> IF i = Len(s) - 1 THEN f ELSE b[i]]
  BY <1>2, <1>3 DEF ReplaceLast
<1> HIDE DEF r
<1>5. \A i \in 1..(Len(s) - 1) : (IF i = Len(s) - 1 THEN f ELSE b[i]) \in T
  BY <1>3
<1>6. r \in [1..(Len(s) - 1) -> T]
  BY <1>4, <1>5
<1>7. r \in Seq(T) /\ Len(r) = Len(s) - 1
  BY <1>1, <1>6
<1>8. \A i \in 1..(Len(s) - 1) : r[i] = IF i = Len(s) - 1 THEN f ELSE s[i]
  BY <1>2, <1>3, <1>4
<1> QED
  BY <1>7, <1>8 DEF r, b

\* A child that is complete may be put below the copy above it, and the frame
\* of that one goes on with the next child.
LEMMA CloneInsertMoves ==
  ASSUME IInv, CloneInsert
  PROVE  LET k == Len(copying)
             e == copying[k].to
             below == copying[k - 1]
             f == [below EXCEPT !.at = dom.next[below.at]]
         IN /\ k \in Nat /\ k > 1 /\ DOMAIN copying = 1..k
            /\ e \in LooseOf(dom, {}, target) /\ below \in Frames /\ below.at \in Places
            /\ dom' = InsertEndChild(dom, below.to, e) /\ MayMove(dom, {}, below.to, e)
            /\ f \in Frames /\ f.from = below.from /\ f.to = below.to /\ f.at = dom.next[below.at]
            /\ copying' \in Seq(Frames) /\ Len(copying') = k - 1 /\ DOMAIN copying' = 1..(k - 1)
            /\ \A i \in DOMAIN copying' : i # k - 1 => copying'[i] = copying[i]
            /\ copying'[k - 1] = f
<1> DEFINE k == Len(copying)
           top == copying[k]
           below == copying[k - 1]
           e == top.to
           p == below.to
           f == [below EXCEPT !.at = dom.next[below.at]]
<1>1. /\ pc = "clone" /\ dying' = dying /\ k > 1
      /\ dom' = InsertEndChild(dom, p, e) /\ copying' = ReplaceLast(AllButLast(copying), f)
      /\ pc' = pc /\ target' = target /\ then' = then /\ open' = open
  BY DEF CloneInsert, Running
<1>2. /\ Sound(dom, {}) /\ dom \in DomType /\ target \in Docs /\ dying = <<>>
      /\ CopyStack(copying, dom, target)
  BY <1>1, CloningOK
<1>3. /\ copying \in Seq(Frames) /\ k \in Nat /\ k \in DOMAIN copying /\ k - 1 \in DOMAIN copying
      /\ DOMAIN copying = 1..k /\ below \in Frames
  BY <1>1, <1>2 DEF CopyStack
<1>4. e \in LooseOf(dom, {}, target)
  BY <1>1, <1>2, <1>3 DEF CopyStack
<1>5. e \in Nodes /\ dom.doc[e] = target /\ dom.parent[e] = Null
  BY <1>4 DEF LooseOf
<1>6. p = target \/ p \in LooseOf(dom, {}, target)
  <2>1. k - 1 = 1 \/ k - 1 > 1
    BY <1>1, <1>3
  <2> QED
    BY <1>2, <1>3, <2>1 DEF CopyStack
<1>7. p \in Places /\ dom.parent[p] = Null /\ (p = target \/ p \in NodesOf(dom, target))
  BY <1>2, <1>6 DEF LooseOf, NodesOf, Places, Sound
<1>8. p # e
  BY <1>2, <1>3 DEF CopyStack
<1>9. below.at # Null /\ below.at \in Places
  <2>1. below.at # Null
    BY <1>2, <1>3 DEF CopyStack
  <2> QED
    BY <1>3, <2>1 DEF Frames
<1>10. dom.next[below.at] \in Places \cup {Null}
  BY <1>2, <1>9 DEF DomType, PointerType, Places
<1>11. f \in Frames /\ f.to = p /\ f.from = below.from /\ f.at = dom.next[below.at]
  BY <1>3, <1>10 DEF Frames
<1>12. /\ copying' \in Seq(Frames) /\ Len(copying') = k - 1 /\ DOMAIN copying' = 1..(k - 1)
       /\ \A i \in DOMAIN copying' : i # k - 1 => copying'[i] = copying[i]
       /\ copying'[k - 1] = f
  <2>1. copying \in Seq(Frames) /\ Len(copying) > 1 /\ f \in Frames
    BY <1>1, <1>3, <1>11
  <2>2. copying' = ReplaceLast(AllButLast(copying), f) /\ k = Len(copying)
    BY <1>1
  <2> DEFINE R == ReplaceLast(AllButLast(copying), f)
  <2> HIDE DEF f
  <2>3. /\ R \in Seq(Frames) /\ Len(R) = Len(copying) - 1
        /\ \A i \in 1..(Len(copying) - 1) : R[i] = IF i = Len(copying) - 1 THEN f ELSE copying[i]
    BY <2>1, ReplacedTop
  <2> HIDE DEF R
  <2>4. copying' = R
    BY <2>2 DEF R
  <2>5. DOMAIN R = 1..(k - 1)
    <3>1. R \in Seq(Frames) /\ Len(R) = k - 1
      BY <2>2, <2>3
    <3> HIDE DEF k
    <3> QED
      BY <3>1
  <2>6. k - 1 \in 1..(k - 1)
    <3>1. k \in Nat /\ k > 1
      BY <1>1, <1>3
    <3> HIDE DEF k
    <3> QED
      BY <3>1
  <2> QED
    BY <2>3, <2>4, <2>5, <2>6
<1> HIDE DEF f, e, p, below, top
<1>13. NotAbove(dom, e, p)
  <2>1. {p} \in SUBSET Places /\ p \in {p} /\ e \notin {p} /\ \A x \in {p} : dom.parent[x] = Null
    BY <1>7, <1>8
  <2> QED
    BY <2>1 DEF NotAbove
<1>14. MayMove(dom, {}, p, e)
  BY <1>2, <1>5, <1>7, <1>13, DomAssumption DEF MayMove
<1> QED
  BY <1>1, <1>3, <1>4, <1>9, <1>11, <1>12, <1>14 DEF f, e, p, below, top

\* A copy inserts a child that is complete.
LEMMA CloneInsertKeeps ==
  ASSUME IInv, CloneInsert
  PROVE  IInv'
<1> DEFINE k == Len(copying)
           e == copying[k].to
           p == copying[k - 1].to
<1>1. pc = "clone" /\ dying' = dying /\ pc' = pc /\ target' = target /\ then' = then /\ open' = open
  BY DEF CloneInsert, Running
<1>2. /\ Sound(dom, {}) /\ dom \in DomType /\ target \in Docs /\ dying = <<>>
      /\ CopyStack(copying, dom, target)
  BY <1>1, CloningOK
<1>3. /\ k \in Nat /\ k > 1 /\ DOMAIN copying = 1..k
      /\ dom' = InsertEndChild(dom, p, e) /\ MayMove(dom, {}, p, e)
  BY CloneInsertMoves
<1>12. /\ copying' \in Seq(Frames) /\ Len(copying') = k - 1 /\ DOMAIN copying' = 1..(k - 1)
       /\ \A i \in DOMAIN copying' : i # k - 1 => copying'[i] = copying[i]
       /\ copying'[k - 1].to = p
  BY CloneInsertMoves
<1> HIDE DEF e, p
<1>15. Sound(dom', {}) /\ Moved(dom, dom', e, p)
  BY <1>3, EndSound
<1>16. dom'.doc = dom.doc /\ \A m \in Nodes : dom'.parent[m] = IF m = e THEN p ELSE dom.parent[m]
  BY <1>2, <1>15 DEF Moved, DomType, PointerType, Places
<1>17. \A m : m \in LooseOf(dom, {}, target) /\ m # e => m \in LooseOf(dom', {}, target)
  BY <1>16 DEF LooseOf
<1>18. \A i \in DOMAIN copying' : /\ i \in DOMAIN copying /\ i # k
                                  /\ copying'[i].to = copying[i].to
  BY <1>3, <1>12 DEF p
<1>19. \A i \in DOMAIN copying' : copying[i].to # e
  BY <1>2, <1>3, <1>18 DEF CopyStack, e
<1>20. CopyStack(copying', dom', target')
  <2>1. 1 \in DOMAIN copying'
    BY <1>1, <1>3, <1>12
  <2>2. copying'[1].to = target \/ copying'[1].to \in LooseOf(dom', {}, target)
    BY <1>2, <1>17, <1>18, <1>19, <2>1 DEF CopyStack
  <2>3. \A i \in DOMAIN copying' : i > 1 => copying'[i].to \in LooseOf(dom', {}, target)
    BY <1>2, <1>17, <1>18, <1>19 DEF CopyStack
  <2>4. \A i, j \in DOMAIN copying' : copying'[i].to = copying'[j].to => i = j
    BY <1>2, <1>18 DEF CopyStack
  <2>5. \A i \in DOMAIN copying' : i < Len(copying') => copying'[i].at # Null
    BY <1>2, <1>3, <1>12, <1>18 DEF CopyStack
  <2> QED
    BY <1>1, <1>3, <1>12, <2>2, <2>3, <2>4, <2>5 DEF CopyStack
<1> QED
  BY <1>1, <1>2, <1>15, <1>20, CloneKeeps

-----------------------------------------------------------------------------
\* The three insertions.
LEMMA InsertionsKeep ==
  ASSUME IInv, NEW p \in Places, NEW a \in Nodes, NEW n \in Nodes,
         AddLastChild(p, n) \/ AddFirstChild(p, n) \/ AddChildAfter(p, a, n)
  PROVE  IInv'
<1>1. MayInsert(p, n) /\ Idle /\ dying = <<>>
  BY DEF AddLastChild, AddFirstChild, AddChildAfter, MayInsert, Idle
<1>2. Sound(dom, {})
  BY <1>1, NoneGone DEF IInv
<1>3. MayMove(dom, {}, p, n)
  BY <1>1, <1>2 DEF MayInsert, MayMove, Alive
<1>4. CASE AddLastChild(p, n)
  BY <1>1, <1>3, <1>4, EndSound, EditKeeps DEF AddLastChild
<1>5. CASE AddFirstChild(p, n)
  BY <1>1, <1>3, <1>5, FirstSound, EditKeeps DEF AddFirstChild
<1>6. CASE AddChildAfter(p, a, n)
  BY <1>1, <1>3, <1>6, AfterSound, EditKeeps DEF AddChildAfter
<1> QED
  BY <1>4, <1>5, <1>6

\* A new node.
LEMMA NewKeeps ==
  ASSUME IInv, NEW d \in Docs, NEW n \in Nodes, New(d, n)
  PROVE  IInv'
<1>1. Sound(dom, {}) /\ dom.doc[n] = Null /\ n \notin {} /\ Idle
  BY NoneGone DEF IInv, New, Idle, Unused, Alive
<1>2. Sound(CreateUnlinkedNode(dom, d, n), {})
  BY <1>1, CreateSound
<1> QED
  BY <1>1, <1>2, EditKeeps DEF New

\* Nothing but the call changes.
LEMMA StopKeeps ==
  ASSUME IInv, pc' = "crashed", UNCHANGED <<dom, target, then, dying, open, copying>>
  PROVE  IInv'
<1>1. Gone' = Gone /\ Sound(dom', Gone') /\ DyingOK'
  BY DEF IInv, Gone, DyingOK
<1>2. CallOK' /\ OpenOK' /\ CopyingOK'
  BY DEF IInv, CallOK, OpenOK, CopyingOK, Calls, Loads
<1> QED
  BY <1>1, <1>2 DEF IInv

\* Nothing happens.
LEMMA StutterKeeps ==
  ASSUME IInv, UNCHANGED vars
  PROVE  IInv'
BY DEF vars, IInv, Gone, DyingOK, CallOK, OpenOK, CopyingOK, Loose

\* Every call starts from a sound structure and keeps it.
LEMMA CallKeeps ==
  ASSUME IInv, Call
  PROVE  IInv'
<1>1. ASSUME NEW d \in Docs, NEW n \in Nodes, New(d, n) PROVE IInv'
  BY <1>1, NewKeeps
<1>2. ASSUME NEW p \in Places, NEW n \in Nodes, AddLastChild(p, n) \/ AddFirstChild(p, n) PROVE IInv'
  BY <1>2, InsertionsKeep
<1>3. ASSUME NEW p \in Places, NEW a \in Nodes, NEW n \in Nodes, AddChildAfter(p, a, n) PROVE IInv'
  BY <1>3, InsertionsKeep
<1>4. ASSUME NEW p \in Places, NEW a \in Nodes, NEW n \in Nodes, CrashInAddChildAfter(p, a, n) PROVE IInv'
  BY <1>4, StopKeeps DEF CrashInAddChildAfter
<1>5. ASSUME NEW n \in Nodes, Delete(n) PROVE IInv'
  <2>1. /\ dom.doc[n] # Null /\ dying = <<>> /\ pc = "idle" /\ dom' = DropNode(dom, n)
        /\ dying' = <<n>> /\ UNCHANGED <<pc, target, then, open, copying>>
    BY <1>5 DEF Delete, Idle, Alive
  <2> QED
    BY <2>1, DropKeeps
<1>6. ASSUME NEW p \in Places, DeleteChildren(p) PROVE IInv'
  BY <1>6, DeleteChildrenKeeps
<1>7. ASSUME NEW d \in Docs, Clear(d) PROVE IInv'
  BY <1>7, StartClearKeeps DEF Clear
<1>8. ASSUME NEW d \in Docs, NEW how \in Loads, Load(d, how) PROVE IInv'
  BY <1>8, StartClearKeeps DEF Load
<1>9. ASSUME NEW n \in Nodes, NEW c \in Nodes, NEW d \in Docs, DeepClone(n, d, c) PROVE IInv'
  BY <1>9, DeepCloneKeeps
<1>10. ASSUME NEW s \in Docs, NEW d \in Docs, DeepCopy(s, d) PROVE IInv'
  BY <1>10, DeepCopyKeeps
<1> QED
  BY <1>1, <1>2, <1>3, <1>4, <1>5, <1>6, <1>7, <1>8, <1>9, <1>10 DEF Call

\* DeleteFirst on behalf of DeleteChildren, Clear and Parse.
LEMMA TargetPlace ==
  ASSUME IInv, pc \in {"empty", "clear", "discard"}
  PROVE  target \in Places
BY DEF IInv, CallOK, Places

\* Every step of a call keeps it.
LEMMA WorkKeeps ==
  ASSUME IInv, Work
  PROVE  IInv'
<1>1. CASE DestroyChild
  BY <1>1, DestroyChildKeeps
<1>2. CASE DestroyNode
  BY <1>2, DestroyNodeKeeps
<1>3. CASE DeleteChildrenStep
  BY <1>3, TargetPlace, DeleteFirstKeeps DEF DeleteChildrenStep, Running
<1>4. CASE DeleteChildrenReturn
  <2>1. Return /\ dying = <<>> /\ dying' = dying /\ dom' = dom
    BY <1>4 DEF DeleteChildrenReturn, Running
  <2>2. Sound(dom', {})
    BY <2>1, NoneGone DEF IInv
  <2> QED
    BY <2>1, <2>2, ReturnKeeps
<1>5. CASE ClearChildren
  BY <1>5, TargetPlace, DeleteFirstKeeps DEF ClearChildren, Running
<1>6. CASE ClearUnlinked
  BY <1>6, ClearUnlinkedKeeps
<1>7. CASE ClearReturn
  BY <1>7, ClearReturnKeeps
<1>8. ASSUME NEW n \in Nodes, ParseLeaf(n) \/ ParseOpen(n) \/ ParseBad(n) \/ ParseClose(n) PROVE IInv'
  BY <1>8, ParseLeafKeeps, ParseOpenKeeps, ParseBadKeeps, ParseCloseKeeps
<1>9. CASE ParseMismatch
  BY <1>9, DeleteOpenKeeps DEF ParseMismatch, Parsing
<1>10. CASE ParseReturn
  <2>1. Return /\ dying = <<>> /\ dying' = dying /\ dom' = dom
    BY <1>10 DEF ParseReturn, Parsing
  <2>2. Sound(dom', {})
    BY <2>1, NoneGone DEF IInv
  <2> QED
    BY <2>1, <2>2, ReturnKeeps
<1>11. CASE ParseNothing
  BY <1>11, ParseNothingKeeps
<1>12. CASE Unwind
  BY <1>12, DeleteOpenKeeps DEF Unwind, Unwinding
<1>13. CASE UnwindReturn
  BY <1>13, UnwindReturnKeeps
<1>14. CASE DiscardChildren
  BY <1>14, TargetPlace, DeleteFirstKeeps DEF DiscardChildren, Running
<1>15. CASE DiscardPools
  BY <1>15, DiscardPoolsKeeps
<1>16. ASSUME NEW c \in Nodes, CloneChild(c) PROVE IInv'
  BY <1>16, CloneChildKeeps
<1>17. CASE CloneInsert
  BY <1>17, CloneInsertKeeps
<1>18. CASE CloneReturn
  <2>1. Return /\ dying = <<>> /\ dying' = dying /\ dom' = dom
    BY <1>18 DEF CloneReturn, Running
  <2>2. Sound(dom', {})
    BY <2>1, NoneGone DEF IInv
  <2> QED
    BY <2>1, <2>2, ReturnKeeps
<1> QED
  BY <1>1, <1>2, <1>3, <1>4, <1>5, <1>6, <1>7, <1>8, <1>9, <1>10, <1>11, <1>12,
     <1>13, <1>14, <1>15, <1>16, <1>17, <1>18 DEF Work

\* The invariant holds at every step of every call.
LEMMA Invariance == Spec => []IInv
<1>1. Init => IInv
  BY InitInv
<1>2. IInv /\ [Next]_vars => IInv'
  <2> SUFFICES ASSUME IInv, [Next]_vars PROVE IInv'
    OBVIOUS
  <2>1. CASE Call
    BY <2>1, CallKeeps
  <2>2. CASE Work
    BY <2>2, WorkKeeps
  <2>3. CASE UNCHANGED vars
    BY <2>3, StutterKeeps
  <2> QED
    BY <2>1, <2>2, <2>3 DEF Next, Crashed
<1> QED
  BY <1>1, <1>2, PTL DEF Spec

-----------------------------------------------------------------------------
\* The links of all nodes agree at every step of every call, whatever the
\* documents, the text that is parsed and the order of the calls.
THEOREM LinksOfTree == Spec => []LinksAgree
<1>1. IInv => LinksAgree
  BY DEF IInv, Sound, Tree, LinksAgree
<1> QED
  BY <1>1, Invariance, PTL

\* The list of unlinked nodes is exact: what Clear relies on.
THEOREM UnlinkedListExact == Spec => []UnlinkedExact
<1>1. IInv => UnlinkedExact
  <2> SUFFICES ASSUME IInv, NEW d \in Docs
               PROVE LET u == dom.unlinked[d]
                     IN /\ {u[i] : i \in DOMAIN u} =
                             {n \in NodesOf(dom, d) : dom.parent[n] = Null /\ \A i \in DOMAIN dying : dying[i] # n}
                        /\ \A i, j \in DOMAIN u : u[i] = u[j] => i = j
                        /\ dom.untracked[d] = Len(u)
    BY DEF UnlinkedExact
  <2> DEFINE u == dom.unlinked[d]
  <2>1. Sound(dom, Gone) /\ u \in Seq(Nodes) /\ Distinct(u) /\ dom.untracked[d] = Len(u)
    <3>1. Sound(dom, Gone) /\ Listed(dom, Gone)
      BY DEF IInv, Sound
    <3>2. u \in Seq(Nodes)
      BY <3>1, ListedLoose
    <3> QED
      BY <3>1, <3>2 DEF Listed
  <2>2. \A n \in Nodes : In(u, n) <=> n \in LooseOf(dom, Gone, d)
    BY <2>1, ListedLoose
  <2>3. \A n : n \in Gone <=> \E i \in DOMAIN dying : dying[i] = n
    BY DEF Gone
  <2>4. \A n \in Nodes : In(u, n) <=> n \in NodesOf(dom, d) /\ dom.parent[n] = Null /\ \A i \in DOMAIN dying : dying[i] # n
    BY <2>2, <2>3 DEF LooseOf, NodesOf
  <2>5. \A i \in DOMAIN u : u[i] \in Nodes
    BY <2>1
  <2> HIDE DEF u
  <2>6. {u[i] : i \in DOMAIN u} =
          {n \in NodesOf(dom, d) : dom.parent[n] = Null /\ \A i \in DOMAIN dying : dying[i] # n}
    BY <2>4, <2>5 DEF In, NodesOf
  <2> QED
    BY <2>1, <2>6 DEF Distinct, u
<1> QED
  BY <1>1, Invariance, PTL

\* Clear, and Parse after an error, free every node of the document, and free
\* memory of no other.
THEOREM ClearLeavesNothing == Spec => []NothingLeftBehind
<1>1. IInv => NothingLeftBehind
  <2> SUFFICES ASSUME IInv, pc \in {"clear", "discard"}, dying = <<>>, dom.first[target] = Null,
                      pc = "clear" => dom.unlinked[target] = <<>>
               PROVE NodesOf(dom, target) = {} /\ dom.unlinked[target] = <<>> /\ dom.untracked[target] = 0
    BY DEF NothingLeftBehind
  <2>1. target \in Docs /\ dom.unlinked[target] = <<>>
    BY DEF IInv, CallOK, OpenOK
  <2>2. Sound(dom, {})
    BY NoneGone DEF IInv
  <2> QED
    BY <2>1, <2>2, NothingLeft
<1> QED
  BY <1>1, Invariance, PTL

-----------------------------------------------------------------------------
\* The lists of children.  What holds along a list is shown for the least
\* number of steps at which it would fail.

\* A set of numbers has a least one.
LEMMA LeastNumber ==
  ASSUME NEW T \in SUBSET Nat, T # {}
  PROVE  \E n \in T : \A m \in T : n <= m
<1>1. PICK n \in T : \A m \in T : <<m, n>> \notin OpToRel(<, Nat)
  BY NatLessThanWellFounded, WFMin, Zenon
<1>2. \A m \in T : ~(m < n)
  BY <1>1 DEF OpToRel
<1> QED
  BY <1>2


\* The walks of 0, 1, 2... steps are defined.
LEMMA WalkExists ==
  ASSUME NEW D, NEW n \in Nat
  PROVE  \E w : w = [k \in 0..n |-> [x \in Places \cup {Null} |-> 
                       IF x = Null \/ k = 0 THEN <<>> ELSE <<x>> \o w[k - 1][D.next[x]]]]
<1> DEFINE Step(w, k) == [x \in Places \cup {Null} |-> 
                       IF x = Null \/ k = 0 THEN <<>> ELSE <<x>> \o w[k - 1][D.next[x]]]
           Bad == {m \in 0..n : ~ \E w : w = [k \in 0..m |-> Step(w, k)]}
<1>1. SUFFICES ASSUME Bad # {} PROVE FALSE
  <2>1. n \in 0..n
    OBVIOUS
  <2> QED
    BY <1>1, <2>1
<1>2. PICK m \in Bad : \A i \in Bad : m <= i
  <2>1. Bad \in SUBSET Nat
    OBVIOUS
  <2> HIDE DEF Bad
  <2> QED
    BY <1>1, <2>1, LeastNumber
<1>3. m \in 0..n /\ ~ \E w : w = [k \in 0..m |-> Step(w, k)]
  OBVIOUS
<1>n. m \in Nat /\ m <= n
  BY <1>3
<1>4. CASE m = 0
  <2> DEFINE w == [k \in 0..0 |-> [x \in Places \cup {Null} |-> <<>>]]
  <2>1. \A k \in 0..0 : Step(w, k) = [x \in Places \cup {Null} |-> <<>>]
    OBVIOUS
  <2>2. w = [k \in 0..0 |-> Step(w, k)]
    BY <2>1
  <2> QED
    BY <1>3, <1>4, <2>2
<1>5. CASE m # 0
  <2>0. m - 1 \in 0..n /\ ~(m <= m - 1)
    BY <1>n, <1>5
  <2>1. m - 1 \notin Bad
    <3> HIDE DEF Bad
    <3> QED
      BY <1>2, <2>0
  <2>2. PICK v : v = [k \in 0..(m - 1) |-> Step(v, k)]
    BY <2>0, <2>1
  <2> DEFINE w == [k \in 0..m |-> IF k = m THEN Step(v, m) ELSE v[k]]
  <2>3. \A k \in 0..(m - 1) : w[k] = v[k]
    <3> HIDE DEF Step
    <3>1. \A k \in 0..(m - 1) : k \in 0..m /\ k # m
      BY <1>n
    <3> QED
      BY <3>1
  <2>4. ASSUME NEW k \in 0..m PROVE w[k] = Step(w, k)
    <3>1. k # 0 => w[k - 1] = v[k - 1]
      <4>1. k # 0 => k - 1 \in 0..(m - 1)
        BY <1>n
      <4> HIDE DEF w
      <4> QED
        BY <2>3, <4>1
    <3>2. Step(w, k) = Step(v, k)
      <4> HIDE DEF w
      <4> QED
        BY <3>1
    <3>3. CASE k = m
      BY <3>2, <3>3
    <3>4. CASE k # m
      <4>1. k \in 0..(m - 1)
        BY <1>3, <3>4
      <4>2. v[k] = Step(v, k)
        BY <2>2, <4>1
      <4> QED
        BY <2>3, <3>2, <4>1, <4>2
    <3> QED
      BY <3>3, <3>4
  <2>5. w = [k \in 0..m |-> Step(w, k)]
    BY <2>4
  <2> QED
    BY <1>3, <2>5
<1> QED
  BY <1>4, <1>5

Bound == Cardinality(Nodes)

\* Kids follows the walk of as many steps as there are nodes.
LEMMA KidsWalk ==
  ASSUME NEW D
  PROVE  \E w : /\ Kids(D) = [p \in Places |-> w[Bound][D.first[p]]]
                /\ w = [k \in 0..Bound |-> [x \in Places \cup {Null} |->
                          IF x = Null \/ k = 0 THEN <<>> ELSE <<x>> \o w[k - 1][D.next[x]]]]
<1>0. Bound \in Nat
  BY DomAssumption, FS_CardinalityType DEF Bound
<1> DEFINE w == CHOOSE w : w = [k \in 0..Bound |-> [x \in Places \cup {Null} |->
                          IF x = Null \/ k = 0 THEN <<>> ELSE <<x>> \o w[k - 1][D.next[x]]]]
<1>1. Kids(D) = [p \in Places |-> w[Bound][D.first[p]]]
  BY DEF Kids, Bound
<1>2. w = [k \in 0..Bound |-> [x \in Places \cup {Null} |->
                          IF x = Null \/ k = 0 THEN <<>> ELSE <<x>> \o w[k - 1][D.next[x]]]]
  <2>1. \E v : v = [k \in 0..Bound |-> [x \in Places \cup {Null} |->
                          IF x = Null \/ k = 0 THEN <<>> ELSE <<x>> \o v[k - 1][D.next[x]]]]
    BY <1>0, WalkExists
  <2> QED
    BY <2>1, Zenon
<1> HIDE DEF w
<1> QED
  BY <1>1, <1>2

\* s lists the children of p, each once, in the order of the links.
At(s, i) == IF i \in DOMAIN s THEN s[i] ELSE Null
ListOf(D, p, s) ==
  /\ s \in Seq(Nodes) /\ Distinct(s)
  /\ \A n \in Nodes : In(s, n) <=> D.parent[n] = p
  /\ D.first[p] = At(s, 1)
  /\ \A i \in DOMAIN s : D.next[s[i]] = At(s, i + 1)

\* A list without repetitions is no longer than there are nodes.
LEMMA ShortList ==
  ASSUME NEW s \in Seq(Nodes), Distinct(s)
  PROVE  Len(s) \in 0..Bound /\ Bound \in Nat
<1>1. Bound \in Nat
  BY DomAssumption, FS_CardinalityType DEF Bound
<1>2. s \in Injection(1..Len(s), Nodes)
  BY DEF Injection, IsInjective, Distinct
<1>3. Cardinality(1..Len(s)) <= Bound
  BY <1>2, DomAssumption, FS_Injection DEF Bound
<1>4. Cardinality(1..Len(s)) = IF 1 > Len(s) THEN 0 ELSE Len(s) - 1 + 1
  BY FS_Interval
<1>5. Len(s) \in Nat
  OBVIOUS
<1> QED
  BY <1>1, <1>3, <1>4, <1>5

\* The list that the links of p and of its children make is what Kids reads.
LEMMA KidsAre ==
  ASSUME NEW D \in DomType, NEW p \in Places, NEW s, ListOf(D, p, s)
  PROVE  Kids(D)[p] = s
<1>0. s \in Seq(Nodes) /\ Len(s) \in 0..Bound /\ Bound \in Nat
  BY ShortList DEF ListOf
<1>1. PICK w : /\ Kids(D) = [q \in Places |-> w[Bound][D.first[q]]]
               /\ w = [k \in 0..Bound |-> [x \in Places \cup {Null} |->
                         IF x = Null \/ k = 0 THEN <<>> ELSE <<x>> \o w[k - 1][D.next[x]]]]
  BY KidsWalk
<1>2. ASSUME NEW k \in 0..Bound, NEW x \in Places \cup {Null}
      PROVE  w[k][x] = IF x = Null \/ k = 0 THEN <<>> ELSE <<x>> \o w[k - 1][D.next[x]]
  <2>1. w[k] = [y \in Places \cup {Null} |->
                  IF y = Null \/ k = 0 THEN <<>> ELSE <<y>> \o w[k - 1][D.next[y]]]
    BY <1>1
  <2> QED
    BY <2>1
<1> DEFINE L == Len(s)
           Bad == {m \in 0..L : w[Bound - L + m][At(s, L + 1 - m)] # SubSeq(s, L + 1 - m, L)}
<1>n. L \in Nat /\ L <= Bound
  BY <1>0
<1>3. SUFFICES ASSUME Bad # {} PROVE FALSE
  <2>1. L \in 0..L /\ Bound - L + L = Bound /\ L + 1 - L = 1
    BY <1>n, <1>0
  <2>2. w[Bound][At(s, 1)] = SubSeq(s, 1, L)
    BY <1>3, <2>1
  <2>3. SubSeq(s, 1, L) = s
    BY <1>0, SubSeqFull
  <2>4. Kids(D)[p] = w[Bound][D.first[p]]
    BY <1>1
  <2> QED
    BY <2>2, <2>3, <2>4 DEF ListOf
<1>4. PICK m \in Bad : \A i \in Bad : m <= i
  <2>1. Bad \in SUBSET Nat
    BY <1>n
  <2> HIDE DEF Bad
  <2> QED
    BY <1>3, <2>1, LeastNumber
<1>5. m \in 0..L /\ w[Bound - L + m][At(s, L + 1 - m)] # SubSeq(s, L + 1 - m, L)
  OBVIOUS
<1>6. m \in Nat /\ m <= L /\ Bound - L + m \in 0..Bound
  <2> HIDE DEF L
  <2> QED
    BY <1>0, <1>n, <1>5
<1>7. CASE m = 0
  <2>1. L + 1 - m \notin DOMAIN s /\ DOMAIN s = 1..L
    BY <1>0, <1>7
  <2>2. At(s, L + 1 - m) = Null
    BY <2>1 DEF At
  <2>3. SubSeq(s, L + 1 - m, L) = <<>>
    BY <1>n, <1>0, <1>7, SubSeqEmpty
  <2>4. w[Bound - L + m][Null] = <<>>
    BY <1>2, <1>6
  <2> QED
    BY <1>5, <2>2, <2>3, <2>4
<1>8. CASE m # 0
  <2> DEFINE i == L + 1 - m
             k == Bound - L + m
  <2>1. i \in 1..L /\ k \in 0..Bound /\ k # 0 /\ i + 1 = L + 1 - (m - 1) /\ k - 1 = Bound - L + (m - 1)
    <3> HIDE DEF L
    <3> QED
      BY <1>0, <1>n, <1>6, <1>8
  <2>2. m - 1 \in 0..L /\ ~(m <= m - 1)
    <3> HIDE DEF L
    <3> QED
      BY <1>n, <1>6, <1>8
  <2>3. w[k - 1][At(s, i + 1)] = SubSeq(s, i + 1, L)
    <3>1. m - 1 \notin Bad
      <4> HIDE DEF Bad
      <4> QED
        BY <1>4, <2>2
    <3>2. w[Bound - L + (m - 1)][At(s, L + 1 - (m - 1))] = SubSeq(s, L + 1 - (m - 1), L)
      BY <2>2, <3>1
    <3> QED
      BY <2>1, <3>2, Zenon
  <2>4. i \in DOMAIN s /\ s[i] \in Nodes
    BY <1>0, <2>1
  <2> HIDE DEF i, k
  <2>5. D.next[s[i]] = At(s, i + 1) /\ At(s, i) = s[i]
    BY <2>4 DEF ListOf, At
  <2>6. s[i] \in Places \cup {Null} /\ s[i] # Null
    BY <2>4, DomAssumption DEF Places
  <2>7. w[k][s[i]] = <<s[i]>> \o w[k - 1][D.next[s[i]]]
    BY <1>2, <2>1, <2>6
  <2>8. w[k][s[i]] = SubSeq(s, i, L)
    <3>1. i \in 1..Len(s) /\ Len(s) \in i..Len(s)
      BY <1>n, <2>1
    <3>2. SubSeq(s, i, L) = <<s[i]>> \o SubSeq(s, i + 1, L)
      BY <1>0, <3>1, SubSeqRecursiveFirst
    <3>3. w[k][s[i]] = <<s[i]>> \o SubSeq(s, i + 1, L)
      BY <2>3, <2>5, <2>7, Zenon
    <3> QED
      BY <3>2, <3>3, Zenon
  <2> QED
    BY <1>5, <2>5, <2>8 DEF i, k
<1> QED
  BY <1>7, <1>8

\* What is left of a list that has n at position k.
Dropped(s, k) == [i \in 1..(Len(s) - 1) |-> IF i < k THEN s[i] ELSE s[i + 1]]

\* Others drops the position of n.
LEMMA OthersDropped ==
  ASSUME NEW s \in Seq(Nodes), Distinct(s), NEW k \in 1..Len(s)
  PROVE  Lists!Others(s, s[k]) = Dropped(s, k)
<1>1. ~ \A i \in DOMAIN s : s[i] # s[k]
  OBVIOUS
<1>2. Lists!Others(s, s[k]) = [i \in 1..(Len(s) - 1) |->
         IF \E j \in 1..i : s[j] = s[k] THEN s[i + 1] ELSE s[i]]
  BY <1>1 DEF Lists!Others
<1>3. ASSUME NEW i \in 1..(Len(s) - 1)
      PROVE  (\E j \in 1..i : s[j] = s[k]) <=> ~(i < k)
  <2>1. \A j \in 1..i : s[j] = s[k] => j = k
    BY DEF Distinct
  <2>2. ~(i < k) => k \in 1..i
    OBVIOUS
  <2> QED
    BY <2>1, <2>2
<1> QED
  BY <1>2, <1>3 DEF Dropped

\* A list that has not n stays.
LEMMA OthersSame ==
  ASSUME NEW s, NEW n, ~In(s, n)
  PROVE  Lists!Others(s, n) = s
BY DEF Lists!Others, In

\* The list has everybody else, each once.
LEMMA DroppedList ==
  ASSUME NEW s \in Seq(Nodes), Distinct(s), NEW k \in 1..Len(s)
  PROVE  LET t == Dropped(s, k)
         IN /\ t \in Seq(Nodes) /\ Distinct(t) /\ Len(t) = Len(s) - 1
            /\ \A m \in Nodes : In(t, m) <=> In(s, m) /\ m # s[k]
<1> DEFINE t == Dropped(s, k)
           L == Len(s)
<1>1. L \in Nat /\ DOMAIN s = 1..L /\ k \in Nat /\ 1 <= k /\ k <= L
  OBVIOUS
<1>2. \A i \in 1..(L - 1) : i \in 1..L /\ i + 1 \in 1..L
  BY <1>1
<1>3. \A i \in 1..(L - 1) : t[i] = (IF i < k THEN s[i] ELSE s[i + 1]) /\ t[i] \in Nodes
  BY <1>1, <1>2 DEF Dropped
<1>4. t \in Seq(Nodes) /\ Len(t) = L - 1 /\ DOMAIN t = 1..(L - 1)
  BY <1>1, <1>3 DEF Dropped
<1> HIDE DEF t
<1>5. Distinct(t)
  <2> SUFFICES ASSUME NEW i \in 1..(L - 1), NEW j \in 1..(L - 1), t[i] = t[j] PROVE i = j
    BY <1>4 DEF Distinct
  <2> DEFINE a == IF i < k THEN i ELSE i + 1
             b == IF j < k THEN j ELSE j + 1
  <2>1. a \in 1..L /\ b \in 1..L /\ t[i] = s[a] /\ t[j] = s[b]
    BY <1>2, <1>3
  <2>2. a = b
    BY <1>1, <2>1 DEF Distinct
  <2> QED
    BY <1>1, <2>2
<1>6. ASSUME NEW m \in Nodes, In(t, m) PROVE In(s, m) /\ m # s[k]
  <2>1. PICK i \in 1..(L - 1) : t[i] = m
    BY <1>4, <1>6 DEF In
  <2> DEFINE a == IF i < k THEN i ELSE i + 1
  <2>2. a \in 1..L /\ s[a] = m /\ a # k
    BY <1>1, <1>2, <1>3, <2>1
  <2> HIDE DEF a
  <2> QED
    BY <1>1, <2>2 DEF In, Distinct
<1>7. ASSUME NEW m \in Nodes, In(s, m), m # s[k] PROVE In(t, m)
  <2>1. PICK i \in 1..L : s[i] = m
    BY <1>1, <1>7 DEF In
  <2>2. i # k
    BY <1>7, <2>1
  <2> DEFINE a == IF i < k THEN i ELSE i - 1
  <2>3. a \in 1..(L - 1) /\ (a < k => a = i) /\ (~(a < k) => a + 1 = i)
    BY <1>1, <2>2
  <2> HIDE DEF a
  <2>4. t[a] = m
    BY <1>3, <2>1, <2>3
  <2> QED
    BY <1>4, <2>3, <2>4 DEF In
<1> QED
  BY <1>4, <1>5, <1>6, <1>7 DEF t

\* A list with n behind its first k.
Put(s, k, n) == [i \in 1..(Len(s) + 1) |-> IF i <= k THEN s[i] ELSE IF i = k + 1 THEN n ELSE s[i - 1]]

\* The list has everybody it had, and n.
LEMMA PutList ==
  ASSUME NEW s \in Seq(Nodes), Distinct(s), NEW k \in 0..Len(s), NEW n \in Nodes, ~In(s, n)
  PROVE  LET t == Put(s, k, n)
         IN /\ t \in Seq(Nodes) /\ Distinct(t) /\ Len(t) = Len(s) + 1
            /\ \A m \in Nodes : In(t, m) <=> In(s, m) \/ m = n
<1> DEFINE t == Put(s, k, n)
           L == Len(s)
<1>1. L \in Nat /\ DOMAIN s = 1..L /\ k \in Nat /\ k <= L
  OBVIOUS
<1>2. \A i \in 1..(L + 1) : /\ i <= k => i \in 1..L
                            /\ ~(i <= k) /\ i # k + 1 => i - 1 \in 1..L
  BY <1>1
<1>3. \A i \in 1..(L + 1) : /\ t[i] = IF i <= k THEN s[i] ELSE IF i = k + 1 THEN n ELSE s[i - 1]
                            /\ t[i] \in Nodes
  BY <1>1, <1>2 DEF Put
<1>4. t \in Seq(Nodes) /\ Len(t) = L + 1 /\ DOMAIN t = 1..(L + 1)
  BY <1>1, <1>3 DEF Put
<1> HIDE DEF t
<1>5. \A i \in 1..(L + 1) : i # k + 1 =>
         \E a \in 1..L : t[i] = s[a] /\ a = (IF i <= k THEN i ELSE i - 1)
  BY <1>1, <1>2, <1>3
<1>6. t[k + 1] = n /\ k + 1 \in 1..(L + 1)
  BY <1>1, <1>3
<1>7. \A a \in 1..L : s[a] # n
  BY <1>1 DEF In
<1>8. Distinct(t)
  <2> SUFFICES ASSUME NEW i \in 1..(L + 1), NEW j \in 1..(L + 1), t[i] = t[j] PROVE i = j
    BY <1>4 DEF Distinct
  <2>1. CASE i = k + 1 \/ j = k + 1
    BY <1>5, <1>6, <1>7, <2>1
  <2>2. CASE i # k + 1 /\ j # k + 1
    <3>1. PICK a \in 1..L : t[i] = s[a] /\ a = (IF i <= k THEN i ELSE i - 1)
      BY <1>5, <2>2
    <3>2. PICK b \in 1..L : t[j] = s[b] /\ b = (IF j <= k THEN j ELSE j - 1)
      BY <1>5, <2>2
    <3>3. a = b
      BY <1>1, <3>1, <3>2 DEF Distinct
    <3> QED
      BY <1>1, <2>2, <3>1, <3>2, <3>3
  <2> QED
    BY <2>1, <2>2
<1>9. ASSUME NEW m \in Nodes, In(t, m) PROVE In(s, m) \/ m = n
  BY <1>1, <1>4, <1>5, <1>6, <1>9 DEF In
<1>10. ASSUME NEW m \in Nodes, In(s, m) PROVE In(t, m)
  <2>1. PICK i \in 1..L : s[i] = m
    BY <1>1, <1>10 DEF In
  <2> DEFINE a == IF i <= k THEN i ELSE i + 1
  <2>2. a \in 1..(L + 1) /\ (a <= k => a = i) /\ (~(a <= k) => a # k + 1 /\ a - 1 = i)
    BY <1>1
  <2> HIDE DEF a
  <2>3. t[a] = m
    BY <1>3, <2>1, <2>2
  <2> QED
    BY <1>4, <2>2, <2>3 DEF In
<1>11. In(t, n)
  BY <1>4, <1>6 DEF In
<1> QED
  BY <1>4, <1>8, <1>9, <1>10, <1>11 DEF t

\* A list of another place stays when its children keep theirs.
LEMMA ListStays ==
  ASSUME NEW D, NEW E, NEW q, NEW s, ListOf(D, q, s), E.first[q] = D.first[q],
         \A n \in Nodes : E.parent[n] = q <=> D.parent[n] = q,
         \A n \in Nodes : D.parent[n] = q => E.next[n] = D.next[n]
  PROVE  ListOf(E, q, s)
<1>1. \A i \in DOMAIN s : s[i] \in Nodes /\ D.parent[s[i]] = q
  BY DEF ListOf, In
<1> QED
  BY <1>1 DEF ListOf

\* Unlink takes the node out of its list.
LEMMA UnlinkList ==
  ASSUME NEW D \in DomType, Links(D), NEW c \in Nodes, D.parent[c] # Null,
         NEW q \in Places, NEW s, ListOf(D, q, s)
  PROVE  ListOf(Unlink(D, c), q, Lists!Others(s, c))
<1> DEFINE E == Unlink(D, c)
<1>1. Unlinked(D, E, c)
  BY UnlinkType
<1> HIDE DEF E
<1>2. /\ c \in Places /\ D.parent[c] \in Places /\ q # Null /\ Null \notin Nodes
      /\ Nodes \subseteq Places
  BY DomAssumption DEF DomType, PointerType, Places
<1>3. \A x \in Places : /\ E.parent[x] = (IF x = c THEN Null ELSE D.parent[x])
                        /\ E.next[x] = (IF x = c THEN Null ELSE IF x = D.prev[c] THEN D.next[c] ELSE D.next[x])
                        /\ E.first[x] = IF x = D.parent[c] /\ D.first[x] = c THEN D.next[c] ELSE D.first[x]
  BY <1>1, <1>2 DEF Unlinked, NextPast, DomType, PointerType
<1>4. /\ s \in Seq(Nodes) /\ Distinct(s) /\ \A n \in Nodes : In(s, n) <=> D.parent[n] = q
      /\ D.first[q] = At(s, 1) /\ \A i \in DOMAIN s : D.next[s[i]] = At(s, i + 1)
  BY DEF ListOf
<1>5. CASE D.parent[c] # q
  <2>1. Lists!Others(s, c) = s
    BY <1>4, <1>5, OthersSame
  <2>2. D.prev[c] # Null => D.parent[D.prev[c]] = D.parent[c]
    BY <1>2 DEF Links
  <2>3. E.first[q] = D.first[q]
    BY <1>3, <1>5
  <2>4. \A n \in Nodes : E.parent[n] = q <=> D.parent[n] = q
    BY <1>2, <1>3, <1>5
  <2>5. \A n \in Nodes : D.parent[n] = q => E.next[n] = D.next[n]
    BY <1>2, <1>3, <1>5, <2>2
  <2> QED
    BY <2>1, <2>3, <2>4, <2>5, ListStays DEF E
<1>6. CASE D.parent[c] = q
  <2>1. PICK k \in 1..Len(s) : s[k] = c
    BY <1>4, <1>6 DEF In
  <2> DEFINE t == Dropped(s, k)
             L == Len(s)
  <2>2. Lists!Others(s, c) = t
    BY <1>4, <2>1, OthersDropped
  <2>3. t \in Seq(Nodes) /\ Distinct(t) /\ Len(t) = L - 1
        /\ \A m \in Nodes : In(t, m) <=> In(s, m) /\ m # s[k]
    BY <1>4, DroppedList
  <2>4. \A i \in 1..(L - 1) : t[i] = IF i < k THEN s[i] ELSE s[i + 1]
    BY DEF Dropped
  <2>5. L \in Nat /\ DOMAIN s = 1..L /\ DOMAIN t = 1..(L - 1) /\ k \in Nat /\ 1 <= k /\ k <= L
    BY <1>4, <2>3
  <2> HIDE DEF t
  <2>n. \A i \in 1..L : s[i] \in Nodes
    BY <1>4
  <2>6. D.next[c] = At(s, k + 1)
    BY <1>4, <2>1, <2>5
  <2>7. k # 1 => s[k - 1] \in Nodes /\ D.prev[c] = s[k - 1]
    <3>1. k # 1 => k - 1 \in DOMAIN s /\ k - 1 + 1 = k
      BY <2>5
    <3>2. k # 1 => s[k - 1] \in Nodes /\ D.next[s[k - 1]] = c
      BY <1>4, <2>1, <2>5, <3>1 DEF At
    <3> QED
      BY <1>2, <3>2 DEF Links
  <2>8. k = 1 => D.prev[c] = Null /\ D.first[q] = c
    <3>1. k = 1 => D.first[q] = c
      BY <1>4, <2>1, <2>5 DEF At
    <3> QED
      BY <1>2, <3>1 DEF Links
  <2>9. k # 1 => D.first[q] # c
    <3>1. 1 \in 1..L
      BY <2>5
    <3>2. D.first[q] = s[1]
      BY <1>4, <2>5, <3>1 DEF At
    <3> QED
      BY <1>4, <2>1, <2>5, <3>1, <3>2 DEF Distinct
  <2>10. \A n \in Nodes : In(t, n) <=> E.parent[n] = q
    BY <1>2, <1>3, <1>4, <2>1, <2>3
  <2>11. E.first[q] = At(t, 1)
    <3>1. CASE k = 1
      <4>1. E.first[q] = At(s, 2)
        BY <1>3, <1>6, <2>6, <2>8, <3>1
      <4> QED
        BY <2>4, <2>5, <3>1, <4>1 DEF At
    <3>2. CASE k # 1
      <4>1. E.first[q] = At(s, 1)
        BY <1>3, <1>4, <2>9, <3>2
      <4> QED
        BY <2>4, <2>5, <3>2, <4>1 DEF At
    <3> QED
      BY <3>1, <3>2
  <2>12. ASSUME NEW i \in 1..(L - 1) PROVE E.next[t[i]] = At(t, i + 1)
    <3> DEFINE j == IF i < k THEN i ELSE i + 1
    <3>1. j \in 1..L /\ j # k /\ t[i] = s[j]
      BY <2>4, <2>5
    <3>2. s[j] \in Places /\ s[j] # c
      BY <1>2, <1>4, <2>1, <2>5, <2>n, <3>1 DEF Distinct
    <3>3. D.next[s[j]] = At(s, j + 1)
      BY <1>4, <2>5, <3>1
    <3>4. CASE j = k - 1
      <4>1. E.next[s[j]] = At(s, k + 1)
        <5>1. k # 1
          BY <3>1, <3>4, <2>5
        <5> QED
          BY <1>3, <2>6, <2>7, <3>2, <3>4, <5>1
      <4>2. i + 1 = k
        BY <2>5, <3>1, <3>4
      <4> QED
        BY <2>4, <2>5, <3>1, <4>1, <4>2 DEF At
    <3>5. CASE j # k - 1
      <4>1. s[j] # D.prev[c]
        <5>1. CASE k = 1
          BY <1>2, <2>8, <2>n, <3>1, <5>1
        <5>2. CASE k # 1
          <6>1. k - 1 \in 1..L
            BY <2>5, <5>2
          <6> QED
            BY <1>4, <2>5, <2>7, <3>1, <3>5, <5>2, <6>1 DEF Distinct
        <5> QED
          BY <5>1, <5>2
      <4>2. E.next[s[j]] = At(s, j + 1)
        BY <1>3, <3>2, <3>3, <4>1
      <4>3. At(s, j + 1) = At(t, i + 1)
        BY <2>4, <2>5, <3>1, <3>5 DEF At
      <4> QED
        BY <3>1, <4>2, <4>3
    <3> QED
      BY <3>4, <3>5
  <2> QED
    BY <2>2, <2>3, <2>5, <2>10, <2>11, <2>12 DEF ListOf, E
<1> QED
  BY <1>5, <1>6

\* n is put behind the first k of p, all else being as before.
PutLinks(D, E, p, n, s, k) ==
  /\ \A x \in Places :
       /\ E.parent[x] = IF x = n THEN p ELSE D.parent[x]
       /\ E.first[x] = IF x = p /\ k = 0 THEN n ELSE D.first[x]
       /\ E.next[x] = IF x = n THEN At(s, k + 1) ELSE IF k # 0 /\ x = s[k] THEN n ELSE D.next[x]

\* A node that is put in becomes one of the list, in its place.
LEMMA PutInList ==
  ASSUME NEW D, NEW E, NEW n \in Nodes, D.parent[n] = Null, NEW p \in Places,
         NEW s, ListOf(D, p, s), NEW k \in 0..Len(s), PutLinks(D, E, p, n, s, k)
  PROVE  ListOf(E, p, Put(s, k, n))
<1>1. /\ s \in Seq(Nodes) /\ Distinct(s) /\ \A m \in Nodes : In(s, m) <=> D.parent[m] = p
      /\ D.first[p] = At(s, 1) /\ \A i \in DOMAIN s : D.next[s[i]] = At(s, i + 1)
  BY DEF ListOf
<1>2. p # Null /\ n \in Places /\ ~In(s, n) /\ Nodes \subseteq Places
  BY <1>1, DomAssumption DEF Places
<1> DEFINE t == Put(s, k, n)
           L == Len(s)
<1>3. t \in Seq(Nodes) /\ Distinct(t) /\ Len(t) = L + 1
      /\ \A m \in Nodes : In(t, m) <=> In(s, m) \/ m = n
  BY <1>1, <1>2, PutList
<1>4. \A i \in 1..(L + 1) : t[i] = IF i <= k THEN s[i] ELSE IF i = k + 1 THEN n ELSE s[i - 1]
  BY DEF Put
<1>5. L \in Nat /\ DOMAIN s = 1..L /\ DOMAIN t = 1..(L + 1) /\ k \in Nat /\ k <= L
  BY <1>1, <1>3
<1> HIDE DEF t
<1>6. \A x \in Places :
       /\ E.parent[x] = IF x = n THEN p ELSE D.parent[x]
       /\ E.first[x] = IF x = p /\ k = 0 THEN n ELSE D.first[x]
       /\ E.next[x] = IF x = n THEN At(s, k + 1) ELSE IF k # 0 /\ x = s[k] THEN n ELSE D.next[x]
  BY DEF PutLinks
<1>7. \A m \in Nodes : In(t, m) <=> E.parent[m] = p
  BY <1>1, <1>2, <1>3, <1>6
<1>8. E.first[p] = At(t, 1)
  BY <1>1, <1>4, <1>5, <1>6 DEF At
<1>9. ASSUME NEW i \in 1..(L + 1) PROVE E.next[t[i]] = At(t, i + 1)
  <2>1. CASE i = k + 1
    <3>1. t[i] = n
      BY <1>4, <1>5, <2>1
    <3>2. At(s, k + 1) = At(t, k + 2)
      BY <1>4, <1>5 DEF At
    <3> QED
      BY <1>2, <1>5, <1>6, <2>1, <3>1, <3>2
  <2>2. CASE i # k + 1
    <3> DEFINE j == IF i <= k THEN i ELSE i - 1
    <3>1. j \in 1..L /\ t[i] = s[j]
      BY <1>4, <1>5, <2>2
    <3>2. s[j] \in Places /\ s[j] # n /\ D.next[s[j]] = At(s, j + 1)
      <4>1. s[j] \in Nodes /\ D.next[s[j]] = At(s, j + 1)
        BY <1>1, <1>5, <3>1
      <4>2. s[j] # n
        BY <1>2, <1>5, <3>1 DEF In
      <4> QED
        BY <1>2, <4>1, <4>2
    <3>3. CASE j = k
      <4>1. E.next[t[i]] = n /\ i = k
        BY <1>5, <1>6, <2>2, <3>1, <3>2, <3>3
      <4> QED
        BY <1>4, <1>5, <4>1 DEF At
    <3>4. CASE j # k
      <4>1. k # 0 => s[j] # s[k]
        BY <1>1, <1>5, <3>1, <3>4 DEF Distinct
      <4>2. E.next[t[i]] = At(s, j + 1)
        BY <1>6, <3>1, <3>2, <4>1
      <4> QED
        BY <1>4, <1>5, <2>2, <3>1, <3>4, <4>2 DEF At
    <3> QED
      BY <3>3, <3>4
  <2> QED
    BY <2>1, <2>2
<1> QED
  BY <1>3, <1>5, <1>7, <1>8, <1>9 DEF ListOf, t

\* The lists of all other places stay.
LEMMA PutElsewhere ==
  ASSUME NEW D, NEW E, NEW n \in Nodes, D.parent[n] = Null, NEW p \in Places,
         NEW s, ListOf(D, p, s), NEW k \in 0..Len(s), PutLinks(D, E, p, n, s, k),
         NEW q \in Places, q # p, NEW r, ListOf(D, q, r)
  PROVE  ListOf(E, q, r)
<1>1. q # Null /\ n \in Places /\ Nodes \subseteq Places
  BY DomAssumption DEF Places
<1>2. k # 0 => s[k] \in Nodes /\ D.parent[s[k]] = p
  BY DEF ListOf, In
<1>3. E.first[q] = D.first[q]
  BY DEF PutLinks
<1>4. \A m \in Nodes : E.parent[m] = q <=> D.parent[m] = q
  BY <1>1 DEF PutLinks
<1>5. \A m \in Nodes : D.parent[m] = q => E.next[m] = D.next[m]
  BY <1>1, <1>2 DEF PutLinks
<1> QED
  BY <1>3, <1>4, <1>5, ListStays

\* The links of every place make a list, and Kids is what they make.
Ordered(D) == \A p \in Places : ListOf(D, p, Kids(D)[p])

\* Lists that fit the links are what Kids reads.
LEMMA OrderedAs ==
  ASSUME NEW E \in DomType, NEW K, K = [p \in Places |-> K[p]], \A p \in Places : ListOf(E, p, K[p])
  PROVE  Kids(E) = K /\ Ordered(E)
<1>1. \A p \in Places : Kids(E)[p] = K[p]
  BY KidsAre
<1>2. PICK w : Kids(E) = [p \in Places |-> w[Bound][E.first[p]]]
  BY KidsWalk
<1>3. Kids(E) = [p \in Places |-> Kids(E)[p]]
  BY <1>2
<1> QED
  BY <1>1, <1>3 DEF Ordered

\* Kids is a function of places.
LEMMA KidsFunction ==
  ASSUME NEW D
  PROVE  Kids(D) = [p \in Places |-> Kids(D)[p]]
<1>1. PICK w : Kids(D) = [p \in Places |-> w[Bound][D.first[p]]]
  BY KidsWalk
<1> QED
  BY <1>1

\* The links alone make the lists.
LEMMA SameKids ==
  ASSUME NEW D \in DomType, NEW E \in DomType, Ordered(D), E.first = D.first, E.next = D.next, E.parent = D.parent
  PROVE  Kids(E) = Kids(D) /\ Ordered(E)
<1>1. \A p \in Places : ListOf(E, p, Kids(D)[p])
  BY DEF Ordered, ListOf
<1> QED
  BY <1>1, KidsFunction, OrderedAs

\* At first nobody has children.
LEMMA EmptyKids == Kids(EmptyDom) = [p \in Places |-> <<>>] /\ Ordered(EmptyDom)
<1> DEFINE K == [p \in Places |-> <<>>]
<1>1. EmptyDom \in DomType
  BY DEF EmptyDom, DomType, PointerType
<1>2. EmptyDom.first = [p \in Places |-> Null] /\ EmptyDom.parent = [p \in Places |-> Null]
  BY DEF EmptyDom
<1>3. ASSUME NEW p \in Places PROVE ListOf(EmptyDom, p, K[p])
  <2>1. /\ K[p] = <<>> /\ DOMAIN K[p] = {} /\ K[p] \in Seq(Nodes)
    OBVIOUS
  <2>2. \A n \in Nodes : EmptyDom.parent[n] # p /\ EmptyDom.first[p] = Null
    BY <1>2, DomAssumption DEF Places
  <2> HIDE DEF K
  <2>3. Distinct(K[p]) /\ \A n \in Nodes : ~In(K[p], n)
    BY <2>1 DEF Distinct, In
  <2>4. At(K[p], 1) = Null
    BY <2>1 DEF At
  <2>5. p # Null /\ p \in Places
    BY DomAssumption DEF Places
  <2>6. EmptyDom.first[p] = At(K[p], 1)
    BY <1>2, <2>4
  <2>7. \A n \in Nodes : In(K[p], n) <=> EmptyDom.parent[n] = p
    BY <2>2, <2>3
  <2> QED
    BY <2>1, <2>3, <2>6, <2>7 DEF ListOf
<1>4. K = [p \in Places |-> K[p]]
  OBVIOUS
<1> HIDE DEF K
<1> QED
  BY <1>1, <1>3, <1>4, OrderedAs DEF K

\* What a list is without n, for all places.
Rest(K, n) == [q \in Places |-> Lists!Others(K[q], n)]

\* Unlink takes n out of the list that has it.
LEMMA UnlinkKids ==
  ASSUME NEW D, Tree(D), Ordered(D), NEW n \in Nodes, D.parent[n] # Null
  PROVE  Kids(Unlink(D, n)) = Rest(Kids(D), n) /\ Ordered(Unlink(D, n))
<1> DEFINE E == Unlink(D, n)
           K == Rest(Kids(D), n)
<1>1. D \in DomType /\ Links(D)
  BY DEF Tree
<1>2. E \in DomType
  BY <1>1, UnlinkType DEF Unlinked
<1>3. \A q \in Places : ListOf(E, q, Lists!Others(Kids(D)[q], n))
  BY <1>1, UnlinkList DEF Ordered
<1>4. \A q \in Places : ListOf(E, q, K[q])
  BY <1>3 DEF Rest
<1>5. K = [q \in Places |-> K[q]]
  BY DEF Rest
<1> HIDE DEF K, E
<1>6. Kids(E) = K /\ Ordered(E)
  BY <1>2, <1>4, <1>5, OrderedAs
<1> QED
  BY <1>6 DEF K, E

\* A node that hangs nowhere is in no list.
LEMMA NoRest ==
  ASSUME NEW D, Ordered(D), NEW n \in Nodes, D.parent[n] = Null
  PROVE  Rest(Kids(D), n) = Kids(D)
<1>1. \A q \in Places : q # Null
  BY DomAssumption DEF Places
<1>2. \A q \in Places : ~In(Kids(D)[q], n)
  BY <1>1 DEF Ordered, ListOf
<1>3. \A q \in Places : Lists!Others(Kids(D)[q], n) = Kids(D)[q]
  BY <1>2, OthersSame
<1> QED
  BY <1>3, KidsFunction DEF Rest

\* The list of unlinked nodes has no part in it.
LEMMA SameTreeKids ==
  ASSUME NEW D, Tree(D), Ordered(D), NEW E, SameTree(D, E)
  PROVE  Kids(E) = Kids(D) /\ Ordered(E)
BY SameKids DEF Tree, SameTree

\* InsertChildPreamble takes n out of its list.
LEMMA PreambleKids ==
  ASSUME NEW D, NEW gone, Sound(D, gone), Ordered(D), NEW n \in Nodes, D.doc[n] # Null
  PROVE  LET E == InsertChildPreamble(D, n)
         IN Kids(E) = Rest(Kids(D), n) /\ Ordered(E)
<1>1. Tree(D) /\ D \in DomType /\ \A d \in Docs : Distinct(D.unlinked[d])
  BY DEF Sound, Tree, Listed
<1>2. CASE D.parent[n] # Null
  BY <1>1, <1>2, UnlinkKids DEF InsertChildPreamble
<1>3. CASE D.parent[n] = Null
  <2>1. SameTree(D, SetTracked(MarkInUse(D, n), n))
    BY <1>1, MarkInUseForgets DEF Forgotten
  <2>2. InsertChildPreamble(D, n) = SetTracked(MarkInUse(D, n), n)
    BY <1>3 DEF InsertChildPreamble
  <2> QED
    BY <1>1, <1>3, <2>1, <2>2, SameTreeKids, NoRest
<1> QED
  BY <1>2, <1>3

\* The lists with n at the end, in front and behind the first k of p.
AtEnd(K, p, n) == [K EXCEPT ![p] = Append(@, n)]
AtFront(K, p, n) == [K EXCEPT ![p] = <<n>> \o @]
AtPlace(K, p, k, n) == [K EXCEPT ![p] = Put(@, k, n)]

\* Putting n into the list of p.
LEMMA PutKids ==
  ASSUME NEW D \in DomType, NEW E \in DomType, Ordered(D), NEW n \in Nodes, D.parent[n] = Null, NEW p \in Places,
         NEW k \in 0..Len(Kids(D)[p]), PutLinks(D, E, p, n, Kids(D)[p], k)
  PROVE  Kids(E) = AtPlace(Kids(D), p, k, n) /\ Ordered(E)
<1> DEFINE K == AtPlace(Kids(D), p, k, n)
<1>1. \A q \in Places : ListOf(D, q, Kids(D)[q])
  BY DEF Ordered
<1>2. ListOf(E, p, Put(Kids(D)[p], k, n))
  BY <1>1, PutInList
<1>3. \A q \in Places : q # p => ListOf(E, q, Kids(D)[q])
  BY <1>1, PutElsewhere
<1>4. \A q \in Places : K[q] = IF q = p THEN Put(Kids(D)[p], k, n) ELSE Kids(D)[q]
  BY KidsFunction DEF AtPlace
<1>5. K = [q \in Places |-> K[q]]
  BY KidsFunction DEF AtPlace
<1> HIDE DEF K
<1>6. \A q \in Places : ListOf(E, q, K[q])
  BY <1>2, <1>3, <1>4
<1>7. Kids(E) = K /\ Ordered(E)
  BY <1>5, <1>6, OrderedAs
<1> QED
  BY <1>7 DEF K

\* The last child is the last of the list.
LEMMA LastIs ==
  ASSUME NEW D \in DomType, Links(D), NEW p \in Places, NEW s, ListOf(D, p, s), NEW x \in Places
  PROVE  x = D.last[p] <=> Len(s) # 0 /\ x = s[Len(s)]
<1>1. /\ s \in Seq(Nodes) /\ Distinct(s) /\ \A n \in Nodes : In(s, n) <=> D.parent[n] = p
      /\ D.first[p] = At(s, 1) /\ \A i \in DOMAIN s : D.next[s[i]] = At(s, i + 1)
  BY DEF ListOf
<1>2. Len(s) \in Nat /\ DOMAIN s = 1..Len(s) /\ \A i \in 1..Len(s) : s[i] \in Nodes
  BY <1>1
<1>3. Null \notin Places /\ Null \notin Nodes
  BY DomAssumption DEF Places
<1>4. CASE D.first[p] = Null
  <2>1. D.last[p] = Null
    BY <1>4 DEF Links
  <2>2. ~(1 \in DOMAIN s)
    BY <1>1, <1>2, <1>3, <1>4 DEF At
  <2>3. Len(s) = 0
    BY <1>2, <2>2
  <2> QED
    BY <1>3, <2>1, <2>3
<1>5. CASE D.first[p] # Null
  <2>1. D.last[p] \in Nodes /\ D.parent[D.last[p]] = p /\ D.next[D.last[p]] = Null
    BY <1>5 DEF Links
  <2>2. PICK i \in DOMAIN s : s[i] = D.last[p]
    BY <1>1, <2>1 DEF In
  <2>3. At(s, i + 1) = Null
    BY <1>1, <2>1, <2>2
  <2>4. i = Len(s)
    BY <1>2, <1>3, <2>3 DEF At
  <2> QED
    BY <1>2, <2>2, <2>4
<1> QED
  BY <1>4, <1>5

\* Appending is putting at the end.
LEMMA AppendPut ==
  ASSUME NEW s \in Seq(Nodes), NEW n \in Nodes
  PROVE  Put(s, Len(s), n) = Append(s, n)
<1> DEFINE t == Put(s, Len(s), n)
           a == Append(s, n)
<1>1. a \in Seq(Nodes) /\ Len(a) = Len(s) + 1 /\ a[Len(s) + 1] = n /\ \A i \in 1..Len(s) : a[i] = s[i]
  BY AppendProperties
<1>2. Len(s) \in Nat /\ DOMAIN s = 1..Len(s) /\ \A i \in 1..Len(s) : s[i] \in Nodes
  OBVIOUS
<1>3. \A i \in 1..(Len(s) + 1) : t[i] = (IF i <= Len(s) THEN s[i] ELSE n) /\ t[i] \in Nodes
  BY <1>2 DEF Put
<1>4. t \in Seq(Nodes) /\ Len(t) = Len(s) + 1
  BY <1>2, <1>3 DEF Put
<1> HIDE DEF t, a
<1>5. \A i \in 1..Len(t) : t[i] = a[i]
  BY <1>1, <1>2, <1>3, <1>4
<1> QED
  BY <1>1, <1>4, <1>5, SeqEqual DEF t, a

\* Hanging a node last appends it.
LEMMA LinkLastKids ==
  ASSUME NEW D, NEW p, NEW n, MayHang(D, p, n), Ordered(D)
  PROVE  LET E == LinkLast(D, p, n)
         IN Kids(E) = AtEnd(Kids(D), p, n) /\ Ordered(E)
<1> DEFINE E == LinkLast(D, p, n)
           s == Kids(D)[p]
           k == Len(s)
<1>1. /\ D \in DomType /\ Links(D) /\ p \in Places /\ n \in Nodes /\ n # p /\ D.parent[n] = Null
      /\ n \in Places
  BY DEF MayHang, Tree, Places
<1>2. LastLinked(D, E, p, n)
  BY <1>1, LinkLastType
<1>3. ListOf(D, p, s) /\ s \in Seq(Nodes) /\ k \in 0..Len(s)
  BY <1>1 DEF Ordered, ListOf
<1>4. \A x \in Places : x = D.last[p] <=> k # 0 /\ x = s[k]
  BY <1>1, <1>3, LastIs
<1> HIDE DEF E
<1>5. At(s, k + 1) = Null
  BY <1>3 DEF At
<1>6. D.first[p] = Null <=> k = 0
  BY <1>3, DomAssumption DEF ListOf, At
<1>7. PutLinks(D, E, p, n, s, k)
  <2> HIDE DEF s, k
  <2>1. ASSUME NEW x \in Places
        PROVE /\ E.parent[x] = IF x = n THEN p ELSE D.parent[x]
              /\ E.first[x] = IF x = p /\ k = 0 THEN n ELSE D.first[x]
              /\ E.next[x] = IF x = n THEN At(s, k + 1) ELSE IF k # 0 /\ x = s[k] THEN n ELSE D.next[x]
    BY <1>1, <1>2, <1>4, <1>5, <1>6 DEF LastLinked, DomType, PointerType
  <2> QED
    BY <2>1 DEF PutLinks
<1>8. E \in DomType
  BY <1>2 DEF LastLinked
<1>9. Kids(E) = AtPlace(Kids(D), p, k, n) /\ Ordered(E)
  BY <1>1, <1>3, <1>7, <1>8, PutKids
<1>10. Put(s, k, n) = Append(s, n)
  BY <1>1, <1>3, AppendPut
<1> QED
  BY <1>9, <1>10 DEF E, AtPlace, AtEnd

\* Hanging a node first puts it before all others.
LEMMA LinkFirstKids ==
  ASSUME NEW D, NEW p, NEW n, MayHang(D, p, n), Ordered(D)
  PROVE  LET E == LinkFirst(D, p, n)
         IN Kids(E) = AtFront(Kids(D), p, n) /\ Ordered(E)
<1> DEFINE E == LinkFirst(D, p, n)
           s == Kids(D)[p]
<1>1. /\ D \in DomType /\ Links(D) /\ p \in Places /\ n \in Nodes /\ n # p /\ D.parent[n] = Null
      /\ n \in Places
  BY DEF MayHang, Tree, Places
<1>2. FirstLinked(D, E, p, n)
  BY <1>1, LinkFirstType
<1>3. ListOf(D, p, s) /\ s \in Seq(Nodes) /\ 0 \in 0..Len(s) /\ D.first[p] = At(s, 1)
  BY <1>1 DEF Ordered, ListOf
<1> HIDE DEF E
<1>7. PutLinks(D, E, p, n, s, 0)
  <2> HIDE DEF s
  <2>1. ASSUME NEW x \in Places
        PROVE /\ E.parent[x] = IF x = n THEN p ELSE D.parent[x]
              /\ E.first[x] = IF x = p THEN n ELSE D.first[x]
              /\ E.next[x] = IF x = n THEN At(s, 1) ELSE D.next[x]
    BY <1>1, <1>2, <1>3 DEF FirstLinked, DomType, PointerType
  <2> QED
    BY <2>1 DEF PutLinks
<1>8. E \in DomType
  BY <1>2 DEF FirstLinked
<1>9. Kids(E) = AtPlace(Kids(D), p, 0, n) /\ Ordered(E)
  BY <1>1, <1>3, <1>7, <1>8, PutKids
<1>10. Put(s, 0, n) = <<n>> \o s
  BY <1>3 DEF Put
<1> QED
  BY <1>9, <1>10 DEF E, AtPlace, AtFront

\* Hanging a node after a puts it behind a.
LEMMA LinkAfterKids ==
  ASSUME NEW D, NEW p, NEW a \in Nodes, NEW n, MayHang(D, p, n), Ordered(D), NEW k \in DOMAIN Kids(D)[p], a = Kids(D)[p][k], a # n
  PROVE  LET E == LinkAfter(D, p, a, n)
         IN Kids(E) = AtPlace(Kids(D), p, k, n) /\ Ordered(E)
<1> DEFINE E == LinkAfter(D, p, a, n)
           s == Kids(D)[p]
<1>1. /\ D \in DomType /\ Links(D) /\ p \in Places /\ n \in Nodes /\ n # p /\ D.parent[n] = Null
      /\ n \in Places
  BY DEF MayHang, Tree, Places
<1>2. AfterLinked(D, E, p, a, n)
  BY <1>1, LinkAfterType
<1>3. ListOf(D, p, s) /\ s \in Seq(Nodes) /\ k \in 0..Len(s) /\ k # 0 /\ D.next[a] = At(s, k + 1)
  BY <1>1 DEF Ordered, ListOf
<1> HIDE DEF E
<1>7. PutLinks(D, E, p, n, s, k)
  <2>0. a = s[k]
    OBVIOUS
  <2> HIDE DEF s
  <2>1. ASSUME NEW x \in Places
        PROVE /\ E.parent[x] = IF x = n THEN p ELSE D.parent[x]
              /\ E.first[x] = D.first[x]
              /\ E.next[x] = IF x = n THEN At(s, k + 1) ELSE IF x = a THEN n ELSE D.next[x]
    BY <1>1, <1>2, <1>3 DEF AfterLinked, DomType, PointerType
  <2> QED
    BY <1>3, <2>0, <2>1 DEF PutLinks
<1>8. E \in DomType
  BY <1>2 DEF AfterLinked
<1>9. Kids(E) = AtPlace(Kids(D), p, k, n) /\ Ordered(E)
  BY <1>1, <1>3, <1>7, <1>8, PutKids
<1> QED
  BY <1>9 DEF E

\* InsertEndChild and InsertFirstChild put the node at the end and at the front.
LEMMA InsertKids ==
  ASSUME NEW D, NEW gone, NEW p, NEW n, MayMove(D, gone, p, n), Ordered(D)
  PROVE  /\ Kids(InsertEndChild(D, p, n)) = AtEnd(Rest(Kids(D), n), p, n)
         /\ Kids(InsertFirstChild(D, p, n)) = AtFront(Rest(Kids(D), n), p, n)
         /\ Ordered(InsertEndChild(D, p, n)) /\ Ordered(InsertFirstChild(D, p, n))
<1> DEFINE E == InsertChildPreamble(D, n)
<1>1. MayHang(E, p, n)
  BY PreambleMayHang
<1>2. Kids(E) = Rest(Kids(D), n) /\ Ordered(E)
  BY PreambleKids DEF MayMove
<1>3. InsertEndChild(D, p, n) = LinkLast(E, p, n) /\ InsertFirstChild(D, p, n) = LinkFirst(E, p, n)
  BY DEF InsertEndChild, InsertFirstChild
<1> HIDE DEF E
<1> QED
  BY <1>1, <1>2, <1>3, LinkLastKids, LinkFirstKids

\* Two lists joined, position by position.
LEMMA JoinIs ==
  ASSUME NEW c \in Seq(Nodes), NEW b \in Seq(Nodes)
  PROVE  c \o b = [x \in 1..(Len(c) + Len(b)) |-> IF x <= Len(c) THEN c[x] ELSE b[x - Len(c)]]
<1>1. c \o b \in Seq(Nodes) /\ Len(c \o b) = Len(c) + Len(b)
  BY ConcatProperties
<1>2. c \o b \in [1..Len(c \o b) -> Nodes]
  BY <1>1, LenProperties
<1>3. \A x \in 1..(Len(c) + Len(b)) : (c \o b)[x] = IF x <= Len(c) THEN c[x] ELSE b[x - Len(c)]
  BY ConcatProperties
<1> QED
  BY <1>1, <1>2, <1>3

\* Behind, when the child is at position j.
LEMMA BehindPut ==
  ASSUME NEW s \in Seq(Nodes), Distinct(s), NEW j \in 1..Len(s), NEW n \in Nodes
  PROVE  Behind(s, s[j], n) = Put(s, j, n)
<1> DEFINE i == CHOOSE i \in DOMAIN s : s[i] = s[j]
<1>1. i = j
  <2>1. j \in DOMAIN s /\ s[j] = s[j]
    OBVIOUS
  <2>2. i \in DOMAIN s /\ s[i] = s[j]
    BY <2>1, Zenon
  <2> QED
    BY <2>1, <2>2 DEF Distinct
<1>2. Behind(s, s[j], n) = SubSeq(s, 1, i) \o <<n>> \o SubSeq(s, i + 1, Len(s))
  BY Zenon DEF Behind
<1> HIDE DEF i
<1>3. SubSeq(s, 1, j) \in Seq(Nodes) /\ Len(SubSeq(s, 1, j)) = j
      /\ \A x \in 1..j : SubSeq(s, 1, j)[x] = s[x]
  OBVIOUS
<1>4. SubSeq(s, j + 1, Len(s)) \in Seq(Nodes) /\ Len(SubSeq(s, j + 1, Len(s))) = Len(s) - j
      /\ \A x \in 1..(Len(s) - j) : SubSeq(s, j + 1, Len(s))[x] = s[x + j]
  OBVIOUS
<1> DEFINE a == SubSeq(s, 1, j)
           b == SubSeq(s, j + 1, Len(s))
<1>5. a \in Seq(Nodes) /\ Len(a) = j /\ b \in Seq(Nodes) /\ Len(b) = Len(s) - j
      /\ (\A x \in 1..j : a[x] = s[x]) /\ (\A x \in 1..(Len(s) - j) : b[x] = s[x + j])
  BY <1>3, <1>4
<1> HIDE DEF a, b
<1>6. a \o <<n>> \o b = [x \in 1..(Len(s) + 1) |->
          IF x <= j THEN a[x] ELSE IF x = j + 1 THEN n ELSE b[x - (j + 1)]]
  <2> DEFINE c == a \o <<n>>
  <2>1. c \in Seq(Nodes) /\ Len(c) = j + 1 /\ c[j + 1] = n /\ \A x \in 1..j : c[x] = a[x]
    BY <1>5
  <2> HIDE DEF c
  <2>2. c \o b = [x \in 1..(Len(s) + 1) |-> IF x <= j + 1 THEN c[x] ELSE b[x - (j + 1)]]
    <3>1. c \o b = [x \in 1..(Len(c) + Len(b)) |-> IF x <= Len(c) THEN c[x] ELSE b[x - Len(c)]]
      BY <1>5, <2>1, JoinIs
    <3>2. Len(c) + Len(b) = Len(s) + 1
      BY <1>5, <2>1
    <3> QED
      BY <2>1, <3>1, <3>2
  <2>3. \A x \in 1..(Len(s) + 1) : (IF x <= j + 1 THEN c[x] ELSE b[x - (j + 1)])
          = IF x <= j THEN a[x] ELSE IF x = j + 1 THEN n ELSE b[x - (j + 1)]
    BY <2>1
  <2>4. a \o <<n>> \o b = c \o b
    BY DEF c
  <2> QED
    BY <2>2, <2>3, <2>4
<1>7. ASSUME NEW x \in 1..(Len(s) + 1)
      PROVE  (IF x <= j THEN a[x] ELSE IF x = j + 1 THEN n ELSE b[x - (j + 1)])
               = IF x <= j THEN s[x] ELSE IF x = j + 1 THEN n ELSE s[x - 1]
  <2>1. x <= j => a[x] = s[x]
    BY <1>5
  <2>2. ~(x <= j) /\ x # j + 1 => x - (j + 1) \in 1..(Len(s) - j) /\ x - (j + 1) + j = x - 1
    OBVIOUS
  <2>3. ~(x <= j) /\ x # j + 1 => b[x - (j + 1)] = s[x - 1]
    BY <1>5, <2>2
  <2> QED
    BY <2>1, <2>3
<1>8. a \o <<n>> \o b = Put(s, j, n)
  BY <1>6, <1>7 DEF Put
<1> QED
  BY <1>1, <1>2, <1>8 DEF a, b

\* Where a child is when n has left the list, and what is next to it then.
LEMMA LeftAt ==
  ASSUME NEW s \in Seq(Nodes), Distinct(s), NEW i \in 1..Len(s), NEW n \in Nodes, n # s[i]
  PROVE  LET t == Lists!Others(s, n)
         IN /\ t \in Seq(Nodes) /\ Distinct(t)
            /\ \E j \in 1..Len(t) :
                 /\ t[j] = s[i]
                 /\ At(t, j + 1) = Null <=>
                      \/ i = Len(s)
                      \/ i + 1 = Len(s) /\ s[i + 1] = n
<1> DEFINE L == Len(s)
<1>0. L \in Nat /\ DOMAIN s = 1..L /\ (\A j \in 1..L : s[j] \in Nodes) /\ Null \notin Nodes
  BY DomAssumption
<1>1. CASE ~In(s, n)
  <2>1. Lists!Others(s, n) = s
    BY <1>1, OthersSame
  <2>n. L \in 1..L
    BY <1>0
  <2>2. ~(i + 1 = L /\ s[i + 1] = n)
    BY <1>0, <1>1, <2>n DEF In
  <2>3. At(s, i + 1) = Null <=> i = L
    <3>1. i + 1 \in DOMAIN s <=> i # L
      <4> HIDE DEF L
      <4> QED
        BY <1>0
    <3> QED
      BY <1>0, <3>1 DEF At
  <2> QED
    BY <2>1, <2>2, <2>3
<1>2. CASE In(s, n)
  <2>1. PICK k \in 1..L : s[k] = n
    BY <1>0, <1>2 DEF In
  <2> DEFINE t == Dropped(s, k)
             j == IF i < k THEN i ELSE i - 1
  <2>2. Lists!Others(s, n) = t
    BY <2>1, OthersDropped
  <2>3. t \in Seq(Nodes) /\ Distinct(t) /\ Len(t) = L - 1 /\ DOMAIN t = 1..(L - 1)
    <3>1. t \in Seq(Nodes) /\ Distinct(t) /\ Len(t) = L - 1
      BY DroppedList
    <3> HIDE DEF t
    <3> QED
      BY <3>1
  <2>4. \A x \in 1..(L - 1) : t[x] = IF x < k THEN s[x] ELSE s[x + 1]
    BY DEF Dropped
  <2>5. i # k /\ k \in 1..L /\ i \in 1..L
    BY <2>1
  <2>6. j \in 1..(L - 1) /\ (i < k => j = i) /\ (~(i < k) => j = i - 1 /\ ~(j < k) /\ j + 1 = i)
    <3> HIDE DEF L
    <3> QED
      BY <1>0, <2>5
  <2> HIDE DEF t, j
  <2>7. t[j] = s[i]
    BY <2>4, <2>6
  <2>8. At(t, j + 1) = Null <=> j = L - 1
    <3>1. \A x \in 1..(L - 1) : t[x] \in Nodes
      BY <2>3
    <3>2. j + 1 \in DOMAIN t <=> j # L - 1
      <4>1. j \in 1..(L - 1) /\ L \in Nat /\ DOMAIN t = 1..(L - 1)
        BY <1>0, <2>3, <2>6
      <4> HIDE DEF L
      <4> QED
        BY <4>1
    <3> QED
      BY <1>0, <2>3, <3>1, <3>2 DEF At
  <2>9. j = L - 1 <=> i = L \/ (i + 1 = L /\ k = i + 1)
    <3> HIDE DEF L
    <3> QED
      BY <1>0, <2>5, <2>6
  <2>10. i + 1 = L => (s[i + 1] = n <=> k = i + 1)
    BY <1>0, <2>1 DEF Distinct
  <2>11. At(t, j + 1) = Null <=> i = L \/ (i + 1 = L /\ s[i + 1] = n)
    BY <2>8, <2>9, <2>10
  <2> QED
    BY <2>2, <2>3, <2>6, <2>7, <2>11
<1> QED
  BY <1>1, <1>2

BehindIn(K, p, a, n) == [K EXCEPT ![p] = Behind(@, a, n)]

\* InsertAfterChild puts the node behind the child it is told, unless it would
\* leave that one without a next child.
LEMMA AfterKids ==
  ASSUME NEW D, NEW gone, NEW p, NEW n, MayMove(D, gone, p, n), Ordered(D),
         NEW i \in 1..Len(Kids(D)[p])
  PROVE  LET s == Kids(D)[p]
         IN /\ InsertAfterIsNull(D, s[i], n) <=> i + 1 = Len(s) /\ s[i + 1] = n
            /\ ~InsertAfterIsNull(D, s[i], n) =>
                 /\ Kids(InsertAfterChild(D, p, s[i], n)) =
                      IF s[i] = n THEN Kids(D) ELSE BehindIn(Rest(Kids(D), n), p, s[i], n)
                 /\ Ordered(InsertAfterChild(D, p, s[i], n))
<1> DEFINE s == Kids(D)[p]
           a == s[i]
           E == InsertChildPreamble(D, n)
           t == Lists!Others(s, n)
           L == Len(s)
<1>0. D \in DomType /\ p \in Places /\ n \in Nodes /\ Sound(D, gone) /\ D.doc[n] # Null
  BY DEF MayMove, Sound, Tree
<1>1. ListOf(D, p, s) /\ s \in Seq(Nodes) /\ Distinct(s) /\ L \in Nat /\ DOMAIN s = 1..L
  BY <1>0 DEF Ordered, ListOf
<1>2. MayHang(E, p, n) /\ Kids(E) = Rest(Kids(D), n) /\ Ordered(E) /\ Kids(E)[p] = t
  <2>1. MayHang(E, p, n)
    BY PreambleMayHang
  <2>2. Kids(E) = Rest(Kids(D), n) /\ Ordered(E)
    BY <1>0, PreambleKids
  <2>3. Rest(Kids(D), n)[p] = t
    BY <1>0 DEF Rest
  <2> QED
    BY <2>1, <2>2, <2>3
<1>3. a \in Nodes /\ Null \notin Nodes /\ L \in 1..L /\ i \in 1..L
  BY <1>1, DomAssumption
<1>4. D.next[a] = Null <=> i = L
  <2>1. D.next[a] = At(s, i + 1)
    BY <1>1, <1>3 DEF ListOf
  <2>2. i + 1 \in DOMAIN s <=> i # L
    <3> HIDE DEF L
    <3> QED
      BY <1>1, <1>3
  <2>3. \A x \in DOMAIN s : s[x] \in Nodes
    BY <1>1
  <2> HIDE DEF s, L
  <2> QED
    BY <1>3, <2>1, <2>2, <2>3 DEF At
<1>5. CASE a = n
  <2>1. ~InsertAfterIsNull(D, a, n) /\ InsertAfterChild(D, p, a, n) = D
    BY <1>5 DEF InsertAfterIsNull, InsertAfterChild
  <2>2. ~(i + 1 = L /\ s[i + 1] = n)
    <3>1. i + 1 = L => i + 1 \in DOMAIN s /\ i \in DOMAIN s /\ i # i + 1
      <4> HIDE DEF L
      <4> QED
        BY <1>1, <1>3
    <3> QED
      BY <1>1, <1>5, <3>1 DEF Distinct
  <2> QED
    BY <1>5, <2>1, <2>2
<1>6. CASE a # n
  <2>1. PICK j \in 1..Len(t) : t[j] = a /\ (At(t, j + 1) = Null <=> i = L \/ (i + 1 = L /\ s[i + 1] = n))
    BY <1>0, <1>1, <1>6, LeftAt
  <2>2. t \in Seq(Nodes) /\ Distinct(t)
    BY <1>0, <1>1, <1>6, LeftAt
  <2>n. a \in Nodes
    BY <1>3
  <2> HIDE DEF t, s, L, E, a
  <2>3. Behind(t, a, n) = Put(t, j, n)
    BY <1>0, <2>1, <2>2, BehindPut
  <2>4. E.next[a] = At(t, j + 1)
    <3>1. ListOf(E, p, t)
      BY <1>0, <1>2 DEF Ordered
    <3>2. j \in DOMAIN t
      BY <2>1, <2>2
    <3> QED
      BY <2>1, <3>1, <3>2 DEF ListOf
  <2>5. InsertAfterIsNull(D, a, n) <=> i # L /\ i + 1 = L /\ s[i + 1] = n
    BY <1>4, <1>6, <2>1, <2>4 DEF InsertAfterIsNull, E
  <2>6. i + 1 = L => i # L
    BY <1>1, <1>3
  <2>7. ASSUME ~InsertAfterIsNull(D, a, n)
        PROVE  /\ Kids(InsertAfterChild(D, p, a, n)) = AtPlace(Rest(Kids(D), n), p, j, n)
               /\ Ordered(InsertAfterChild(D, p, a, n))
    <3>1. CASE i = L
      <4>1. InsertAfterChild(D, p, a, n) = InsertEndChild(D, p, n)
        BY <1>4, <1>6, <3>1 DEF InsertAfterChild
      <4>2. j = Len(t)
        <5>1. At(t, j + 1) = Null
          BY <2>1, <3>1
        <5>2. \A x \in DOMAIN t : t[x] \in Nodes
          BY <2>2
        <5>3. j + 1 \notin DOMAIN t
          BY <1>3, <5>1, <5>2 DEF At
        <5> QED
          BY <2>1, <2>2, <5>3
      <4>3. Put(t, j, n) = Append(t, n)
        BY <1>0, <2>2, <4>2, AppendPut
      <4>4. Kids(InsertEndChild(D, p, n)) = AtEnd(Rest(Kids(D), n), p, n)
            /\ Ordered(InsertEndChild(D, p, n))
        BY InsertKids
      <4> QED
        BY <1>2, <4>1, <4>3, <4>4 DEF AtEnd, AtPlace
    <3>2. CASE i # L
      <4>1. InsertAfterChild(D, p, a, n) = LinkAfter(E, p, a, n)
        BY <1>4, <1>6, <3>2 DEF InsertAfterChild, E
      <4>2. j \in DOMAIN t
        BY <2>1, <2>2
      <4>3. /\ MayHang(E, p, n) /\ Ordered(E) /\ a \in Nodes /\ j \in DOMAIN Kids(E)[p]
            /\ a = Kids(E)[p][j] /\ a # n
        BY <1>2, <1>6, <2>1, <2>n, <4>2
      <4>4. Kids(LinkAfter(E, p, a, n)) = AtPlace(Kids(E), p, j, n) /\ Ordered(LinkAfter(E, p, a, n))
        BY <4>3, LinkAfterKids
      <4> QED
        BY <1>2, <4>1, <4>4
    <3> QED
      BY <3>1, <3>2
  <2>8. AtPlace(Rest(Kids(D), n), p, j, n) = BehindIn(Rest(Kids(D), n), p, a, n)
    BY <1>2, <2>3 DEF AtPlace, BehindIn
  <2> QED
    BY <1>6, <2>5, <2>6, <2>7, <2>8 DEF a, s, L
<1> QED
  BY <1>5, <1>6

\* n is in no list any more.
LEMMA RestOut ==
  ASSUME NEW D, Ordered(D), NEW n \in Nodes, NEW q \in Places
  PROVE  LET t == Rest(Kids(D), n)[q]
         IN t \in Seq(Nodes) /\ Distinct(t) /\ ~In(t, n)
<1> DEFINE s == Kids(D)[q]
           t == Lists!Others(s, n)
<1>1. s \in Seq(Nodes) /\ Distinct(s)
  BY DEF Ordered, ListOf
<1>2. Rest(Kids(D), n)[q] = t
  BY DEF Rest
<1> HIDE DEF s, t
<1>3. CASE ~In(s, n)
  BY <1>1, <1>2, <1>3, OthersSame DEF t
<1>4. CASE In(s, n)
  <2>1. PICK k \in 1..Len(s) : s[k] = n
    BY <1>1, <1>4 DEF In
  <2>2. t = Dropped(s, k)
    BY <1>1, <2>1, OthersDropped DEF t
  <2> QED
    BY <1>1, <1>2, <2>1, <2>2, DroppedList
<1> QED
  BY <1>3, <1>4

\* Taking out what was put in.
LEMMA OthersPut ==
  ASSUME NEW t \in Seq(Nodes), Distinct(t), NEW n \in Nodes, ~In(t, n), NEW k \in 0..Len(t)
  PROVE  Lists!Others(Put(t, k, n), n) = t
<1> DEFINE r == Put(t, k, n)
           L == Len(t)
<1>1. r \in Seq(Nodes) /\ Distinct(r) /\ Len(r) = L + 1
  BY PutList
<1>2. \A i \in 1..(L + 1) : r[i] = IF i <= k THEN t[i] ELSE IF i = k + 1 THEN n ELSE t[i - 1]
  BY DEF Put
<1>3. L \in Nat /\ k \in Nat /\ k <= L
  OBVIOUS
<1>9. t = [i \in 1..L |-> t[i]]
  OBVIOUS
<1> HIDE DEF r, L
<1>4. k + 1 \in 1..Len(r) /\ r[k + 1] = n
  <2>1. k + 1 \in 1..(L + 1) /\ ~(k + 1 <= k)
    BY <1>3
  <2> QED
    BY <1>1, <1>2, <2>1
<1>5. Lists!Others(r, n) = Dropped(r, k + 1)
  BY <1>1, <1>4, OthersDropped
<1>6. Dropped(r, k + 1) = [i \in 1..L |-> IF i < k + 1 THEN r[i] ELSE r[i + 1]]
  BY <1>1, <1>3 DEF Dropped
<1>7. \A i \in 1..L : (IF i < k + 1 THEN r[i] ELSE r[i + 1]) = t[i]
  <2>1. \A i \in 1..L : /\ i \in 1..(L + 1) /\ i + 1 \in 1..(L + 1) /\ i + 1 - 1 = i
                        /\ i < k + 1 <=> i <= k
                        /\ ~(i <= k) => ~(i + 1 <= k) /\ i + 1 # k + 1
    BY <1>3
  <2> QED
    BY <1>2, <2>1
<1>8. Dropped(r, k + 1) = [i \in 1..L |-> t[i]]
  BY <1>6, <1>7
<1> QED
  BY <1>5, <1>8, <1>9 DEF r

\* From D to E one node, at most, joined, left or changed its place in the lists.
OneChild(D, E) ==
  /\ Ordered(E)
  /\ \/ Kids(E) = Kids(D)
     \/ \E n \in Nodes : Rest(Kids(E), n) = Rest(Kids(D), n)

\* A node that leaves its list.
LEMMA OutIsOne ==
  ASSUME NEW D, Ordered(D), NEW E, Ordered(E), NEW n \in Nodes, Kids(E) = Rest(Kids(D), n)
  PROVE  OneChild(D, E)
<1>1. ASSUME NEW q \in Places PROVE Rest(Kids(E), n)[q] = Rest(Kids(D), n)[q]
  <2>1. ~In(Rest(Kids(D), n)[q], n)
    BY RestOut
  <2>2. Rest(Kids(E), n)[q] = Lists!Others(Rest(Kids(D), n)[q], n)
    BY DEF Rest
  <2> QED
    BY <2>1, <2>2, OthersSame
<1>2. Rest(Kids(E), n) = Rest(Kids(D), n)
  BY <1>1 DEF Rest
<1> QED
  BY <1>2 DEF OneChild

\* A node that is put into a list.
LEMMA PutIsOne ==
  ASSUME NEW D, Ordered(D), NEW E, Ordered(E), NEW n \in Nodes, NEW p \in Places,
         NEW k \in 0..Len(Rest(Kids(D), n)[p]), Kids(E) = AtPlace(Rest(Kids(D), n), p, k, n)
  PROVE  OneChild(D, E)
<1> DEFINE K == Rest(Kids(D), n)
<1>0. K = [q \in Places |-> K[q]]
  BY DEF Rest
<1>1. \A q \in Places : Kids(E)[q] = IF q = p THEN Put(K[p], k, n) ELSE K[q]
  BY <1>0 DEF AtPlace
<1>2. ASSUME NEW q \in Places PROVE Lists!Others(Kids(E)[q], n) = K[q]
  <2>1. K[q] \in Seq(Nodes) /\ Distinct(K[q]) /\ ~In(K[q], n)
    BY RestOut
  <2> HIDE DEF K
  <2>2. CASE q = p
    <3>1. k \in 0..Len(K[q])
      BY <2>2 DEF K
    <3> QED
      BY <1>1, <2>1, <2>2, <3>1, OthersPut
  <2>3. CASE q # p
    BY <1>1, <2>1, <2>3, OthersSame
  <2> QED
    BY <2>2, <2>3
<1> HIDE DEF K
<1>3. Rest(Kids(E), n) = K
  BY <1>0, <1>2 DEF Rest
<1> QED
  BY <1>3 DEF OneChild, K

\* InsertEndChild and InsertFirstChild move one child.
LEMMA InsertIsOne ==
  ASSUME NEW D, NEW gone, NEW p, NEW n, MayMove(D, gone, p, n), Ordered(D)
  PROVE  OneChild(D, InsertEndChild(D, p, n)) /\ OneChild(D, InsertFirstChild(D, p, n))
<1> DEFINE t == Rest(Kids(D), n)[p]
<1>0. p \in Places /\ n \in Nodes
  BY DEF MayMove
<1>1. t \in Seq(Nodes)
  BY <1>0, RestOut
<1>2. Put(t, Len(t), n) = Append(t, n) /\ Len(t) \in 0..Len(t) /\ 0 \in 0..Len(t)
  BY <1>0, <1>1, AppendPut
<1>3. Put(t, 0, n) = <<n>> \o t
  BY <1>1 DEF Put
<1> HIDE DEF t
<1>4. /\ Kids(InsertEndChild(D, p, n)) = AtEnd(Rest(Kids(D), n), p, n)
      /\ Kids(InsertFirstChild(D, p, n)) = AtFront(Rest(Kids(D), n), p, n)
      /\ Ordered(InsertEndChild(D, p, n)) /\ Ordered(InsertFirstChild(D, p, n))
  BY InsertKids
<1>5. /\ AtEnd(Rest(Kids(D), n), p, n) = AtPlace(Rest(Kids(D), n), p, Len(t), n)
      /\ AtFront(Rest(Kids(D), n), p, n) = AtPlace(Rest(Kids(D), n), p, 0, n)
  BY <1>2, <1>3 DEF AtEnd, AtFront, AtPlace, t
<1>6. Len(t) \in 0..Len(Rest(Kids(D), n)[p]) /\ 0 \in 0..Len(Rest(Kids(D), n)[p])
  BY <1>2 DEF t
<1> QED
  BY <1>0, <1>4, <1>5, <1>6, PutIsOne

\* InsertAfterChild moves one child.
LEMMA AfterIsOne ==
  ASSUME NEW D, NEW gone, NEW p, NEW a \in Nodes, NEW n, MayMove(D, gone, p, n), Ordered(D),
         D.parent[a] = p, ~InsertAfterIsNull(D, a, n)
  PROVE  OneChild(D, InsertAfterChild(D, p, a, n))
<1> DEFINE s == Kids(D)[p]
           t == Rest(Kids(D), n)[p]
           E == InsertAfterChild(D, p, a, n)
<1>0. p \in Places /\ n \in Nodes
  BY DEF MayMove
<1>1. s \in Seq(Nodes) /\ Distinct(s) /\ In(s, a)
  BY <1>0 DEF Ordered, ListOf
<1>2. PICK i \in 1..Len(s) : s[i] = a
  BY <1>1 DEF In
<1>3. /\ Kids(E) = IF a = n THEN Kids(D) ELSE BehindIn(Rest(Kids(D), n), p, a, n)
      /\ Ordered(E)
  <2>1. /\ Kids(InsertAfterChild(D, p, s[i], n)) =
             IF s[i] = n THEN Kids(D) ELSE BehindIn(Rest(Kids(D), n), p, s[i], n)
        /\ Ordered(InsertAfterChild(D, p, s[i], n))
    BY <1>2, AfterKids
  <2> QED
    BY <1>2, <2>1
<1>4. CASE a = n
  BY <1>3, <1>4 DEF OneChild
<1>5. CASE a # n
  <2>1. t = Lists!Others(s, n)
    BY <1>0 DEF Rest
  <2>2. PICK j \in 1..Len(t) : t[j] = a
    BY <1>0, <1>1, <1>2, <1>5, <2>1, LeftAt
  <2>3. t \in Seq(Nodes) /\ Distinct(t)
    BY <1>0, RestOut
  <2> HIDE DEF t, s, E
  <2>4. Behind(t, a, n) = Put(t, j, n) /\ j \in 0..Len(t)
    BY <1>0, <2>2, <2>3, BehindPut
  <2>5. Kids(E) = AtPlace(Rest(Kids(D), n), p, j, n)
    BY <1>3, <1>5, <2>4 DEF AtPlace, BehindIn, t
  <2>6. j \in 0..Len(Rest(Kids(D), n)[p])
    BY <2>4 DEF t
  <2>7. Ordered(E)
    BY <1>3
  <2>8. OneChild(D, E)
    BY <1>0, <2>5, <2>6, <2>7, PutIsOne
  <2> QED
    BY <2>8 DEF E
<1> QED
  BY <1>4, <1>5

-----------------------------------------------------------------------------
\* The lists of children at the steps of the calls.

\* A node that leaves its tree leaves its list.
LEMMA LeaveKids ==
  ASSUME NEW D, NEW gone, NEW n \in Nodes, Sound(D, gone), D.parent[n] # Null, Ordered(D)
  PROVE  Kids(LeaveTree(D, n)) = Rest(Kids(D), n) /\ Ordered(LeaveTree(D, n))
<1> DEFINE U == Unlink(D, n)
           E == LeaveTree(D, n)
<1>1. Tree(D)
  BY DEF Sound
<1>2. Kids(U) = Rest(Kids(D), n) /\ Ordered(U)
  BY <1>1, UnlinkKids
<1>3. U \in DomType /\ E \in DomType
  BY <1>1, UnlinkTree, LeaveSound DEF Sound, Tree
<1>4. E = [U EXCEPT !.unlinked = [d \in Docs |-> Without(U.unlinked[d], n)]]
  BY DEF LeaveTree, MarkInUse
<1> HIDE DEF U, E
<1>5. E.first = U.first /\ E.next = U.next /\ E.parent = U.parent
  BY <1>3, <1>4 DEF DomType
<1> QED
  BY <1>2, <1>3, <1>5, SameKids DEF E

\* A new node is in no list.
LEMMA CreateKids ==
  ASSUME NEW D, NEW gone, NEW d \in Docs, NEW n \in Nodes, Sound(D, gone), D.doc[n] = Null, n \notin gone, Ordered(D)
  PROVE  LET C == CreateUnlinkedNode(D, d, n)
         IN Kids(C) = Kids(D) /\ Ordered(C) /\ C.first = D.first /\ C.parent = D.parent /\ C \in DomType
<1> DEFINE C == CreateUnlinkedNode(D, d, n)
<1>1. D \in DomType /\ C \in DomType
  BY CreateSound DEF Sound, Tree
<1>2. C.first = D.first /\ C.next = D.next /\ C.parent = D.parent
  BY <1>1 DEF CreateUnlinkedNode, DomType
<1> QED
  BY <1>1, <1>2, SameKids

\* A node that is freed is in no list.
LEMMA FreeKids ==
  ASSUME NEW D, NEW gone, NEW n \in Nodes, Sound(D, gone), n \in gone, D.parent[n] = Null, D.first[n] = Null, Ordered(D)
  PROVE  Kids(Free(D, n)) = Kids(D) /\ Ordered(Free(D, n))
<1> DEFINE F == Free(D, n)
<1>1. D \in DomType /\ F \in DomType
  BY FreeSound DEF Sound, Tree
<1>2. F.first = D.first /\ F.next = D.next /\ F.parent = D.parent
  BY <1>1 DEF Free, DomType
<1> QED
  BY <1>1, <1>2, SameKids

\* Deleting a node takes it out of its list.
LEMMA DropKids ==
  ASSUME NEW D, NEW gone, NEW n \in Nodes, Sound(D, gone), D.doc[n] # Null, n \notin gone, Ordered(D)
  PROVE  Kids(DropNode(D, n)) = Rest(Kids(D), n) /\ Ordered(DropNode(D, n))
<1>1. Tree(D) /\ D \in DomType /\ \A d \in Docs : Distinct(D.unlinked[d])
  BY DEF Sound, Tree, Listed
<1>2. CASE D.parent[n] # Null
  BY <1>2, LeaveKids DEF DropNode
<1>3. CASE D.parent[n] = Null
  <2>1. DropNode(D, n) = MarkInUse(SetTracked(D, n), n)
    BY <1>3 DEF DropNode, LeaveTree, SetTracked
  <2>2. SameTree(D, MarkInUse(SetTracked(D, n), n))
    BY <1>1, MarkInUseForgets DEF Forgotten
  <2> QED
    BY <1>1, <1>3, <2>1, <2>2, SameTreeKids, NoRest
<1> QED
  BY <1>2, <1>3

\* The lists are as they were, or one node left.
LEMMA LeaveIsOne ==
  ASSUME NEW D, NEW gone, NEW n \in Nodes, Sound(D, gone), Ordered(D)
  PROVE  /\ D.parent[n] # Null => OneChild(D, LeaveTree(D, n))
         /\ D.doc[n] # Null /\ n \notin gone => OneChild(D, DropNode(D, n))
BY LeaveKids, DropKids, OutIsOne

\* A new node is put into a list, or deleted again.
LEMMA CreateIsOne ==
  ASSUME NEW D, NEW E, OneChild(D, E), NEW B, Kids(D) = Kids(B)
  PROVE  OneChild(B, E)
BY DEF OneChild

\* Deleting the first child of a place takes it out.
LEMMA DeleteFirstIsOne ==
  ASSUME IInv, Ordered(dom), NEW p \in Places, dom.first[p] # Null
  PROVE  /\ OneChild(dom, LeaveTree(dom, dom.first[p]))
         /\ dom.first[p] \in Nodes
         /\ Kids(LeaveTree(dom, dom.first[p])) = Rest(Kids(dom), dom.first[p])
<1>1. Sound(dom, Gone) /\ Links(dom)
  BY DEF IInv, Sound, Tree
<1>2. dom.first[p] \in Nodes /\ dom.parent[dom.first[p]] = p /\ p # Null
  BY <1>1, DomAssumption DEF Links, Places
<1> QED
  BY <1>1, <1>2, LeaveIsOne, LeaveKids

\* A new element, text... is put into the list it belongs to.
LEMMA ParseIsOne ==
  ASSUME IInv, Ordered(dom), NEW n \in Nodes, ParseLeaf(n) \/ ParseOpen(n) \/ ParseBad(n) \/ ParseClose(n)
  PROVE  OneChild(dom, dom')
<1> DEFINE C == CreateUnlinkedNode(dom, target, n)
<1>1. pc \in Loads /\ dying = <<>> /\ dom.doc[n] = Null
  BY DEF ParseLeaf, ParseOpen, ParseBad, ParseClose, Parsing, Unused, Alive
<1>2. Sound(dom, {}) /\ target \in Docs /\ n \notin {}
  BY <1>1, ParsingOK
<1>3. Sound(C, {}) /\ C.doc[n] # Null /\ Kids(C) = Kids(dom) /\ Ordered(C)
  <2>1. Sound(C, {}) /\ C.doc = [dom.doc EXCEPT ![n] = target]
    BY <1>1, <1>2, CreateSound
  <2>2. Kids(C) = Kids(dom) /\ Ordered(C)
    BY <1>1, <1>2, CreateKids
  <2> QED
    BY <1>2, <2>1, <2>2, DomAssumption DEF Sound, Tree, DomType
<1>4. CASE ParseLeaf(n)
  <2>1. dom' = InsertEndChild(C, LastOf(open), n) /\ MayMove(C, {}, LastOf(open), n)
    BY <1>4, ParseLeafMoves
  <2> HIDE DEF C
  <2>2. OneChild(C, dom')
    BY <1>3, <2>1, InsertIsOne
  <2> QED
    BY <1>3, <2>2, CreateIsOne
<1>5. CASE ParseOpen(n)
  BY <1>3, <1>5 DEF ParseOpen, OneChild
<1>6. CASE ParseBad(n)
  <2>1. dom' = DropNode(C, n)
    BY <1>6 DEF ParseBad
  <2> HIDE DEF C
  <2>2. OneChild(C, dom')
    BY <1>2, <1>3, <2>1, LeaveIsOne
  <2> QED
    BY <1>3, <2>2, CreateIsOne
<1>7. CASE ParseClose(n)
  <2> DEFINE D == DropNode(C, n)
             F == Free(D, n)
             e == LastOf(open)
             p == open[Len(open) - 1]
  <2>1. dom' = InsertEndChild(F, p, e) /\ MayMove(F, {}, p, e) /\ Sound(D, {n}) /\ D.parent[n] = Null /\ D.first[n] = Null
    BY <1>7, ParseCloseMoves
  <2>2. C.parent[n] = Null
    BY <1>1, <1>2, CreateKids, UnusedAlone
  <2> HIDE DEF C, e, p
  <2>3. Kids(D) = Kids(dom) /\ Ordered(D)
    BY <1>2, <1>3, <2>2, DropKids, NoRest
  <2> HIDE DEF D
  <2>4. Kids(F) = Kids(dom) /\ Ordered(F)
    BY <2>1, <2>3, FreeKids
  <2> HIDE DEF F
  <2>5. OneChild(F, dom')
    BY <2>1, <2>4, InsertIsOne
  <2> QED
    BY <2>4, <2>5, CreateIsOne
<1> QED
  BY <1>4, <1>5, <1>6, <1>7

\* The calls change one list, or leave all of them.
LEMMA CallIsOne ==
  ASSUME IInv, Ordered(dom), Call
  PROVE  OneChild(dom, dom')
<1>0. ASSUME dom' = dom PROVE OneChild(dom, dom')
  BY <1>0 DEF OneChild
<1>s. ASSUME Idle PROVE Sound(dom, {})
  BY <1>s, NoneGone DEF IInv, Idle
<1>1. ASSUME NEW d \in Docs, NEW n \in Nodes, New(d, n) PROVE OneChild(dom, dom')
  <2>1. Sound(dom, {}) /\ dom.doc[n] = Null /\ n \notin {} /\ dom' = CreateUnlinkedNode(dom, d, n)
    BY <1>1, <1>s DEF New, Edit, Unused, Alive
  <2> QED
    BY <2>1, CreateKids DEF OneChild
<1>m. ASSUME NEW p \in Places, NEW n \in Nodes, MayInsert(p, n) PROVE MayMove(dom, {}, p, n)
  BY <1>m, <1>s DEF MayInsert, MayMove, Alive
<1>2. ASSUME NEW p \in Places, NEW n \in Nodes, AddLastChild(p, n) \/ AddFirstChild(p, n) PROVE OneChild(dom, dom')
  BY <1>2, <1>m, InsertIsOne DEF AddLastChild, AddFirstChild, Edit
<1>3. ASSUME NEW p \in Places, NEW a \in Nodes, NEW n \in Nodes, AddChildAfter(p, a, n) PROVE OneChild(dom, dom')
  BY <1>3, <1>m, AfterIsOne DEF AddChildAfter, Edit
<1>4. ASSUME NEW n \in Nodes, Delete(n) PROVE OneChild(dom, dom')
  <2>1. Sound(dom, {}) /\ dom.doc[n] # Null /\ n \notin {} /\ dom' = DropNode(dom, n)
    BY <1>4, <1>s DEF Delete, Alive
  <2> QED
    BY <2>1, LeaveIsOne
<1>5. ASSUME NEW n \in Nodes, NEW c \in Nodes, NEW d \in Docs, DeepClone(n, d, c) PROVE OneChild(dom, dom')
  <2>1. Sound(dom, {}) /\ dom.doc[c] = Null /\ c \notin {} /\ dom' = CreateUnlinkedNode(dom, d, c)
    BY <1>5, <1>s DEF DeepClone, Unused, Alive
  <2> QED
    BY <2>1, CreateKids DEF OneChild
<1> QED
  BY <1>0, <1>1, <1>2, <1>3, <1>4, <1>5
     DEF Call, CrashInAddChildAfter, DeleteChildren, Clear, Load, DeepCopy, StartClear

\* So do the steps of a call.
LEMMA WorkIsOne ==
  ASSUME IInv, Ordered(dom), Work
  PROVE  OneChild(dom, dom')
<1>0. ASSUME dom' = dom PROVE OneChild(dom, dom')
  BY <1>0 DEF OneChild
<1>1. ASSUME NEW p \in Places, DeleteFirst(p) PROVE OneChild(dom, dom')
  BY <1>1, DeleteFirstIsOne DEF DeleteFirst
<1>2. CASE DestroyChild
  <2>1. LastOf(dying) \in Places
    BY <1>2 DEF DestroyChild, LastOf, IInv, DyingOK, Places
  <2> QED
    BY <1>2, <2>1, DeleteFirstIsOne DEF DestroyChild
<1>3. CASE DestroyNode
  <2> DEFINE n == LastOf(dying)
  <2>1. n \in Nodes /\ n \in Gone /\ dom.parent[n] = Null /\ dom.first[n] = Null /\ dom' = Free(dom, n)
    BY <1>3 DEF DestroyNode, LastOf, IInv, DyingOK, Gone
  <2>2. Sound(dom, Gone)
    BY DEF IInv
  <2> HIDE DEF n
  <2> QED
    BY <2>1, <2>2, FreeKids DEF OneChild
<1>4. CASE DeleteChildrenStep \/ ClearChildren \/ DiscardChildren
  BY <1>1, <1>4, TargetPlace DEF DeleteChildrenStep, ClearChildren, DiscardChildren, Running
<1>5. CASE ClearUnlinked
  <2> DEFINE n == dom.unlinked[target][1]
  <2>1. dying = <<>> /\ pc = "clear" /\ dom.unlinked[target] # <<>> /\ dom' = DropNode(dom, n)
    BY <1>5 DEF ClearUnlinked, Running
  <2>2. Sound(dom, {}) /\ target \in Docs
    BY <2>1, NoneGone DEF IInv, CallOK
  <2>3. dom.unlinked[target] \in Seq(Nodes)
    BY <2>2, ListedLoose
  <2>4. n \in Nodes /\ In(dom.unlinked[target], n)
    BY <2>1, <2>3 DEF In
  <2>5. dom.doc[n] # Null /\ n \notin {}
    BY <2>2, <2>4, ListedLoose, DomAssumption DEF LooseOf
  <2> HIDE DEF n
  <2> QED
    <3>1. OneChild(dom, DropNode(dom, n))
      BY <2>2, <2>4, <2>5, LeaveIsOne
    <3> QED
      BY <2>1, <3>1
<1>6. ASSUME NEW n \in Nodes, ParseLeaf(n) \/ ParseOpen(n) \/ ParseBad(n) \/ ParseClose(n) PROVE OneChild(dom, dom')
  BY <1>6, ParseIsOne
<1>7. CASE ParseMismatch \/ Unwind
  <2> DEFINE e == LastOf(open)
  <2>1. pc \in Loads /\ dying = <<>> /\ Len(open) > 1 /\ dom' = DropNode(dom, e)
    BY <1>7 DEF ParseMismatch, Unwind, Parsing, Unwinding, DeleteOpen
  <2>2. /\ Sound(dom, {}) /\ target \in Docs /\ open \in Seq(Places)
        /\ \A i \in DOMAIN open : i > 1 => open[i] \in LooseOf(dom, {}, target)
    BY <2>1, ParsingOK
  <2>3. Len(open) \in DOMAIN open
    BY <2>1, <2>2
  <2>4. e \in Nodes /\ dom.doc[e] # Null /\ e \notin {}
    BY <2>1, <2>2, <2>3, DomAssumption DEF LastOf, LooseOf
  <2> HIDE DEF e
  <2> QED
    <3>1. Sound(dom, {})
      BY <2>2
    <3>2. OneChild(dom, DropNode(dom, e))
      BY <2>4, <3>1, LeaveIsOne
    <3> QED
      BY <2>1, <3>2
<1>8. CASE DiscardPools
  <2>1. Sound(dom, {}) /\ dom \in DomType /\ target \in Docs
    BY <1>8, NoneGone DEF DiscardPools, Running, IInv, CallOK, Sound, Tree
  <2>2. IInv'
    BY <1>8, DiscardPoolsKeeps
  <2>3. dom' \in DomType
    BY <2>2 DEF IInv, Sound, Tree
  <2>4. dom'.first = dom.first /\ dom'.next = dom.next /\ dom'.parent = dom.parent
    BY <1>8, <2>1 DEF DiscardPools, DomType
  <2>5. Kids(dom') = Kids(dom) /\ Ordered(dom')
    BY <2>1, <2>3, <2>4, SameKids
  <2> QED
    BY <2>5 DEF OneChild
<1>9. ASSUME NEW c \in Nodes, CloneChild(c) PROVE OneChild(dom, dom')
  <2>1. pc = "clone" /\ dom.doc[c] = Null /\ c \notin {} /\ dom' = CreateUnlinkedNode(dom, target, c)
    BY <1>9 DEF CloneChild, Running, Unused, Alive
  <2>2. Sound(dom, {}) /\ target \in Docs
    BY <2>1, CloningOK
  <2> QED
    BY <2>1, <2>2, CreateKids DEF OneChild
<1>10. CASE CloneInsert
  <2>1. PICK p, e : dom' = InsertEndChild(dom, p, e) /\ MayMove(dom, {}, p, e)
    BY <1>10, CloneInsertMoves
  <2> QED
    BY <2>1, InsertIsOne
<1> QED
  BY <1>0, <1>2, <1>3, <1>4, <1>5, <1>6, <1>7, <1>8, <1>9, <1>10
     DEF Work, DeleteChildrenReturn, ClearReturn, ParseReturn, ParseNothing, UnwindReturn, CloneReturn

\* Every step keeps the order of all children but one.
LEMMA StepIsOne ==
  ASSUME IInv, Ordered(dom), [Next]_vars
  PROVE  OneChild(dom, dom')
<1>1. CASE Call
  BY <1>1, CallIsOne
<1>2. CASE Work
  BY <1>2, WorkIsOne
<1>3. CASE UNCHANGED vars
  BY <1>3 DEF vars, OneChild
<1> QED
  BY <1>1, <1>2, <1>3 DEF Next, Crashed

\* The lists are in order at every step of every call.
LEMMA OrderInvariance == Spec => []Ordered(dom)
<1>1. Init => Ordered(dom)
  BY EmptyKids DEF Init
<1>2. IInv /\ Ordered(dom) /\ [Next]_vars => Ordered(dom)'
  BY StepIsOne DEF OneChild
<1> QED
  BY <1>1, <1>2, Invariance, PTL DEF Spec

-----------------------------------------------------------------------------
\* Every insertion puts the node where it is told and moves no other child,
\* wherever the node comes from; the last child inserted behind the one before
\* it is the exception the code has.
THEOREM InsertionsWhereTold == Spec => []InsertsWhereTold
<1>1. IInv /\ Ordered(dom) => InsertsWhereTold
  <2> SUFFICES ASSUME IInv, Ordered(dom), NEW p \in Places, NEW n \in Nodes, MayInsert(p, n)
               PROVE LET now == Kids(dom)
                         rest == [q \in Places |-> Lists!Others(now[q], n)]
                     IN /\ Kids(InsertEndChild(dom, p, n)) = [rest EXCEPT ![p] = Append(@, n)]
                        /\ Kids(InsertFirstChild(dom, p, n)) = [rest EXCEPT ![p] = <<n>> \o @]
                        /\ \A a \in {now[p][i] : i \in DOMAIN now[p]} :
                             IF \E i \in DOMAIN now[p] : i + 1 = Len(now[p]) /\ now[p][i] = a /\ now[p][i + 1] = n
                             THEN InsertAfterIsNull(dom, a, n)
                             ELSE /\ ~InsertAfterIsNull(dom, a, n)
                                  /\ Kids(InsertAfterChild(dom, p, a, n)) =
                                       IF a = n THEN now ELSE [rest EXCEPT ![p] = Behind(@, a, n)]
    BY DEF InsertsWhereTold
  <2> DEFINE now == Kids(dom)
             rest == [q \in Places |-> Lists!Others(now[q], n)]
  <2>1. Sound(dom, {})
    BY NoneGone DEF IInv, MayInsert, Idle
  <2>2. MayMove(dom, {}, p, n)
    BY <2>1 DEF MayInsert, MayMove, Alive
  <2>3. rest = Rest(Kids(dom), n)
    BY DEF Rest
  <2>4. /\ Kids(InsertEndChild(dom, p, n)) = AtEnd(Rest(Kids(dom), n), p, n)
        /\ Kids(InsertFirstChild(dom, p, n)) = AtFront(Rest(Kids(dom), n), p, n)
    BY <2>2, InsertKids
  <2>5. now[p] \in Seq(Nodes) /\ Distinct(now[p]) /\ DOMAIN now[p] = 1..Len(now[p])
    BY DEF Ordered, ListOf
  <2> HIDE DEF now, rest
  <2>6. ASSUME NEW i \in 1..Len(now[p])
        PROVE  /\ InsertAfterIsNull(dom, now[p][i], n) <=> i + 1 = Len(now[p]) /\ now[p][i + 1] = n
               /\ ~InsertAfterIsNull(dom, now[p][i], n) =>
                    Kids(InsertAfterChild(dom, p, now[p][i], n)) =
                      IF now[p][i] = n THEN now ELSE BehindIn(rest, p, now[p][i], n)
    BY <2>2, <2>3, AfterKids DEF now
  <2>7. ASSUME NEW a \in {now[p][i] : i \in DOMAIN now[p]}
        PROVE  IF \E i \in DOMAIN now[p] : i + 1 = Len(now[p]) /\ now[p][i] = a /\ now[p][i + 1] = n
               THEN InsertAfterIsNull(dom, a, n)
               ELSE /\ ~InsertAfterIsNull(dom, a, n)
                    /\ Kids(InsertAfterChild(dom, p, a, n)) =
                         IF a = n THEN now ELSE [rest EXCEPT ![p] = Behind(@, a, n)]
    <3>1. PICK i \in 1..Len(now[p]) : now[p][i] = a
      BY <2>5
    <3>2. InsertAfterIsNull(dom, a, n) <=> i + 1 = Len(now[p]) /\ now[p][i + 1] = n
      BY <2>6, <3>1
    <3>3. ~InsertAfterIsNull(dom, a, n) =>
             Kids(InsertAfterChild(dom, p, a, n)) = IF a = n THEN now ELSE BehindIn(rest, p, a, n)
      BY <2>6, <3>1
    <3>4. \A j \in DOMAIN now[p] : now[p][j] = a => j = i
      BY <2>5, <3>1 DEF Distinct
    <3>5. BehindIn(rest, p, a, n) = [rest EXCEPT ![p] = Behind(@, a, n)]
      BY DEF BehindIn
    <3> QED
      BY <2>5, <3>1, <3>2, <3>3, <3>4, <3>5
  <2> QED
    BY <2>3, <2>4, <2>7 DEF AtEnd, AtFront, now, rest
<1> QED
  BY <1>1, Invariance, OrderInvariance, PTL

\* The links implement the lists: every step of every call, a deletion, a
\* parse and a copy under way included, is a step of ChildLists.
THEOREM LinksAreLists == Spec => ListsSpec
<1>1. Init => Lists!Init
  BY EmptyKids DEF Init, Lists!Init
<1>2. IInv /\ Ordered(dom) /\ [Next]_vars => [Lists!Next]_(Kids(dom))
  <2> SUFFICES ASSUME IInv, Ordered(dom), [Next]_vars PROVE [Lists!Next]_(Kids(dom))
    OBVIOUS
  <2>1. OneChild(dom, dom')
    BY StepIsOne
  <2>2. ASSUME NEW n \in Nodes, Rest(Kids(dom'), n) = Rest(Kids(dom), n) PROVE Lists!Place(n)
    <3>1. \A h \in Places : Lists!Others(Kids(dom')[h], n) = Lists!Others(Kids(dom)[h], n)
      BY <2>2 DEF Rest
    <3>2. \A s, t \in Lists!Occurrences(Kids(dom'), n) : s = t
      <4> SUFFICES ASSUME NEW g \in Places, NEW i \in DOMAIN Kids(dom')[g], Kids(dom')[g][i] = n,
                          NEW h \in Places, NEW j \in DOMAIN Kids(dom')[h], Kids(dom')[h][j] = n
                   PROVE  g = h /\ i = j
        BY DEF Lists!Occurrences
      <4>1. ListOf(dom', g, Kids(dom')[g]) /\ ListOf(dom', h, Kids(dom')[h])
        BY <2>1 DEF OneChild, Ordered
      <4>2. dom'.parent[n] = g /\ dom'.parent[n] = h
        BY <4>1 DEF ListOf, In
      <4> QED
        BY <4>1, <4>2 DEF ListOf, Distinct
    <3> QED
      BY <3>1, <3>2 DEF Lists!Place
  <2> QED
    BY <2>1, <2>2 DEF OneChild, Lists!Next
<1> QED
  BY <1>1, <1>2, Invariance, OrderInvariance, PTL DEF Spec, ListsSpec, Lists!Spec

-----------------------------------------------------------------------------
\* What is known of a copy that is under way, in addition to CopyingOK.
Live(D) == Docs \cup Alive(D)

\* The child of x's original that is copied next.
NextOf(img, K, x) == At(K[img[x]], Len(K[x]) + 1)

\* The children of x so far are copies of the first children of its original,
\* and the frame of x, if it has one, is at the child that is next.
AsFar(c, img, K, x) ==
  /\ Len(K[x]) <= Len(K[img[x]])
  /\ \A i \in DOMAIN K[x] : img[K[x][i]] = K[img[x]][i]
  /\ \A j \in DOMAIN c : c[j].to = x => c[j].at = NextOf(img, K, x)
  /\ (\A j \in DOMAIN c : c[j].to # x) => NextOf(img, K, x) = Null

\* Originals are no copies, and whatever holds a copy is one itself.
Image(c, img, D) ==
  /\ img \in [Places -> Places \cup {Null}]
  /\ \A i \in DOMAIN c : img[c[i].to] = c[i].from
  /\ \A i \in DOMAIN c : i + 1 \in DOMAIN c => c[i + 1].from = c[i].at
  /\ \A x \in Places : img[x] # Null =>
       /\ img[img[x]] = Null
       /\ x \in Live(D) /\ img[x] \in Live(D)
       /\ D.parent[x] = Null \/ img[D.parent[x]] # Null
       /\ AsFar(c, img, Kids(D), x)

\* While the target of DeepCopy is cleared, the copy waits at the first child
\* of the document that is copied.
Waiting(D) ==
  \E s \in Docs :
    /\ s # target
    /\ copying = <<Frame(s, target, D.first[s])>>
    /\ image = [NoImage EXCEPT ![target] = s]

ImageOK ==
  /\ pc = "clone" => Image(copying, image, dom)
  /\ pc = "clear" /\ then = "clone" => Waiting(dom)

\* The first child is the first of the list.
LEMMA FirstOfKids ==
  ASSUME NEW D, Ordered(D), NEW p \in Places
  PROVE  /\ Kids(D)[p] \in Seq(Nodes)
         /\ D.first[p] = At(Kids(D)[p], 1)
         /\ D.first[p] = Null => Kids(D)[p] = <<>>
<1> DEFINE s == Kids(D)[p]
<1>1. s \in Seq(Nodes) /\ D.first[p] = At(s, 1)
  BY DEF Ordered, ListOf
<1> HIDE DEF s
<1>2. s # <<>> => 1 \in DOMAIN s /\ s[1] \in Nodes
  BY <1>1
<1>3. D.first[p] = Null => s = <<>>
  BY <1>1, <1>2, DomAssumption DEF At
<1> QED
  BY <1>1, <1>3 DEF s

\* A copy that has no children yet.
LEMMA FreshAsFar ==
  ASSUME NEW c, NEW img, NEW K, NEW x, K[x] = <<>>, K[img[x]] \in Seq(Nodes),
         \E j \in DOMAIN c : c[j].to = x,
         \A j \in DOMAIN c : c[j].to = x => c[j].at = At(K[img[x]], 1)
  PROVE  AsFar(c, img, K, x)
<1>1. Len(K[x]) = 0 /\ DOMAIN K[x] = {} /\ Len(K[img[x]]) \in Nat
  OBVIOUS
<1>2. NextOf(img, K, x) = At(K[img[x]], 1)
  BY <1>1 DEF NextOf
<1> QED
  BY <1>1, <1>2 DEF AsFar

\* DeepClone starts with a copy of the node alone.
LEMMA DeepCloneImage ==
  ASSUME IInv, Ordered(dom), NEW n \in Nodes, NEW d \in Docs, NEW c \in Nodes, DeepClone(n, d, c)
  PROVE  Image(copying', image', dom')
<1>1. /\ pc = "idle" /\ dying = <<>> /\ dom.doc[c] = Null /\ dom.doc[n] # Null
      /\ dom' = CreateUnlinkedNode(dom, d, c) /\ copying' = <<Frame(n, c, dom.first[n])>>
      /\ image' = [NoImage EXCEPT ![c] = n]
  BY DEF DeepClone, Idle, Unused, Alive
<1>2. Sound(dom, {}) /\ dom \in DomType /\ c \notin {}
  BY <1>1, NoneGone DEF IInv, Sound, Tree
<1>3. /\ Kids(dom') = Kids(dom) /\ Ordered(dom') /\ dom'.first = dom.first /\ dom'.parent = dom.parent
      /\ dom'.doc = [dom.doc EXCEPT ![c] = d]
  BY <1>1, <1>2, CreateKids, CreateSound
<1>4. dom.parent[c] = Null /\ dom.first[c] = Null
  BY <1>1, <1>2 DEF Sound, Tree, OfOneDocument
<1>5. c \in Places /\ n \in Places /\ c # n /\ Null \notin Places
  BY <1>1, DomAssumption DEF Places
<1>6. image' \in [Places -> Places \cup {Null}] /\ \A x \in Places : image'[x] = IF x = c THEN n ELSE Null
  BY <1>1, <1>5 DEF NoImage
<1>7. /\ DOMAIN copying' = {1} /\ copying'[1].from = n /\ copying'[1].to = c
      /\ copying'[1].at = dom.first[n]
  BY <1>1 DEF Frame
<1>8. c \in Live(dom') /\ n \in Live(dom')
  BY <1>1, <1>2, <1>3, DomAssumption DEF Live, Alive, DomType
<1>9. AsFar(copying', image', Kids(dom'), c)
  <2>1. image'[c] = n
    BY <1>5, <1>6
  <2>2. Kids(dom')[c] = <<>> /\ Kids(dom')[n] \in Seq(Nodes) /\ dom.first[n] = At(Kids(dom')[n], 1)
    BY <1>3, <1>4, <1>5, FirstOfKids
  <2> QED
    BY <1>7, <2>1, <2>2, FreshAsFar
<1>10. \A i \in DOMAIN copying' : i + 1 \notin DOMAIN copying'
  BY <1>7
<1>11. \A i \in DOMAIN copying' : image'[copying'[i].to] = copying'[i].from
  BY <1>5, <1>6, <1>7
<1>12. ASSUME NEW x \in Places, image'[x] # Null
       PROVE  /\ image'[image'[x]] = Null
              /\ x \in Live(dom') /\ image'[x] \in Live(dom')
              /\ dom'.parent[x] = Null \/ image'[dom'.parent[x]] # Null
              /\ AsFar(copying', image', Kids(dom'), x)
  <2>1. x = c
    BY <1>6, <1>12
  <2> QED
    BY <1>3, <1>4, <1>5, <1>6, <1>8, <1>9, <2>1
<1> QED
  BY <1>6, <1>10, <1>11, <1>12 DEF Image

\* The child that is copied next, and what is known of it.
LEMMA NextChild ==
  ASSUME IInv, Ordered(dom), pc = "clone", Image(copying, image, dom), NEW i \in DOMAIN copying, copying[i].at # Null
  PROVE  LET f == copying[i]
             m == Len(Kids(dom)[f.to])
         IN /\ f.to \in Places /\ f.from \in Places /\ image[f.to] = f.from
            /\ m + 1 \in DOMAIN Kids(dom)[f.from] /\ f.at = Kids(dom)[f.from][m + 1]
            /\ f.at \in Nodes /\ image[f.at] = Null /\ f.at \in Live(dom)
<1> DEFINE f == copying[i]
           m == Len(Kids(dom)[f.to])
           all == Kids(dom)[f.from]
<1>1. f.to \in Places /\ f.from \in Places
  <2>1. copying \in Seq(Frames)
    BY CloningOK DEF CopyStack
  <2>2. copying[i] \in Frames
    BY <2>1
  <2> QED
    BY <2>2 DEF Frames
<1>2. image[f.to] = f.from /\ Null \notin Places
  BY DomAssumption DEF Image, Places
<1>3. AsFar(copying, image, Kids(dom), f.to) /\ image[f.from] = Null
  BY <1>1, <1>2 DEF Image
<1>4. f.at = At(all, m + 1)
  BY <1>2, <1>3 DEF AsFar, NextOf
<1>5. all \in Seq(Nodes) /\ \A n \in Nodes : In(all, n) <=> dom.parent[n] = f.from
  BY <1>1 DEF Ordered, ListOf
<1>6. m + 1 \in DOMAIN all /\ f.at = all[m + 1]
  BY <1>4 DEF At
<1> HIDE DEF all, m, f
<1>7. f.at \in Nodes /\ dom.parent[f.at] = f.from
  BY <1>5, <1>6 DEF In
<1>8. f.at \in Places
  BY <1>7 DEF Places
<1>9. image[f.at] = Null
  BY <1>1, <1>2, <1>3, <1>7, <1>8 DEF Image
<1>10. f.at \in Live(dom)
  <2>1. OfOneDocument(dom)
    BY DEF IInv, Sound, Tree
  <2> QED
    BY <1>1, <1>2, <1>7, <2>1 DEF OfOneDocument, Live, Alive
<1> QED
  BY <1>1, <1>2, <1>6, <1>7, <1>9, <1>10 DEF f, m, all

\* A copy makes the next child: its original is the child that is next.
LEMMA CloneChildImage ==
  ASSUME IInv, Ordered(dom), Image(copying, image, dom), NEW c \in Nodes, CloneChild(c)
  PROVE  Image(copying', image', dom')
<1> DEFINE k == Len(copying)
           y == copying[k].at
           f == Frame(y, c, dom.first[y])
<1>1. /\ pc = "clone" /\ dom.doc[c] = Null /\ y # Null
      /\ dom' = CreateUnlinkedNode(dom, target, c)
      /\ copying' = Append(copying, f) /\ image' = [image EXCEPT ![c] = y]
  BY DEF CloneChild, Running, Unused, Alive, LastOf
<1>2. /\ Sound(dom, {}) /\ dom \in DomType /\ target \in Docs /\ c \notin {}
      /\ copying \in Seq(Frames) /\ Len(copying) > 0
  BY <1>1, CloningOK DEF CopyStack
<1>3. k \in Nat /\ DOMAIN copying = 1..k /\ k \in DOMAIN copying
  BY <1>2
<1>4. y \in Nodes /\ image[y] = Null /\ y \in Live(dom)
  BY <1>1, <1>3, NextChild
<1>5. c \in Places /\ y \in Places /\ c # y /\ c \notin Live(dom) /\ Null \notin Places
  BY <1>1, <1>4, DomAssumption DEF Places, Live, Alive
<1>6. /\ Kids(dom') = Kids(dom) /\ Ordered(dom') /\ dom'.first = dom.first /\ dom'.parent = dom.parent
      /\ dom'.doc = [dom.doc EXCEPT ![c] = target]
  <2>1. Sound(dom, {}) /\ target \in Docs /\ c \notin {} /\ dom.doc[c] = Null
    BY <1>1, <1>2
  <2> QED
    BY <1>1, <2>1, CreateKids, CreateSound
<1>7. dom.parent[c] = Null /\ dom.first[c] = Null
  BY <1>1, <1>2 DEF Sound, Tree, OfOneDocument
<1>8. f.from = y /\ f.to = c /\ f.at = dom.first[y] /\ f \in Frames
  <2>1. dom.first[y] \in Places \cup {Null}
    BY <1>2, <1>5 DEF DomType, PointerType
  <2> QED
    BY <1>5, <2>1 DEF Frame, Frames
<1> HIDE DEF f
<1>9. /\ DOMAIN copying' = 1..(k + 1) /\ copying'[k + 1] = f
      /\ \A i \in 1..k : copying'[i] = copying[i]
  BY <1>1, <1>2, <1>8
<1> HIDE DEF k, y
<1>10. \A x \in Places : image'[x] = IF x = c THEN y ELSE image[x]
  BY <1>1, <1>5 DEF Image
<1>11. image' \in [Places -> Places \cup {Null}]
  BY <1>1, <1>5 DEF Image
<1>12. Live(dom') = Live(dom) \cup {c}
  BY <1>1, <1>2, <1>6, DomAssumption DEF Live, Alive, DomType
<1>13. \A i \in 1..k : /\ copying[i].to \in Places /\ copying[i].from \in Places
                       /\ copying[i].to # c /\ image[copying[i].to] = copying[i].from
  <2> SUFFICES ASSUME NEW i \in 1..k
               PROVE  /\ copying[i].to \in Places /\ copying[i].from \in Places
                      /\ copying[i].to # c /\ image[copying[i].to] = copying[i].from
    OBVIOUS
  <2>1. copying[i] \in Frames
    BY <1>2, <1>3
  <2>2. copying[i].to \in Places /\ copying[i].from \in Places
    BY <2>1 DEF Frames
  <2>3. image[copying[i].to] = copying[i].from
    BY <1>3 DEF Image
  <2>4. copying[i].to \in Live(dom)
    BY <1>5, <2>2, <2>3 DEF Image
  <2> QED
    BY <1>5, <2>2, <2>3, <2>4
<1>14. ASSUME NEW i \in DOMAIN copying' PROVE image'[copying'[i].to] = copying'[i].from
  <2>1. i = k + 1 \/ i \in 1..k
    BY <1>3, <1>9
  <2> QED
    BY <1>5, <1>8, <1>9, <1>10, <1>13, <2>1
<1>15. ASSUME NEW i \in DOMAIN copying', i + 1 \in DOMAIN copying' PROVE copying'[i + 1].from = copying'[i].at
  <2>1. i \in 1..k /\ (i = k \/ i + 1 \in 1..k)
    BY <1>3, <1>9, <1>15
  <2>2. CASE i = k
    BY <1>8, <1>9, <2>1, <2>2 DEF y
  <2>3. CASE i + 1 \in 1..k
    BY <1>3, <1>9, <2>1, <2>3 DEF Image
  <2> QED
    BY <2>1, <2>2, <2>3
<1>16. ASSUME NEW x \in Places, image'[x] # Null
       PROVE  /\ image'[image'[x]] = Null
              /\ x \in Live(dom') /\ image'[x] \in Live(dom')
              /\ dom'.parent[x] = Null \/ image'[dom'.parent[x]] # Null
              /\ AsFar(copying', image', Kids(dom'), x)
  <2>1. CASE x = c
    <3>1. AsFar(copying', image', Kids(dom'), c)
      <4>1. image'[c] = y
        BY <1>5, <1>10
      <4>2. Kids(dom')[c] = <<>> /\ Kids(dom')[y] \in Seq(Nodes) /\ dom.first[y] = At(Kids(dom')[y], 1)
        BY <1>5, <1>6, <1>7, FirstOfKids
      <4>3. ASSUME NEW j \in DOMAIN copying', copying'[j].to = c PROVE copying'[j].at = dom.first[y]
        <5>1. j = k + 1 \/ j \in 1..k
          BY <1>3, <1>9
        <5> QED
          BY <1>8, <1>9, <1>13, <4>3, <5>1
      <4>4. k + 1 \in DOMAIN copying' /\ copying'[k + 1].to = c
        BY <1>3, <1>8, <1>9
      <4> QED
        BY <4>1, <4>2, <4>3, <4>4, FreshAsFar
    <3> QED
      BY <1>4, <1>5, <1>6, <1>7, <1>10, <1>12, <2>1, <3>1
  <2>2. CASE x # c
    <3> DEFINE o == image[x]
    <3>1. o # Null /\ o \in Places /\ image'[x] = o
      BY <1>10, <1>16, <2>2 DEF Image
    <3>2. /\ image[o] = Null /\ x \in Live(dom) /\ o \in Live(dom)
          /\ dom.parent[x] = Null \/ image[dom.parent[x]] # Null
          /\ AsFar(copying, image, Kids(dom), x)
      BY <3>1 DEF Image
    <3> HIDE DEF o
    <3>3. o # c /\ image'[o] = Null
      BY <1>5, <1>10, <3>1, <3>2
    <3>4. dom'.parent[x] = Null \/ image'[dom'.parent[x]] # Null
      <4>1. dom.parent[x] \in Places \cup {Null}
        BY <1>2 DEF DomType, PointerType
      <4> QED
        BY <1>5, <1>6, <1>10, <3>2, <4>1
    <3>5. AsFar(copying', image', Kids(dom'), x)
      <4> DEFINE s == Kids(dom)[x]
                 all == Kids(dom)[o]
      <4>1. /\ Len(s) <= Len(all) /\ \A i \in DOMAIN s : image[s[i]] = all[i]
            /\ \A j \in DOMAIN copying : copying[j].to = x => copying[j].at = At(all, Len(s) + 1)
            /\ (\A j \in DOMAIN copying : copying[j].to # x) => At(all, Len(s) + 1) = Null
        BY <3>2 DEF AsFar, NextOf, o
      <4>2. \A i \in DOMAIN s : s[i] \in Places /\ s[i] # c
        <5>1. s \in Seq(Nodes) /\ \A m \in Nodes : In(s, m) <=> dom.parent[m] = x
          BY DEF Ordered, ListOf
        <5>2. x # Null
          BY <1>5
        <5> HIDE DEF s
        <5> QED
          BY <1>7, <5>1, <5>2 DEF In, Places
      <4> HIDE DEF s, all
      <4>3. \A i \in DOMAIN s : image'[s[i]] = all[i]
        BY <1>10, <4>1, <4>2
      <4>4. ASSUME NEW j \in DOMAIN copying', copying'[j].to = x PROVE copying'[j].at = At(all, Len(s) + 1)
        <5>1. j = k + 1 \/ j \in 1..k
          BY <1>3, <1>9
        <5> QED
          BY <1>3, <1>8, <1>9, <2>2, <4>1, <4>4, <5>1
      <4>5. (\A j \in DOMAIN copying' : copying'[j].to # x) => At(all, Len(s) + 1) = Null
        <5>1. \A j \in 1..k : j \in DOMAIN copying'
          BY <1>3, <1>9
        <5> QED
          BY <1>3, <1>9, <4>1, <5>1
      <4> QED
        BY <1>6, <3>1, <4>1, <4>3, <4>4, <4>5 DEF AsFar, NextOf, s, all
    <3> QED
      BY <1>12, <3>1, <3>2, <3>3, <3>4, <3>5
  <2> QED
    BY <2>1, <2>2
<1> QED
  BY <1>11, <1>14, <1>15, <1>16 DEF Image

\* A copy that is complete becomes a child: of the copy of the parent of its
\* original, behind the copies of the children before.
LEMMA CloneInsertImage ==
  ASSUME IInv, Ordered(dom), Image(copying, image, dom), CloneInsert
  PROVE  Image(copying', image', dom')
<1> DEFINE k == Len(copying)
           e == copying[k].to
           p == copying[k - 1].to
           b == copying[k - 1].from
           m == Len(Kids(dom)[p])
           all == Kids(dom)[b]
           K == Kids(dom)
           L == Kids(dom')
<1>1. pc = "clone" /\ copying[k].at = Null /\ image' = image
  BY DEF CloneInsert, Running
<1>2. /\ k \in Nat /\ k > 1 /\ DOMAIN copying = 1..k
      /\ e \in LooseOf(dom, {}, target)
      /\ dom' = InsertEndChild(dom, p, e) /\ MayMove(dom, {}, p, e)
      /\ DOMAIN copying' = 1..(k - 1)
      /\ \A i \in DOMAIN copying' : i # k - 1 => copying'[i] = copying[i]
      /\ copying'[k - 1].from = b /\ copying'[k - 1].to = p
      /\ copying'[k - 1].at = dom.next[copying[k - 1].at]
      /\ copying[k - 1].at # Null
  <2>1. copying[k - 1].at # Null
    BY CloneInsertMoves, DomAssumption DEF Places
  <2> QED
    BY <2>1, CloneInsertMoves
<1>3. Null \notin Places /\ Nodes \subseteq Places /\ dom \in DomType
  BY DomAssumption DEF IInv, Sound, Tree, Places
<1>4. /\ k - 1 \in DOMAIN copying /\ k \in DOMAIN copying /\ k - 1 # k /\ k - 1 + 1 = k
  <2> HIDE DEF k
  <2> QED
    BY <1>2
<1>5. /\ p \in Places /\ b \in Places /\ image[p] = b
      /\ m + 1 \in DOMAIN all /\ copying[k - 1].at = all[m + 1]
  BY <1>1, <1>2, <1>4, NextChild
<1>6. \A i, j \in DOMAIN copying : copying[i].to = copying[j].to => i = j
  BY <1>1, CloningOK DEF CopyStack
<1>7. e \in Nodes /\ e \in Places /\ dom.parent[e] = Null /\ e # p
  BY <1>2, <1>3, <1>4, <1>6 DEF LooseOf
<1>8. L = AtEnd(K, p, e) /\ Ordered(dom')
  <2>1. Rest(K, e) = K
    BY <1>7, NoRest
  <2> QED
    BY <1>2, <2>1, InsertKids
<1>9. \A x \in Places : L[x] = IF x = p THEN Append(K[p], e) ELSE K[x]
  BY <1>8, KidsFunction DEF AtEnd
<1>10. dom'.doc = dom.doc /\ \A x \in Places : dom'.parent[x] = IF x = e THEN p ELSE dom.parent[x]
  <2>1. Moved(dom, dom', e, p)
    BY <1>2, EndSound
  <2> QED
    BY <1>3, <2>1 DEF Moved, DomType, PointerType
<1>11. Live(dom') = Live(dom)
  BY <1>10 DEF Live, Alive
<1>12. \A i \in DOMAIN copying' : /\ i \in DOMAIN copying /\ i # k
                                  /\ copying'[i].to = copying[i].to /\ copying'[i].from = copying[i].from
  BY <1>2
<1>13. K[p] \in Seq(Nodes) /\ all \in Seq(Nodes) /\ m \in Nat
  BY <1>5, FirstOfKids
<1>14. image[e] = all[m + 1]
  <2>1. image[e] = copying[k].from /\ copying[k].from = copying[k - 1].at
    BY <1>4 DEF Image
  <2> QED
    BY <1>5, <2>1
<1>15. dom.next[copying[k - 1].at] = At(all, m + 2)
  BY <1>5, <1>13 DEF Ordered, ListOf
<1> HIDE DEF k, e, p, b, m, all, K, L
<1>16. ASSUME NEW i \in DOMAIN copying' PROVE image'[copying'[i].to] = copying'[i].from
  BY <1>1, <1>12 DEF Image
<1>17. ASSUME NEW i \in DOMAIN copying', i + 1 \in DOMAIN copying' PROVE copying'[i + 1].from = copying'[i].at
  <2>1. i # k - 1
    BY <1>2, <1>17
  <2>2. copying'[i] = copying[i] /\ copying'[i + 1].from = copying[i + 1].from
    BY <1>2, <1>12, <1>17, <2>1
  <2> QED
    BY <1>12, <1>17, <2>2 DEF Image
<1>18. ASSUME NEW x \in Places, image'[x] # Null
       PROVE  /\ image'[image'[x]] = Null
              /\ x \in Live(dom') /\ image'[x] \in Live(dom')
              /\ dom'.parent[x] = Null \/ image'[dom'.parent[x]] # Null
              /\ AsFar(copying', image', L, x)
  <2> DEFINE o == image[x]
  <2>1. o \in Places /\ image'[x] = o
    BY <1>1, <1>18 DEF Image
  <2>2. /\ image[o] = Null /\ x \in Live(dom) /\ o \in Live(dom)
        /\ dom.parent[x] = Null \/ image[dom.parent[x]] # Null
        /\ AsFar(copying, image, K, x)
    BY <1>1, <1>18 DEF Image, K
  <2>3. o # p /\ L[o] = K[o]
    BY <1>3, <1>5, <1>9, <2>1, <2>2
  <2>4. dom'.parent[x] = Null \/ image'[dom'.parent[x]] # Null
    BY <1>1, <1>3, <1>5, <1>10, <2>2
  <2>5. /\ Len(K[x]) <= Len(K[o])
        /\ \A i \in DOMAIN K[x] : image[K[x][i]] = K[o][i]
        /\ \A j \in DOMAIN copying : copying[j].to = x => copying[j].at = At(K[o], Len(K[x]) + 1)
        /\ (\A j \in DOMAIN copying : copying[j].to # x) => At(K[o], Len(K[x]) + 1) = Null
    BY <2>2 DEF AsFar, NextOf
  <2> HIDE DEF o
  <2>6. CASE x = p
    <3>1. o = b /\ K[o] = all /\ Len(K[x]) = m
      BY <1>1, <1>5, <2>1, <2>6 DEF all, m, K
    <3>2. L[x] = Append(K[p], e)
      BY <1>9, <2>6
    <3>3. /\ Len(L[x]) = m + 1 /\ DOMAIN L[x] = 1..(m + 1) /\ L[x][m + 1] = e
          /\ \A i \in 1..m : L[x][i] = K[p][i] /\ i \in DOMAIN K[p]
      <4>1. Len(K[p]) = m
        BY <2>6, <3>1
      <4> QED
        BY <1>7, <1>13, <3>2, <4>1
    <3>4. \A i \in DOMAIN L[x] : image[L[x][i]] = all[i]
      <4>1. \A i \in 1..m : image[L[x][i]] = all[i]
        BY <2>5, <2>6, <3>1, <3>3
      <4>2. \A i \in DOMAIN L[x] : i \in 1..m \/ i = m + 1
        BY <1>13, <3>3
      <4> QED
        BY <1>14, <3>3, <4>1, <4>2
    <3>5. Len(L[x]) <= Len(all) /\ Len(L[x]) + 1 = m + 2
      BY <1>5, <1>13, <3>3
    <3>6. ASSUME NEW j \in DOMAIN copying', copying'[j].to = x PROVE copying'[j].at = At(all, m + 2)
      <4>1. j = k - 1
        BY <1>4, <1>6, <1>12, <2>6, <3>6 DEF p
      <4> QED
        BY <1>2, <1>15, <4>1
    <3>7. k - 1 \in DOMAIN copying' /\ copying'[k - 1].to = x
      BY <1>2, <2>6
    <3>8. AsFar(copying', image', L, x)
      BY <1>1, <2>1, <2>3, <3>1, <3>4, <3>5, <3>6, <3>7 DEF AsFar, NextOf
    <3> QED
      BY <1>1, <1>11, <2>1, <2>2, <2>4, <3>8
  <2>7. CASE x # p
    <3>1. L[x] = K[x]
      BY <1>9, <2>7
    <3>2. ASSUME NEW j \in DOMAIN copying', copying'[j].to = x PROVE copying'[j].at = At(K[o], Len(K[x]) + 1)
      BY <1>2, <1>12, <2>5, <2>7, <3>2
    <3>3. ASSUME \A j \in DOMAIN copying' : copying'[j].to # x PROVE At(K[o], Len(K[x]) + 1) = Null
      <4>1. CASE x = e
        BY <1>1, <1>4, <2>5, <4>1 DEF e
      <4>2. CASE x # e
        <5>1. \A j \in DOMAIN copying : j = k \/ j \in DOMAIN copying'
          BY <1>2
        <5>2. \A j \in DOMAIN copying : copying[j].to # x
          BY <1>12, <3>3, <4>2, <5>1 DEF e
        <5> QED
          BY <2>5, <5>2
      <4> QED
        BY <4>1, <4>2
    <3>4. AsFar(copying', image', L, x)
      BY <1>1, <2>1, <2>3, <2>5, <3>1, <3>2, <3>3 DEF AsFar, NextOf
    <3> QED
      BY <1>1, <1>11, <2>1, <2>2, <2>4, <3>4
  <2> QED
    BY <2>6, <2>7
<1>19. image' \in [Places -> Places \cup {Null}]
  BY <1>1 DEF Image
<1> QED
  BY <1>16, <1>17, <1>18, <1>19 DEF Image, L

\* The first child of a place is another one only when it leaves.
LEMMA LeaveFirst ==
  ASSUME NEW D, NEW gone, NEW n \in Nodes, Sound(D, gone), D.parent[n] # Null, NEW q \in Places, q # D.parent[n]
  PROVE  LeaveTree(D, n).first[q] = D.first[q]
<1> DEFINE U == Unlink(D, n)
           E == LeaveTree(D, n)
<1>1. D \in DomType
  BY DEF Sound, Tree
<1>2. Unlinked(D, U, n)
  BY <1>1, UnlinkType
<1>3. E = [U EXCEPT !.unlinked = [d \in Docs |-> Without(U.unlinked[d], n)]]
  BY DEF LeaveTree, MarkInUse
<1> HIDE DEF U, E
<1>4. E.first = U.first
  BY <1>2, <1>3 DEF Unlinked, DomType
<1>5. U.first[q] = D.first[q]
  BY <1>1, <1>2 DEF Unlinked, DomType, PointerType
<1> QED
  BY <1>4, <1>5 DEF E

\* A node that hangs nowhere is nobody's first child.
LEMMA DropFirst ==
  ASSUME NEW D, NEW gone, NEW n \in Nodes, Sound(D, gone), D.doc[n] # Null, D.parent[n] = Null
  PROVE  DropNode(D, n).first = D.first
<1>1. D \in DomType /\ \A d \in Docs : Distinct(D.unlinked[d])
  BY DEF Sound, Tree, Listed
<1>2. DropNode(D, n) = MarkInUse(SetTracked(D, n), n)
  BY DEF DropNode, LeaveTree, SetTracked
<1>3. Forgotten(D, MarkInUse(SetTracked(D, n), n), n)
  BY <1>1, MarkInUseForgets
<1> QED
  BY <1>2, <1>3 DEF Forgotten, SameTree

\* Clearing the target of DeepCopy leaves the document alone that is copied.
LEMMA ClearWaits ==
  ASSUME IInv, pc = "clear", target' = target, NEW s \in Docs, s # target,
         \/ DestroyChild \/ DestroyNode \/ ClearChildren \/ ClearUnlinked
  PROVE  dom'.first[s] = dom.first[s]
<1>1. Sound(dom, Gone) /\ Links(dom) /\ target \in Docs /\ dom \in DomType
  BY DEF IInv, CallOK, Sound, Tree
<1>2. ASSUME NEW p \in Places, p # s, dom.first[p] # Null, dom' = LeaveTree(dom, dom.first[p])
      PROVE  dom'.first[s] = dom.first[s]
  <2>1. dom.first[p] \in Nodes /\ dom.parent[dom.first[p]] = p
    BY <1>1, <1>2 DEF Links
  <2>2. s \in Places /\ p # Null
    BY DomAssumption DEF Places
  <2> QED
    BY <1>1, <1>2, <2>1, <2>2, LeaveFirst
<1>3. CASE DestroyChild
  <2>1. LastOf(dying) \in Nodes
    BY <1>3 DEF DestroyChild, LastOf, IInv, DyingOK
  <2> QED
    BY <1>2, <1>3, <2>1, DomAssumption DEF DestroyChild, Places
<1>4. CASE DestroyNode
  <2>1. dom'.first = dom.first
    BY <1>1, <1>4 DEF DestroyNode, Free, DomType
  <2> QED
    BY <2>1
<1>5. CASE ClearChildren
  BY <1>1, <1>2, <1>5 DEF ClearChildren, DeleteFirst, Places
<1>6. CASE ClearUnlinked
  <2> DEFINE n == dom.unlinked[target][1]
  <2>1. dying = <<>> /\ dom.unlinked[target] # <<>> /\ dom' = DropNode(dom, n)
    BY <1>6 DEF ClearUnlinked, Running
  <2>2. dom.unlinked[target] \in Seq(Nodes)
    BY <1>1, ListedLoose
  <2>3. n \in Nodes /\ In(dom.unlinked[target], n)
    BY <2>1, <2>2 DEF In
  <2>4. dom.doc[n] # Null /\ dom.parent[n] = Null
    BY <1>1, <2>3, ListedLoose, DomAssumption DEF LooseOf
  <2> HIDE DEF n
  <2>5. DropNode(dom, n).first = dom.first
    BY <1>1, <2>3, <2>4, DropFirst
  <2> QED
    BY <2>1, <2>5
<1> QED
  BY <1>3, <1>4, <1>5, <1>6

\* The target is clear: the copy of the document begins with nothing.
LEMMA ClearReturnImage ==
  ASSUME IInv, Ordered(dom), ImageOK, ClearReturn, then = "clone"
  PROVE  Image(copying', image', dom')
<1>1. /\ pc = "clear" /\ dom' = dom /\ copying' = copying /\ image' = image /\ dom.first[target] = Null
  BY DEF ClearReturn, Running
<1>2. PICK s \in Docs : /\ s # target
                        /\ copying = <<Frame(s, target, dom.first[s])>>
                        /\ image = [NoImage EXCEPT ![target] = s]
  BY <1>1 DEF ImageOK, Waiting
<1>3. target \in Docs /\ Sound(dom, Gone) /\ Null \notin Places /\ Docs \subseteq Places
  BY <1>1, DomAssumption DEF IInv, CallOK, Places
<1>4. image \in [Places -> Places \cup {Null}] /\ \A x \in Places : image[x] = IF x = target THEN s ELSE Null
  BY <1>2, <1>3 DEF NoImage
<1>5. /\ DOMAIN copying = {1} /\ copying[1].from = s /\ copying[1].to = target
      /\ copying[1].at = dom.first[s]
  BY <1>2 DEF Frame
<1>6. target \in Live(dom) /\ s \in Live(dom) /\ dom.parent[target] = Null
  BY <1>3 DEF Live, Sound
<1>7. AsFar(copying, image, Kids(dom), target)
  <2>1. image[target] = s
    BY <1>3, <1>4
  <2>2. Kids(dom)[target] = <<>> /\ Kids(dom)[s] \in Seq(Nodes) /\ dom.first[s] = At(Kids(dom)[s], 1)
    BY <1>1, <1>3, FirstOfKids
  <2> QED
    BY <1>5, <2>1, <2>2, FreshAsFar
<1>8. /\ \A i \in DOMAIN copying : i + 1 \notin DOMAIN copying
      /\ \A i \in DOMAIN copying : image[copying[i].to] = copying[i].from
  BY <1>3, <1>4, <1>5
<1>9. ASSUME NEW x \in Places, image[x] # Null
      PROVE  /\ image[image[x]] = Null
             /\ x \in Live(dom) /\ image[x] \in Live(dom)
             /\ dom.parent[x] = Null \/ image[dom.parent[x]] # Null
             /\ AsFar(copying, image, Kids(dom), x)
  <2>1. x = target /\ image[x] = s
    BY <1>4, <1>9
  <2> QED
    BY <1>2, <1>3, <1>4, <1>6, <1>7, <2>1
<1>10. Image(copying, image, dom)
  BY <1>4, <1>8, <1>9 DEF Image
<1> QED
  BY <1>1, <1>10

\* Every step keeps what is known of a copy.
LEMMA ImageKeeps ==
  ASSUME IInv, Ordered(dom), ImageOK, [Next]_vars
  PROVE  ImageOK'
<1> USE DEF Loads
<1>1. ASSUME pc' = "clone" PROVE Image(copying', image', dom')
  <2>1. CASE UNCHANGED vars
    BY <1>1, <2>1 DEF vars, ImageOK
  <2>2. ASSUME NEW n \in Nodes, NEW c \in Nodes, NEW d \in Docs, DeepClone(n, d, c)
        PROVE  Image(copying', image', dom')
    BY <2>2, DeepCloneImage
  <2>3. ASSUME NEW c \in Nodes, CloneChild(c) PROVE Image(copying', image', dom')
    BY <2>3, CloneChildImage DEF ImageOK, CloneChild, Running
  <2>4. CASE CloneInsert
    BY <2>4, CloneInsertImage DEF ImageOK, CloneInsert, Running
  <2>5. CASE ClearReturn
    BY <1>1, <2>5, ClearReturnImage DEF ClearReturn, Return
  <2>6. Call => \E n \in Nodes, c \in Nodes, d \in Docs : DeepClone(n, d, c)
    BY <1>1 DEF Call, New, AddLastChild, AddFirstChild, AddChildAfter, MayInsert, Edit, CrashInAddChildAfter,
       Delete, DeleteChildren, Clear, Load, DeepCopy, StartClear, Idle
  <2>7. Work => (\E c \in Nodes : CloneChild(c)) \/ CloneInsert \/ ClearReturn
    <3>1. CASE DestroyChild \/ DestroyNode
      BY <1>1, <3>1 DEF DestroyChild, DestroyNode, IInv, CopyingOK
    <3>2. CASE DeleteChildrenStep \/ DeleteChildrenReturn \/ ClearChildren \/ ClearUnlinked \/ DiscardChildren \/ DiscardPools
      BY <1>1, <3>2 DEF DeleteChildrenStep, DeleteChildrenReturn, ClearChildren, ClearUnlinked,
         DiscardChildren, DiscardPools, DeleteFirst, Running, Return
    <3>3. ASSUME NEW n \in Nodes, ParseLeaf(n) \/ ParseOpen(n) \/ ParseBad(n) \/ ParseClose(n) PROVE FALSE
      BY <1>1, <3>3 DEF ParseLeaf, ParseOpen, ParseBad, ParseClose, Parsing
    <3>4. CASE ParseMismatch \/ ParseReturn \/ ParseNothing \/ Unwind \/ UnwindReturn \/ CloneReturn
      BY <1>1, <3>4 DEF ParseMismatch, ParseReturn, ParseNothing, Unwind, UnwindReturn, CloneReturn,
         DeleteOpen, Parsing, Unwinding, Return
    <3> QED
      BY <3>1, <3>2, <3>3, <3>4 DEF Work
  <2> QED
    BY <2>1, <2>2, <2>3, <2>4, <2>5, <2>6, <2>7 DEF Next, Crashed
<1>2. ASSUME pc' = "clear", then' = "clone" PROVE Waiting(dom)'
  <2>1. CASE UNCHANGED vars
    BY <1>2, <2>1 DEF vars, ImageOK, Waiting
  <2>2. ASSUME NEW s \in Docs, NEW d \in Docs, DeepCopy(s, d) PROVE Waiting(dom)'
    BY <2>2 DEF DeepCopy, StartClear, Waiting
  <2>3. CASE DestroyChild \/ DestroyNode \/ ClearChildren \/ ClearUnlinked
    <3>1. /\ pc = "clear" /\ then = "clone" /\ target' = target /\ copying' = copying /\ image' = image
      BY <1>2, <2>3 DEF DestroyChild, DestroyNode, ClearChildren, ClearUnlinked, DeleteFirst, Running
    <3>2. PICK s \in Docs : /\ s # target
                            /\ copying = <<Frame(s, target, dom.first[s])>>
                            /\ image = [NoImage EXCEPT ![target] = s]
      BY <3>1 DEF ImageOK, Waiting
    <3>3. dom'.first[s] = dom.first[s]
      BY <2>3, <3>1, <3>2, ClearWaits
    <3> QED
      BY <3>1, <3>2, <3>3 DEF Waiting
  <2>4. Call => \E s \in Docs, d \in Docs : DeepCopy(s, d)
    BY <1>2 DEF Call, New, AddLastChild, AddFirstChild, AddChildAfter, MayInsert, Edit, CrashInAddChildAfter,
       Delete, DeleteChildren, Clear, Load, DeepClone, StartClear, Idle
  <2>5. Work => DestroyChild \/ DestroyNode \/ ClearChildren \/ ClearUnlinked
    <3>1. CASE DeleteChildrenStep \/ DeleteChildrenReturn \/ DiscardChildren \/ DiscardPools
      BY <1>2, <3>1 DEF DeleteChildrenStep, DeleteChildrenReturn, DiscardChildren, DiscardPools,
         DeleteFirst, Running, Return
    <3>2. CASE ClearReturn
      BY <1>2, <3>2 DEF ClearReturn, Return, IInv, CallOK
    <3>3. ASSUME NEW n \in Nodes, ParseLeaf(n) \/ ParseOpen(n) \/ ParseBad(n) \/ ParseClose(n) PROVE FALSE
      BY <1>2, <3>3 DEF ParseLeaf, ParseOpen, ParseBad, ParseClose, Parsing
    <3>4. CASE ParseMismatch \/ ParseReturn \/ ParseNothing \/ Unwind \/ UnwindReturn
      BY <1>2, <3>4 DEF ParseMismatch, ParseReturn, ParseNothing, Unwind, UnwindReturn,
         DeleteOpen, Parsing, Unwinding, Return
    <3>5. CASE CloneInsert \/ CloneReturn \/ \E c \in Nodes : CloneChild(c)
      BY <1>2, <3>5 DEF CloneInsert, CloneReturn, CloneChild, Running, Return
    <3> QED
      BY <3>1, <3>2, <3>3, <3>4, <3>5 DEF Work
  <2> QED
    BY <2>1, <2>2, <2>3, <2>4, <2>5 DEF Next, Crashed
<1> QED
  BY <1>1, <1>2 DEF ImageOK

\* What is known of a copy holds at every step of it.
LEMMA ImageInvariance == Spec => []ImageOK
<1>1. Init => ImageOK
  BY DEF Init, ImageOK
<1>2. IInv /\ Ordered(dom) /\ ImageOK /\ [Next]_vars => ImageOK'
  BY ImageKeeps
<1> QED
  BY <1>1, <1>2, Invariance, OrderInvariance, PTL DEF Spec

\* At every step of DeepClone and DeepCopy the copies made so far have the
\* children of their originals, in their order, up to the child that is next.
THEOREM CopiesInOrder == Spec => []CopyInOrder
<1>1. Ordered(dom) /\ ImageOK => CopyInOrder
  <2> SUFFICES ASSUME Ordered(dom), NEW c \in Places, Image(copying, image, dom), image[c] # Null
               PROVE LET copied == Kids(dom)[c]
                         all == Kids(dom)[image[c]]
                         next == IF Len(copied) = Len(all) THEN Null ELSE all[Len(copied) + 1]
                     IN /\ Len(copied) <= Len(all)
                        /\ \A i \in DOMAIN copied : image[copied[i]] = all[i]
                        /\ \A j \in DOMAIN copying : copying[j].to = c => copying[j].at = next
                        /\ (\A j \in DOMAIN copying : copying[j].to # c) => next = Null
    BY DEF ImageOK, CopyInOrder
  <2> DEFINE copied == Kids(dom)[c]
             all == Kids(dom)[image[c]]
  <2>1. AsFar(copying, image, Kids(dom), c) /\ image[c] \in Places
    BY DEF Image
  <2>2. copied \in Seq(Nodes) /\ all \in Seq(Nodes)
    BY <2>1, FirstOfKids
  <2>3. Len(copied) <= Len(all)
    BY <2>1 DEF AsFar
  <2>4. NextOf(image, Kids(dom), c) = IF Len(copied) = Len(all) THEN Null ELSE all[Len(copied) + 1]
    <3>1. Len(copied) + 1 \in DOMAIN all <=> Len(copied) # Len(all)
      <4>1. Len(copied) \in Nat /\ Len(all) \in Nat /\ DOMAIN all = 1..Len(all)
        BY <2>2
      <4> HIDE DEF copied, all
      <4> QED
        BY <2>3, <4>1
    <3> QED
      BY <3>1 DEF NextOf, At
  <2> QED
    BY <2>1, <2>4 DEF AsFar
<1> QED
  BY <1>1, OrderInvariance, ImageInvariance, PTL

===============================================================================

----------------------------- MODULE XmlDocument -----------------------------
(***************************************************************************)
(* XMLDocument of tinyxml2: documents that a program builds, edits, clones,*)
(* clears and loads from text.  The program is one thread; a step is a     *)
(* call, or one round of a loop or recursion inside a call.                *)
(***************************************************************************)
EXTENDS DomTree

CONSTANT MaxDepth   \* TINYXML2_MAX_ELEMENT_DEPTH

ASSUME DepthAssumption == MaxDepth \in Nat /\ MaxDepth > 1

VARIABLES
  dom,      \* the structure, see DomTree
  pc,       \* the call under way, see Calls
  target,   \* what the call works on
  then,     \* the call that continues once Clear is through
  failed,   \* the _errorID of the document that is being loaded is set
  dying,    \* the nodes being destroyed, each a child of the one before it
  open,     \* the nodes whose ParseDeep is under way, the document first
  copying,  \* the DeepClones under way, the outermost first
  image     \* history: what the nodes made by this DeepClone are copies of

vars == <<dom, pc, target, then, failed, dying, open, copying, image>>

\* "text" is Parse(xml), "file" is LoadFile(fp); "discard" is Parse(xml)
\* cleaning up after an error.
Loads == {"text", "file"}
Calls == {"idle", "empty", "clear", "discard", "clone", "crashed"} \cup Loads

NoImage == [x \in Places |-> Null]
Frame(f, t, a) == [from |-> f, to |-> t, at |-> a]
LastOf(s) == s[Len(s)]
AllButLast(s) == SubSeq(s, 1, Len(s) - 1)
ReplaceLast(s, x) == [s EXCEPT ![Len(s)] = x]

Init ==
  /\ dom = EmptyDom
  /\ pc = "idle" /\ then = "idle"
  /\ target = Null
  /\ failed = FALSE
  /\ dying = <<>> /\ open = <<>> /\ copying = <<>>
  /\ image = NoImage

Idle == pc = "idle" /\ dying = <<>>
Running(c) == pc = c /\ dying = <<>>
Unused == Nodes \ Alive(dom)

\* A call that is one step.
Edit(D) == dom' = D /\ UNCHANGED <<pc, target, then, failed, dying, open, copying, image>>

-----------------------------------------------------------------------------
\* NewElement, NewComment, NewText, NewDeclaration, NewUnknown.
New(d, n) == Idle /\ n \in Unused /\ Edit(CreateUnlinkedNode(dom, d, n))

\* Both are in one document, and n is not put below itself: the first is
\* tested by the code, which does nothing otherwise, the second is up to the
\* caller.
MayInsert(p, n) ==
  /\ Idle
  /\ n \in Alive(dom)
  /\ p = dom.doc[n] \/ p \in NodesOf(dom, dom.doc[n])
  /\ NotAbove(dom, n, p)

AddLastChild(p, n) == MayInsert(p, n) /\ Edit(InsertEndChild(dom, p, n))
AddFirstChild(p, n) == MayInsert(p, n) /\ Edit(InsertFirstChild(dom, p, n))

AddChildAfter(p, a, n) ==
  /\ MayInsert(p, n)
  /\ dom.parent[a] = p
  /\ ~InsertAfterIsNull(dom, a, n)
  /\ Edit(InsertAfterChild(dom, p, a, n))

\* The write through the null pointer ends the program.
CrashInAddChildAfter(p, a, n) ==
  /\ MayInsert(p, n)
  /\ dom.parent[a] = p
  /\ InsertAfterIsNull(dom, a, n)
  /\ pc' = "crashed"
  /\ UNCHANGED <<dom, target, then, failed, dying, open, copying, image>>

Crashed == pc = "crashed" /\ UNCHANGED vars

-----------------------------------------------------------------------------
\* The destructor of the last of the dying: while it has children it deletes
\* the first of them, then the node goes back to its pool.
DestroyChild ==
  /\ dying # <<>>
  /\ dom.first[LastOf(dying)] # Null
  /\ dom' = LeaveTree(dom, dom.first[LastOf(dying)])
  /\ dying' = Append(dying, dom.first[LastOf(dying)])
  /\ UNCHANGED <<pc, target, then, failed, open, copying, image>>

DestroyNode ==
  /\ dying # <<>>
  /\ dom.first[LastOf(dying)] = Null
  /\ dom' = Free(dom, LastOf(dying))
  /\ dying' = AllButLast(dying)
  /\ UNCHANGED <<pc, target, then, failed, open, copying, image>>

\* XMLDocument::DeleteNode
Delete(n) ==
  /\ Idle
  /\ n \in Alive(dom)
  /\ dom' = DropNode(dom, n)
  /\ dying' = <<n>>
  /\ UNCHANGED <<pc, target, then, failed, open, copying, image>>

\* One round of the loop of DeleteChildren for p.
DeleteFirst(p) ==
  /\ dom.first[p] # Null
  /\ dom' = LeaveTree(dom, dom.first[p])
  /\ dying' = <<dom.first[p]>>
  /\ UNCHANGED <<pc, target, then, failed, open, copying, image>>

Return ==
  /\ pc' = "idle" /\ target' = Null /\ then' = "idle" /\ failed' = FALSE
  /\ open' = <<>> /\ copying' = <<>> /\ image' = NoImage

DeleteChildren(p) ==
  /\ Idle
  /\ p \in Docs \cup Alive(dom)
  /\ pc' = "empty" /\ target' = p
  /\ UNCHANGED <<dom, then, failed, dying, open, copying, image>>

DeleteChildrenStep == Running("empty") /\ DeleteFirst(target)
DeleteChildrenReturn == Running("empty") /\ dom.first[target] = Null /\ Return /\ UNCHANGED <<dom, dying>>

-----------------------------------------------------------------------------
StartClear(d, c) ==
  /\ Idle
  /\ pc' = "clear" /\ target' = d /\ then' = c
  /\ UNCHANGED <<dom, failed, dying, open>>

Clear(d) == StartClear(d, "idle") /\ UNCHANGED <<copying, image>>

ClearChildren == Running("clear") /\ DeleteFirst(target)

ClearUnlinked ==
  /\ Running("clear")
  /\ dom.first[target] = Null
  /\ dom.unlinked[target] # <<>>
  /\ LET n == dom.unlinked[target][1]
     IN dom' = DropNode(dom, n) /\ dying' = <<n>>
  /\ UNCHANGED <<pc, target, then, failed, open, copying, image>>

ClearReturn ==
  /\ Running("clear")
  /\ dom.first[target] = Null
  /\ dom.unlinked[target] = <<>>
  /\ IF then = "idle" THEN Return
     ELSE /\ pc' = then
          /\ open' = IF then \in Loads THEN <<target>> ELSE open
          /\ UNCHANGED <<target, then, failed, copying, image>>
  /\ UNCHANGED <<dom, dying>>

-----------------------------------------------------------------------------
\* Parse(xml) and LoadFile: the text is whatever Identify and the ParseDeep of
\* the nodes may find in it, one element of it at each step.
Load(d, how) == StartClear(d, how) /\ UNCHANGED <<copying, image>>

Parsing == pc \in Loads /\ dying = <<>> /\ open # <<>> /\ ~failed
Unwinding == pc \in Loads /\ dying = <<>> /\ open # <<>> /\ failed

\* A text, a comment, a declaration where it belongs, an empty element.
ParseLeaf(n) ==
  /\ Parsing
  /\ n \in Unused
  /\ dom' = InsertEndChild(CreateUnlinkedNode(dom, target, n), LastOf(open), n)
  /\ UNCHANGED <<pc, target, then, failed, dying, open, copying, image>>

\* The opening tag of an element; its own ParseDeep gives up at once when it
\* is too deep.
ParseOpen(n) ==
  /\ Parsing
  /\ n \in Unused
  /\ Len(open) + 1 < MaxDepth
  /\ dom' = CreateUnlinkedNode(dom, target, n)
  /\ open' = Append(open, n)
  /\ UNCHANGED <<pc, target, then, failed, dying, copying, image>>

\* Too deep, malformed, a declaration behind something else, an element that
\* the end of the text leaves open: the node is deleted again.
ParseBad(n) ==
  /\ Parsing
  /\ n \in Unused
  /\ dom' = DropNode(CreateUnlinkedNode(dom, target, n), n)
  /\ dying' = <<n>>
  /\ failed' = TRUE
  /\ UNCHANGED <<pc, target, then, open, copying, image>>

\* The last of open fails: its parent deletes it.
DeleteOpen ==
  /\ dom' = DropNode(dom, LastOf(open))
  /\ dying' = <<LastOf(open)>>
  /\ open' = AllButLast(open)
  /\ UNCHANGED <<pc, target, then, copying, image>>

\* A closing tag is a node of its own until the element has read it.  With the
\* right name it ends its element.
ParseClose(n) ==
  /\ Parsing
  /\ n \in Unused
  /\ Len(open) > 1
  /\ LET closing == CreateUnlinkedNode(dom, target, n)
         closed == Free(LeaveTree(SetTracked(closing, n), n), n)
     IN dom' = InsertEndChild(closed, open[Len(open) - 1], LastOf(open))
  /\ open' = AllButLast(open)
  /\ UNCHANGED <<pc, target, then, failed, dying, copying, image>>

\* It has another name, or the text ends before it.
ParseMismatch ==
  /\ Parsing
  /\ Len(open) > 1
  /\ failed' = TRUE
  /\ DeleteOpen

\* The end of the text at the level of the document, or a closing tag that
\* closes nothing, which ends the call as well.
ParseReturn ==
  /\ Parsing
  /\ Len(open) = 1
  /\ Return
  /\ UNCHANGED <<dom, dying>>

\* Nothing but blanks.
ParseNothing ==
  /\ Parsing
  /\ Len(open) = 1
  /\ dom.first[target] = Null
  /\ failed' = TRUE
  /\ UNCHANGED <<dom, pc, target, then, dying, open, copying, image>>

Unwind == Unwinding /\ Len(open) > 1 /\ DeleteOpen /\ UNCHANGED failed

\* Parse(xml) empties the document after an error, LoadFile does not.
UnwindReturn ==
  /\ Unwinding
  /\ Len(open) = 1
  /\ IF pc = "file" THEN Return
     ELSE /\ pc' = "discard" /\ open' = <<>>
          /\ UNCHANGED <<target, then, failed, copying, image>>
  /\ UNCHANGED <<dom, dying>>

DiscardChildren == Running("discard") /\ DeleteFirst(target)

\* The pools of the document give all their memory back.
DiscardPools ==
  /\ Running("discard")
  /\ dom.first[target] = Null
  /\ dom' = [dom EXCEPT !.doc = [n \in Nodes |-> IF @[n] = target THEN Null ELSE @[n]],
                        !.untracked[target] = 0]
  /\ Return
  /\ UNCHANGED dying

-----------------------------------------------------------------------------
\* Memory for a copy of all of d: a bound of the model, the pools grow.
RoomFor(d) == Cardinality(NodesOf(dom, d)) <= Cardinality(Unused)

\* DeepClone of n into d, up to the ShallowClone of n itself.
DeepClone(n, d, c) ==
  /\ Idle
  /\ n \in Alive(dom) /\ c \in Unused
  /\ RoomFor(dom.doc[n])
  /\ dom' = CreateUnlinkedNode(dom, d, c)
  /\ copying' = <<Frame(n, c, dom.first[n])>>
  /\ image' = [NoImage EXCEPT ![c] = n]
  /\ pc' = "clone" /\ target' = d
  /\ UNCHANGED <<then, failed, dying, open>>

DeepCopy(s, d) ==
  /\ s # d
  /\ RoomFor(s)
  /\ StartClear(d, "clone")
  /\ copying' = <<Frame(s, d, dom.first[s])>>
  /\ image' = [NoImage EXCEPT ![d] = s]

\* The next child is copied before its own children are.
CloneChild(c) ==
  LET top == LastOf(copying)
  IN /\ Running("clone")
     /\ top.at # Null
     /\ c \in Unused
     /\ dom' = CreateUnlinkedNode(dom, target, c)
     /\ copying' = Append(copying, Frame(top.at, c, dom.first[top.at]))
     /\ image' = [image EXCEPT ![c] = top.at]
     /\ UNCHANGED <<pc, target, then, failed, dying, open>>

\* Mutant: InsertFirstChild.
CloneInsertFirst ==
  LET n == Len(copying)
      top == copying[n]
      below == copying[n - 1]
  IN /\ Running("clone")
     /\ top.at = Null
     /\ n > 1
     /\ dom' = InsertFirstChild(dom, below.to, top.to)
     /\ copying' = ReplaceLast(AllButLast(copying),
                               [below EXCEPT !.at = dom.next[below.at]])
     /\ UNCHANGED <<pc, target, then, failed, dying, open, image>>

\* A copy is complete, and becomes the last child of the copy above it.
CloneInsert ==
  LET n == Len(copying)
      top == copying[n]
      below == copying[n - 1]
  IN /\ Running("clone")
     /\ top.at = Null
     /\ n > 1
     /\ dom' = InsertEndChild(dom, below.to, top.to)
     /\ copying' = ReplaceLast(AllButLast(copying),
                               [below EXCEPT !.at = dom.next[below.at]])
     /\ UNCHANGED <<pc, target, then, failed, dying, open, image>>

CloneReturn ==
  /\ Running("clone")
  /\ Len(copying) = 1
  /\ copying[1].at = Null
  /\ Return
  /\ UNCHANGED <<dom, dying>>

-----------------------------------------------------------------------------
\* The program calls.
Call ==
  \/ \E d \in Docs, n \in Nodes : New(d, n)
  \/ \E p \in Places, n \in Nodes : AddLastChild(p, n) \/ AddFirstChild(p, n)
  \/ \E p \in Places, a, n \in Nodes : AddChildAfter(p, a, n) \/ CrashInAddChildAfter(p, a, n)
  \/ \E n \in Nodes : Delete(n)
  \/ \E p \in Places : DeleteChildren(p)
  \/ \E d \in Docs : Clear(d) \/ \E how \in Loads : Load(d, how)
  \/ \E n, c \in Nodes, d \in Docs : DeepClone(n, d, c)
  \/ \E s, d \in Docs : DeepCopy(s, d)

\* The call goes on.
Work ==
  \/ DestroyChild \/ DestroyNode
  \/ DeleteChildrenStep \/ DeleteChildrenReturn
  \/ ClearChildren \/ ClearUnlinked \/ ClearReturn
  \/ \E n \in Nodes : ParseLeaf(n) \/ ParseOpen(n) \/ ParseBad(n) \/ ParseClose(n)
  \/ ParseMismatch \/ ParseReturn \/ ParseNothing \/ Unwind \/ UnwindReturn
  \/ DiscardChildren \/ DiscardPools
  \/ \E c \in Nodes : CloneChild(c)
  \/ CloneInsert \/ CloneReturn

Next == Call \/ Work \/ Crashed

Spec == Init /\ [][Next]_vars

\* A call that has begun goes on: the program is one thread.
FairSpec == Spec /\ WF_vars(Work)

-----------------------------------------------------------------------------
\* The links of all nodes agree, in both directions and with parent, first
\* and last child, and none leads to memory that was given back, at every
\* step of every call: in the middle of a parse, a copy, a destruction too.
Links(D) ==
  /\ \A p \in Places : (D.first[p] = Null) = (D.last[p] = Null)
  /\ \A p \in Places : D.first[p] # Null =>
       /\ D.first[p] \in Nodes /\ D.parent[D.first[p]] = p /\ D.prev[D.first[p]] = Null
       /\ D.last[p] \in Nodes /\ D.parent[D.last[p]] = p /\ D.next[D.last[p]] = Null
  /\ \A x \in Places : D.next[x] # Null =>
       D.next[x] \in Nodes /\ D.prev[D.next[x]] = x /\ D.parent[D.next[x]] = D.parent[x]
  /\ \A x \in Places : D.prev[x] # Null =>
       D.prev[x] \in Nodes /\ D.next[D.prev[x]] = x /\ D.parent[D.prev[x]] = D.parent[x]
  /\ \A n \in Nodes : D.parent[n] # Null =>
       /\ D.prev[n] = Null => D.first[D.parent[n]] = n
       /\ D.next[n] = Null => D.last[D.parent[n]] = n
  /\ \A x \in Places : D.parent[x] = Null => D.prev[x] = Null /\ D.next[x] = Null

OfOneDocument(D) ==
  \A n \in Nodes :
    /\ D.parent[n] # Null =>
         /\ D.doc[n] # Null
         /\ D.parent[n] = D.doc[n] \/ D.parent[n] \in NodesOf(D, D.doc[n])
    /\ D.doc[n] = Null => D.parent[n] = Null /\ D.first[n] = Null

LinksAgree == Links(dom) /\ OfOneDocument(dom)

\* A document keeps a list of exactly its nodes that hang nowhere, each once,
\* those aside that are being destroyed, and the pools count as many nodes as
\* untracked: it is from this list that Clear finds what to free.
UnlinkedExact ==
  \A d \in Docs :
    LET u == dom.unlinked[d]
    IN /\ {u[i] : i \in DOMAIN u} =
            {n \in NodesOf(dom, d) : dom.parent[n] = Null /\ \A i \in DOMAIN dying : dying[i] # n}
       /\ \A i, j \in DOMAIN u : u[i] = u[j] => i = j
       /\ dom.untracked[d] = Len(u)

\* When Clear returns, and when Parse(xml) gives back the memory of the pools
\* after an error, no node of the document is left: nothing leaks, and nothing
\* that somebody still points at loses its memory.
NothingLeftBehind ==
  /\ pc \in {"clear", "discard"} /\ dying = <<>> /\ dom.first[target] = Null
  /\ pc = "clear" => dom.unlinked[target] = <<>>
  => NodesOf(dom, target) = {} /\ dom.unlinked[target] = <<>> /\ dom.untracked[target] = 0

\* The lists of children one reads off the links are those of ChildLists:
\* every step of a call adds, moves or takes out one child at most.
Lists == INSTANCE ChildLists WITH Holders <- Places, kids <- Kids(dom)
ListsSpec == Lists!Spec

\* A copy has the children its original has, in their order, as far as the
\* copying has come: all of them before the child that is next.
CopyInOrder ==
  \A c \in Places : pc = "clone" /\ image[c] # Null =>
    LET copied == Kids(dom)[c]
        all == Kids(dom)[image[c]]
        next == IF Len(copied) = Len(all) THEN Null ELSE all[Len(copied) + 1]
    IN /\ Len(copied) <= Len(all)
       /\ \A i \in DOMAIN copied : image[copied[i]] = all[i]
       /\ \A j \in DOMAIN copying : copying[j].to = c => copying[j].at = next
       /\ (\A j \in DOMAIN copying : copying[j].to # c) => next = Null

\* An insertion puts the node where it is told and leaves the order of all
\* other children, wherever the node comes from.  The exception: the last
\* child cannot be inserted after the one before it, where it is already.
Behind(l, a, n) ==
  LET i == CHOOSE i \in DOMAIN l : l[i] = a
  IN SubSeq(l, 1, i) \o <<n>> \o SubSeq(l, i + 1, Len(l))

InsertsWhereTold ==
  \A p \in Places, n \in Nodes : MayInsert(p, n) =>
    LET now == Kids(dom)
        rest == [q \in Places |-> Lists!Others(now[q], n)]
    IN /\ Kids(InsertEndChild(dom, p, n)) = [rest EXCEPT ![p] = Append(@, n)]
       /\ Kids(InsertFirstChild(dom, p, n)) = [rest EXCEPT ![p] = <<n>> \o @]
       /\ \A a \in {now[p][i] : i \in DOMAIN now[p]} :
            IF \E i \in DOMAIN now[p] : i + 1 = Len(now[p]) /\ now[p][i] = a /\ now[p][i + 1] = n
            THEN InsertAfterIsNull(dom, a, n)
            ELSE /\ ~InsertAfterIsNull(dom, a, n)
                 /\ Kids(InsertAfterChild(dom, p, a, n)) =
                      IF a = n THEN now ELSE [rest EXCEPT ![p] = Behind(@, a, n)]

\* Every call returns: no loop over children, unlinked nodes or open elements
\* runs for ever.
CallsEnd == pc \notin {"idle", "crashed"} \/ dying # <<>> ~> Idle
===============================================================================

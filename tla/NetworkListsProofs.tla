------------------------- MODULE NetworkListsProofs -------------------------
(***************************************************************************)
(* The networks of the server in memory, for every list of layers, any     *)
(* heap and any number of rounds: which nodes are followed and freed, that *)
(* the lists stay lists, that the network that is published is a copy of   *)
(* the average, and what is left in memory.                                *)
(***************************************************************************)
EXTENDS NetworkLists, Recursion, FiniteSetTheorems, SequenceTheorems

(* The networks of the server, for every list of layers, any heap and any   *)
(* number of rounds.  The inductive invariant ListsInv speaks only of the   *)
(* pointers of one or two nodes at a time, not of whole lists: a node that  *)
(* is left has one pointer to it, which is what makes the order of          *)
(* freeNeuralNetwork safe whatever the lists look like as a whole.          *)

Pointer == 0..HeapSize
NodeKind == {"network", "layer", "neuron", "weight"}
HeapNode == [kind : NodeKind, value : Nat, first : Pointer, last : Pointer,
             next : Pointer, previous : Pointer]
Heaps == [Address -> HeapNode \cup {Freed}]
Builds == [proc : {"build"}, network : Address, layers : Nat, neurons : Nat, weights : Nat]
Frees == [proc : {"free"}, network : Address, layer : Pointer, neuron : Pointer,
          weight : Pointer, descended : BOOLEAN]
Copies == [proc : {"copy"}, network : Pointer, layer : Pointer, neuron : Pointer,
           currentlayer : Pointer, currentneuron : Pointer, currentweight : Pointer]
Doing == {Idle} \cup Builds \cup Frees \cup Copies

\* The nodes at their addresses, and the local variables of what runs.
TypeInv ==
  /\ shape \in Shapes /\ heap \in Heaps /\ round \in Nat
  /\ global \in Pointer /\ control \in Pointer /\ client \in Pointer
  /\ doing \in Doing

\* What is allocated, and the nodes of a kind.
Live(h) == {a \in Address : h[a] # Freed}
Is(h, a, kind) == a \in Live(h) /\ h[a].kind = kind

\* The nodes whose first pointer may name a node that has been freed.
Cut == IF doing.proc = "free"
       THEN {doing.network, doing.neuron} \cup (IF doing.descended THEN {doing.layer} ELSE {})
       ELSE {}
\* The nodes whose list is not complete.
Partial ==
  CASE doing.proc = "build" ->
         {doing.network}
         \cup (IF doing.layers > 0 THEN {heap[doing.network].last} ELSE {})
         \cup (IF doing.neurons > 0 THEN {heap[heap[doing.network].last].last} ELSE {})
    [] doing.proc = "copy" -> {doing.network, doing.layer, doing.neuron} \ {NULL}
    [] OTHER -> {}
\* Copied nodes that no list holds yet.
Unlinked == IF doing.proc = "copy" THEN {doing.layer, doing.neuron} \ {NULL} ELSE {}

\* A next pointer leads to a node of the same kind that is not freed.
NextRight(h) ==
  \A a \in Live(h) : h[a].next # NULL =>
    h[a].kind # "network" /\ Is(h, h[a].next, h[a].kind)
\* So does a first pointer, to the kind below, if the list is not being freed.
FirstRight(h, cut) ==
  \A a \in Live(h) \ cut : h[a].first # NULL => Is(h, h[a].first, BelowKind[h[a].kind])
\* At most one pointer leads to a node, next or first, besides its own.
Unshared(h) ==
  \A a, b \in Live(h) :
    /\ h[a].next = h[b].next /\ h[a].next # NULL => a = b
    /\ h[a].first = h[b].first /\ h[a].first # NULL => a = b
    /\ h[a].next = h[b].first /\ h[a].next # NULL => h[a].next = a
\* A node is its own successor only while it is the only one of a copied list.
Loops(h, partial) ==
  \A a \in Live(h) : h[a].next = a => \E p \in partial : h[p].first = a /\ h[p].last = a
\* A complete list has at least two nodes.
NoSingles(h, partial, cut) ==
  \A a \in Live(h) \ (partial \cup cut) : h[a].first # NULL => h[h[a].first].next # NULL
\* A list that grows knows its last node, which the next one is hung on.
PartialRight(h, partial) ==
  \A p \in partial :
    /\ p \in Live(h)
    /\ h[p].first = NULL <=> h[p].last = NULL
    /\ h[p].last # NULL => Is(h, h[p].last, BelowKind[h[p].kind])
    /\ h[p].first # h[p].last => h[h[p].first].next # NULL
\* Nothing points to a node that is not linked yet.
Apart(h, unlinked, partial) ==
  /\ NULL \notin unlinked
  /\ \A a \in Live(h) : h[a].next \notin unlinked /\ h[a].first \notin unlinked
  /\ \A p \in partial : h[p].last \notin unlinked

Sound(h, partial, unlinked, cut) ==
  /\ NextRight(h) /\ FirstRight(h, cut) /\ Unshared(h) /\ Loops(h, partial)
  /\ NoSingles(h, partial, cut) /\ PartialRight(h, partial) /\ Apart(h, unlinked, partial)

HeapInv == Sound(heap, Partial, Unlinked, Cut)

\* The global network is gone between freeNeuralNetwork and the publication.
RootInv ==
  /\ control # NULL => global # NULL /\ Is(heap, control, "network") /\ control # global
  /\ global # NULL /\ doing.proc # "copy" => Is(heap, global, "network")
  /\ client # NULL => control # NULL

\* A parent that n nodes were linked to.
Holds(h, p, n) ==
  /\ n = 0 <=> h[p].first = NULL
  /\ n = 1 => h[p].first = h[p].last
  /\ n > 1 => h[p].first # h[p].last
\* The counters of InitializeNeuralNetWork, at the parent, its last node and theirs.
BuildInv ==
  doing.proc = "build" =>
    /\ Is(heap, doing.network, "network") /\ Holds(heap, doing.network, doing.layers)
    /\ doing.layers <= Len(shape)
    /\ IF doing.layers = 0 THEN doing.neurons = 0
       ELSE Holds(heap, heap[doing.network].last, doing.neurons)
    /\ IF doing.neurons = 0 THEN doing.weights = 0
       ELSE Holds(heap, heap[heap[doing.network].last].last, doing.weights)

\* What is freed next: nothing that is left has a pointer to it, but its parent.
NextToFree(a, kind, parent) ==
  a # NULL =>
    /\ Is(heap, a, kind)
    /\ \A b \in Live(heap) : heap[b].next # a /\ (heap[b].first = a => b = parent)
\* The cursors of freeNeuralNetwork.
FreeInv ==
  doing.proc = "free" =>
    /\ doing.network = global /\ control # NULL /\ client = NULL
    /\ NextToFree(doing.layer, "layer", doing.network)
    /\ NextToFree(doing.neuron, "neuron", doing.layer)
    /\ NextToFree(doing.weight, "weight", doing.neuron)
    /\ doing.layer = NULL => ~doing.descended
    /\ ~doing.descended => doing.neuron = NULL
    /\ doing.neuron = NULL => doing.weight = NULL

\* A node p being made of source, whose cursor is current: after one node the
\* source has another, as no list has only one.
CopyOf(p, source, current, kind) ==
  /\ current # NULL => Is(heap, current, kind)
  /\ p # NULL /\ heap[p].first = NULL => current = heap[source].first
  /\ p # NULL /\ heap[p].first # NULL /\ heap[p].first = heap[p].last => current # NULL
\* The cursors of CopyNeuralNetwork are nodes of the sum.
CopyInv ==
  doing.proc = "copy" =>
    /\ control # NULL
    /\ doing.network # NULL => Is(heap, doing.network, "network") /\ doing.network # control
    /\ doing.currentlayer # NULL => doing.network # NULL
    /\ doing.layer # NULL =>
         doing.network # NULL /\ Is(heap, doing.layer, "layer")
         /\ doing.currentlayer \notin {NULL, doing.layer}
    /\ doing.neuron # NULL =>
         doing.layer # NULL /\ Is(heap, doing.neuron, "neuron")
         /\ doing.currentneuron \notin {NULL, doing.neuron}
    /\ CopyOf(doing.network, control, doing.currentlayer, "layer")
    /\ CopyOf(doing.layer, doing.currentlayer, doing.currentneuron, "neuron")
    /\ CopyOf(doing.neuron, doing.currentneuron, doing.currentweight, "weight")

\* No step in work touches a freed node.
ListsInv ==
  TypeInv /\ HeapInv /\ RootInv /\ BuildInv /\ FreeInv /\ CopyInv /\ NothingFreedIsUsed

-----------------------------------------------------------------------------
\* malloc returns a node that is not allocated, if there is one.
LEMMA FreshNode ==
  ASSUME heap \in Heaps, Room
  PROVE  Malloc \in Address /\ heap[Malloc] = Freed
BY DEF Room, Malloc, Allocated

\* What is allocated is a node, and NULL is not.
LEMMA LiveNodes ==
  ASSUME NEW h \in Heaps
  PROVE  /\ Live(h) = {a \in Address : h[a] \in HeapNode}
         /\ \A a \in Live(h) : h[a] \in HeapNode
         /\ NULL \notin Live(h)
BY DEF Heaps, Live, HeapNode, NodeKind, Freed, NULL, Address

\* A new node is nobody's, and its own lists are empty.
LEMMA AddKeepsSound ==
  ASSUME NEW h, NEW g, NEW partial, NEW unlinked, NEW a,
         NULL \notin Live(h), a # NULL, a \notin Live(h), Live(g) = Live(h) \cup {a},
         \A b \in Live(h) : g[b] = h[b],
         g[a].first = NULL, g[a].last = NULL, g[a].next = NULL,
         Sound(h, partial, unlinked, {})
  PROVE  /\ Sound(g, partial, unlinked \cup {a}, {})
         /\ Sound(g, partial \cup {a}, unlinked \cup {a}, {})
<1>1. /\ NextRight(h) /\ FirstRight(h, {}) /\ Unshared(h) /\ Loops(h, partial)
      /\ NoSingles(h, partial, {}) /\ PartialRight(h, partial) /\ Apart(h, unlinked, partial)
  BY DEF Sound
<1>2. /\ \A b \in Live(h) : h[b].next \in Live(h) \cup {NULL}
      /\ \A b \in Live(h) : h[b].first \in Live(h) \cup {NULL}
      /\ \A p \in partial : p \in Live(h) /\ h[p].last \in Live(h) \cup {NULL}
  BY <1>1 DEF NextRight, FirstRight, PartialRight, Is
<1>3. NextRight(g)
  BY <1>1, <1>2 DEF NextRight, Is
<1>4. FirstRight(g, {})
  BY <1>1, <1>2 DEF FirstRight, Is
<1>5. Unshared(g)
  BY <1>1, <1>2 DEF Unshared
<1>6. Loops(g, partial) /\ Loops(g, partial \cup {a})
  BY <1>1, <1>2 DEF Loops
<1>7. NoSingles(g, partial, {}) /\ NoSingles(g, partial \cup {a}, {})
  BY <1>1, <1>2 DEF NoSingles
<1>8. PartialRight(g, partial) /\ PartialRight(g, partial \cup {a})
  <2>1. \A p \in partial : h[p].first # h[p].last => h[p].first # NULL
    BY <1>1 DEF PartialRight
  <2> QED BY <2>1, <1>1, <1>2 DEF PartialRight, Is
<1>9. Apart(g, unlinked \cup {a}, partial) /\ Apart(g, unlinked \cup {a}, partial \cup {a})
  BY <1>1, <1>2 DEF Apart
<1> QED BY <1>3, <1>4, <1>5, <1>6, <1>7, <1>8, <1>9 DEF Sound

\* g is h with the node a behind the node before, the last of the list of parent.
Attached(h, g, parent, a, before) ==
  /\ Live(g) = Live(h)
  /\ \A b \in Live(h) :
       /\ g[b].kind = h[b].kind /\ g[b].value = h[b].value
       /\ g[b].first = IF b = parent /\ h[parent].last = NULL THEN a ELSE h[b].first
       /\ g[b].last = IF b = parent THEN a ELSE h[b].last
       /\ g[b].next = IF b = before THEN a ELSE IF b = a THEN NULL ELSE h[b].next
       /\ g[b].previous = IF b = a /\ before # NULL THEN before ELSE h[b].previous

\* A node that was nobody's becomes the last of a list that is not complete.
\* before: the node whose next pointer names it; Link leaves it to nobody in an
\* empty list, LinkCopy to the new node itself.
LEMMA AttachKeepsSound ==
  ASSUME NEW h, NEW g, NEW partial, NEW unlinked, NEW parent, NEW a, NEW before,
         NULL \notin Live(h), Attached(h, g, parent, a, before),
         parent \in partial, a \in unlinked, a \in Live(h), a # parent,
         h[a].kind = BelowKind[h[parent].kind], h[a].kind # "network",
         IF h[parent].last = NULL THEN before \in {NULL, a} ELSE before = h[parent].last,
         Sound(h, partial, unlinked, {})
  PROVE  Sound(g, partial, unlinked \ {a}, {})
<1> USE DEF Attached
<1>1. /\ NextRight(h) /\ FirstRight(h, {}) /\ Unshared(h) /\ Loops(h, partial)
      /\ NoSingles(h, partial, {}) /\ PartialRight(h, partial) /\ Apart(h, unlinked, partial)
  BY DEF Sound
<1>2. /\ \A b \in Live(h) : h[b].next \in Live(h) \cup {NULL} /\ h[b].next # a
      /\ \A b \in Live(h) : h[b].first \in Live(h) \cup {NULL} /\ h[b].first # a
      /\ \A p \in partial : p \in Live(h) /\ h[p].last \in Live(h) \cup {NULL} /\ h[p].last # a
  BY <1>1 DEF NextRight, FirstRight, PartialRight, Is, Apart
<1>3. h[parent].first = NULL <=> h[parent].last = NULL
  BY <1>1 DEF PartialRight
<1>4. h[parent].last # NULL => h[parent].last \in Live(h) /\ h[h[parent].last].kind = h[a].kind
  BY <1>1 DEF PartialRight, Is
<1>5. NextRight(g)
  BY <1>1, <1>2, <1>4 DEF NextRight, Is
<1>6. FirstRight(g, {})
  BY <1>1, <1>2, <1>4 DEF FirstRight, Is
<1>7. Unshared(g)
  <2> SUFFICES ASSUME NEW b \in Live(h), NEW c \in Live(h)
               PROVE /\ g[b].next = g[c].next /\ g[b].next # NULL => b = c
                     /\ g[b].first = g[c].first /\ g[b].first # NULL => b = c
                     /\ g[b].next = g[c].first /\ g[b].next # NULL => g[b].next = b
    BY DEF Unshared
  <2>1. g[b].next = g[c].next /\ g[b].next # NULL => b = c
    BY <1>1, <1>2 DEF Unshared
  <2>2. g[b].first = g[c].first /\ g[b].first # NULL => b = c
    BY <1>1, <1>2, <1>3 DEF Unshared
  <2>3. g[b].next = g[c].first /\ g[b].next # NULL => g[b].next = b
    BY <1>1, <1>2, <1>3 DEF Unshared
  <2> QED BY <2>1, <2>2, <2>3
<1>8. Loops(g, partial)
  <2> SUFFICES ASSUME NEW b \in Live(h), g[b].next = b
               PROVE  \E p \in partial : g[p].first = b /\ g[p].last = b
    BY DEF Loops
  <2>1. CASE b = before
    BY <2>1, <1>2, <1>3
  <2>2. CASE b # before
    <3>1. h[b].next = b /\ b # a
      BY <2>2
    <3>2. PICK p \in partial : h[p].first = b /\ h[p].last = b
      BY <3>1, <1>1 DEF Loops
    <3>3. p # parent
      BY <3>2, <2>2
    <3> QED BY <3>2, <3>3, <1>2
  <2> QED BY <2>1, <2>2
<1>9. NoSingles(g, partial, {})
  BY <1>1, <1>2 DEF NoSingles
<1>10. PartialRight(g, partial)
  <2> SUFFICES ASSUME NEW p \in partial
               PROVE /\ p \in Live(g)
                     /\ g[p].first = NULL <=> g[p].last = NULL
                     /\ g[p].last # NULL => Is(g, g[p].last, BelowKind[g[p].kind])
                     /\ g[p].first # g[p].last => g[g[p].first].next # NULL
    BY DEF PartialRight
  <2>1. /\ p \in Live(h)
        /\ h[p].first = NULL <=> h[p].last = NULL
        /\ h[p].last # NULL => Is(h, h[p].last, BelowKind[h[p].kind])
        /\ h[p].first # h[p].last => h[h[p].first].next # NULL
    BY <1>1 DEF PartialRight
  <2>2. CASE p = parent
    BY <2>1, <2>2, <1>2, <1>3 DEF Is
  <2>3. CASE p # parent
    BY <2>1, <2>3, <1>2 DEF Is
  <2> QED BY <2>2, <2>3
<1>11. Apart(g, unlinked \ {a}, partial)
  BY <1>1, <1>2 DEF Apart
<1> QED BY <1>5, <1>6, <1>7, <1>8, <1>9, <1>10, <1>11 DEF Sound

\* A list is complete when it is empty or its first node is not its last.
LEMMA CompleteKeepsSound ==
  ASSUME NEW h, NEW partial, NEW unlinked, NEW rest,
         NULL \notin Live(h), rest \subseteq partial,
         \A p \in partial \ rest : h[p].first = NULL \/ h[p].first # h[p].last,
         Sound(h, partial, unlinked, {})
  PROVE  Sound(h, rest, unlinked, {})
<1>1. /\ NextRight(h) /\ FirstRight(h, {}) /\ Unshared(h) /\ Loops(h, partial)
      /\ NoSingles(h, partial, {}) /\ PartialRight(h, partial) /\ Apart(h, unlinked, partial)
  BY DEF Sound
<1>2. Loops(h, rest)
  BY <1>1 DEF Loops
<1>3. NoSingles(h, rest, {})
  BY <1>1 DEF NoSingles, PartialRight
<1>4. PartialRight(h, rest)
  BY <1>1 DEF PartialRight
<1>5. Apart(h, unlinked, rest)
  BY <1>1 DEF Apart
<1> QED BY <1>1, <1>2, <1>3, <1>4, <1>5 DEF Sound

\* Nothing is asked of a node once its owner is known.
LEMMA FewerUnlinked ==
  ASSUME NEW h, NEW partial, NEW unlinked, NEW rest, rest \subseteq unlinked,
         Sound(h, partial, unlinked, {})
  PROVE  Sound(h, partial, rest, {})
<1>1. Apart(h, rest, partial)
  BY DEF Sound, Apart
<1> QED BY <1>1 DEF Sound

\* g is h without the node a.
Gone(h, g, a) ==
  g \in Heaps /\ Live(g) = Live(h) \ {a} /\ \A b \in Live(g) : g[b] = h[b]
\* Whatever has a pointer to a is the parent of a list that is cut.
OnlyFrom(h, a, cut) ==
  \A b \in Live(h) : h[b].next # a /\ (h[b].first = a => b \in cut)

\* A node to which only a list that is cut has a pointer can be freed.
LEMMA FreeKeepsSound ==
  ASSUME NEW h, NEW g, NEW cut, NEW rest, NEW a,
         NULL \notin Live(h), Gone(h, g, a), OnlyFrom(h, a, cut),
         cut \subseteq rest \cup {a} \cup {NULL},
         Sound(h, {}, {}, cut)
  PROVE  Sound(g, {}, {}, rest)
<1> USE DEF Gone, OnlyFrom
<1>1. /\ NextRight(h) /\ FirstRight(h, cut) /\ Unshared(h) /\ Loops(h, {})
      /\ NoSingles(h, {}, cut)
  BY DEF Sound
<1>2. NextRight(g)
  BY <1>1 DEF NextRight, Is
<1>3. FirstRight(g, rest)
  BY <1>1 DEF FirstRight, Is
<1>4. Unshared(g)
  BY <1>1 DEF Unshared
<1>5. Loops(g, {})
  BY <1>1 DEF Loops
<1>6. NoSingles(g, {}, rest)
  <2> SUFFICES ASSUME NEW b \in Live(g), b \notin rest, g[b].first # NULL
               PROVE  g[g[b].first].next # NULL
    BY DEF NoSingles
  <2>1. b \in Live(h) /\ b \notin cut
    OBVIOUS
  <2>2. h[b].first \in Live(h) /\ h[b].first # a /\ h[h[b].first].next # NULL
    BY <2>1, <1>1 DEF FirstRight, NoSingles, Is
  <2> QED BY <2>2
<1>7. PartialRight(g, {}) /\ Apart(g, {}, {})
  BY DEF PartialRight, Apart
<1> QED BY <1>2, <1>3, <1>4, <1>5, <1>6, <1>7 DEF Sound

\* What the biases and weights are makes no difference.
SamePointers(h, g) ==
  /\ Live(g) = Live(h)
  /\ \A b \in Live(h) : /\ g[b].kind = h[b].kind /\ g[b].first = h[b].first
                         /\ g[b].last = h[b].last /\ g[b].next = h[b].next
                         /\ g[b].previous = h[b].previous

\* The averaged values and the zeroed weights leave the lists as they are.
LEMMA ValuesKeepSound ==
  ASSUME NEW h, NEW g, NULL \notin Live(h), SamePointers(h, g), Sound(h, {}, {}, {})
  PROVE  Sound(g, {}, {}, {})
<1>1. NextRight(h) /\ FirstRight(h, {}) /\ Unshared(h) /\ Loops(h, {}) /\ NoSingles(h, {}, {})
  BY DEF Sound
<1>2. NextRight(g) /\ FirstRight(g, {})
  BY <1>1 DEF NextRight, FirstRight, Is, SamePointers
<1>3. Unshared(g) /\ Loops(g, {})
  BY <1>1 DEF Unshared, Loops, SamePointers
<1>4. NoSingles(g, {}, {})
  BY <1>1 DEF NoSingles, FirstRight, Is, SamePointers
<1>5. PartialRight(g, {}) /\ Apart(g, {}, {})
  BY DEF PartialRight, Apart
<1> QED BY <1>2, <1>3, <1>4, <1>5 DEF Sound

-----------------------------------------------------------------------------
(* What the assignments to the heap do, node by node.                       *)

\* g is h with a new node at a.
Fresh(h, g, a, kind) ==
  /\ g \in Heaps /\ Live(g) = Live(h) \cup {a} /\ a \notin Live(h)
  /\ \A b \in Live(h) : g[b] = h[b]
  /\ g[a].kind = kind /\ g[a].first = NULL /\ g[a].last = NULL /\ g[a].next = NULL
  /\ g[a].previous = NULL

\* A node is allocated with empty lists.
LEMMA NewNodeIsFresh ==
  ASSUME NEW h \in Heaps, NEW a \in Address, h[a] = Freed,
         NEW kind \in NodeKind, NEW value \in Nat
  PROVE  Fresh(h, [h EXCEPT ![a] = NewNode(kind, value)], a, kind)
<1> USE HeapAssumption
<1> DEFINE node == NewNode(kind, value)
           g == [h EXCEPT ![a] = node]
<1>1. node \in HeapNode /\ node # Freed
  BY DEF NewNode, HeapNode, Freed, NodeKind, Pointer, NULL
<1>2. g \in Heaps
  BY <1>1 DEF Heaps
<1>3. /\ Live(g) = Live(h) \cup {a} /\ a \notin Live(h)
      /\ \A b \in Live(h) : g[b] = h[b]
      /\ g[a] = node
  BY <1>1 DEF Heaps, Live
<1>4. /\ node.kind = kind /\ node.first = NULL /\ node.last = NULL /\ node.next = NULL
      /\ node.previous = NULL
  BY DEF NewNode
<1> QED BY <1>2, <1>3, <1>4 DEF Fresh

\* Assigning to the fields of one node leaves the others as they are.
LEMMA NodeIsReplaced ==
  ASSUME NEW h \in Heaps, NEW a \in Live(h), NEW r \in HeapNode
  PROVE  LET g == [h EXCEPT ![a] = r]
         IN /\ g \in Heaps /\ Live(g) = Live(h) /\ g[a] = r
            /\ \A b \in Address : b # a => g[b] = h[b]
<1> DEFINE g == [h EXCEPT ![a] = r]
<1>1. r # Freed
  BY DEF HeapNode, NodeKind, Freed
<1>2. h \in [Address -> HeapNode \cup {Freed}] /\ a \in Address
  BY DEF Heaps, Live
<1>3. g \in Heaps
  BY <1>2 DEF Heaps
<1>4. g[a] = r /\ \A b \in Address : b # a => g[b] = h[b]
  BY <1>2
<1>5. Live(g) = Live(h)
  BY <1>1, <1>4 DEF Live
<1> QED BY <1>3, <1>4, <1>5

\* free takes one node away.
LEMMA FreedIsGone ==
  ASSUME NEW h \in Heaps, NEW a \in Live(h)
  PROVE  Gone(h, [h EXCEPT ![a] = Freed], a)
BY DEF Gone, Heaps, Live

\* Link hangs a node behind the last one of its parent.
LEMMA LinkAttaches ==
  ASSUME NEW h \in Heaps, NEW parent \in Live(h), NEW a \in Live(h),
         a # parent, h[a].next = NULL,
         h[parent].last # NULL => h[parent].last \in Live(h) \ {a},
         NEW g, g = Link(h, parent, a)
  PROVE  g \in Heaps /\ Attached(h, g, parent, a, h[parent].last)
<1> USE HeapAssumption
<1>1. /\ \A b \in Live(h) : h[b] \in HeapNode
      /\ NULL \notin Live(h) /\ Live(h) \subseteq Address /\ Live(h) \subseteq Pointer
  BY LiveNodes DEF Live, Address, Pointer
<1>2. CASE h[parent].last = NULL
  <2> DEFINE r == [h[parent] EXCEPT !.first = a, !.last = a]
  <2> DEFINE k == [h EXCEPT ![parent] = r]
  <2>1. g = k
    BY <1>2 DEF Link, Heaps
  <2>2. /\ r \in HeapNode /\ r.kind = h[parent].kind /\ r.value = h[parent].value /\ r.first = a /\ r.last = a
        /\ r.next = h[parent].next /\ r.previous = h[parent].previous
    BY <1>1 DEF HeapNode
  <2> HIDE DEF r
  <2>3. /\ k \in Heaps /\ Live(k) = Live(h) /\ k[parent] = r
        /\ \A b \in Address : b # parent => k[b] = h[b]
    BY <2>2, NodeIsReplaced
  <2> HIDE DEF k
  <2> QED BY <2>1, <1>1, <1>2, <2>2, <2>3 DEF Attached
<1>3. CASE h[parent].last # NULL
  <2> DEFINE l == h[parent].last
             r == [h[l] EXCEPT !.next = a]
             h1 == [h EXCEPT ![l] = r]
             s == [h1[a] EXCEPT !.previous = l]
             h2 == [h1 EXCEPT ![a] = s]
             t == [h2[parent] EXCEPT !.last = a]
             k == [h2 EXCEPT ![parent] = t]
  <2>1. g = k
    BY <1>3, <1>1 DEF Link, Heaps
  <2>2. /\ r \in HeapNode /\ r.kind = h[l].kind /\ r.value = h[l].value /\ r.first = h[l].first /\ r.last = h[l].last
        /\ r.next = a /\ r.previous = h[l].previous /\ l \in Live(h) /\ l # a
    BY <1>1, <1>3 DEF HeapNode
  <2> HIDE DEF r, l
  <2>3. /\ h1 \in Heaps /\ Live(h1) = Live(h) /\ h1[l] = r
        /\ \A b \in Address : b # l => h1[b] = h[b]
    BY <2>2, NodeIsReplaced
  <2> HIDE DEF h1
  <2>4. h1[a] \in HeapNode
    BY <2>3, LiveNodes
  <2>5. /\ s \in HeapNode /\ s.kind = h1[a].kind /\ s.value = h1[a].value /\ s.first = h1[a].first
        /\ s.last = h1[a].last /\ s.next = h1[a].next /\ s.previous = l
    BY <2>4, <2>2, <1>1 DEF HeapNode
  <2> HIDE DEF s
  <2>6. /\ h2 \in Heaps /\ Live(h2) = Live(h) /\ h2[a] = s
        /\ \A b \in Address : b # a => h2[b] = h1[b]
    BY <2>3, <2>5, NodeIsReplaced
  <2> HIDE DEF h2
  <2>7. h2[parent] \in HeapNode
    BY <2>6, LiveNodes
  <2>8. /\ t \in HeapNode /\ t.kind = h2[parent].kind /\ t.value = h2[parent].value /\ t.first = h2[parent].first
        /\ t.last = a /\ t.next = h2[parent].next /\ t.previous = h2[parent].previous
    BY <2>7, <1>1 DEF HeapNode
  <2> HIDE DEF t
  <2>9. /\ k \in Heaps /\ Live(k) = Live(h) /\ k[parent] = t
        /\ \A b \in Address : b # parent => k[b] = h2[b]
    BY <2>6, <2>8, NodeIsReplaced
  <2> HIDE DEF k
  <2> USE DEF l
  <2> QED BY <2>1, <1>1, <1>3, <2>2, <2>3, <2>5, <2>6, <2>8, <2>9 DEF Attached
<1> QED BY <1>2, <1>3

\* So does LinkCopy, which makes the first node its own successor.
LEMMA LinkCopyAttaches ==
  ASSUME NEW h \in Heaps, NEW parent \in Live(h), NEW a \in Live(h),
         a # parent, h[parent].first = NULL <=> h[parent].last = NULL,
         h[parent].last # NULL => h[parent].last \in Live(h) \ {a},
         NEW g, g = LinkCopy(h, parent, a)
  PROVE  /\ g \in Heaps
         /\ Attached(h, g, parent, a, IF h[parent].last = NULL THEN a ELSE h[parent].last)
<1> USE HeapAssumption
<1> DEFINE l == IF h[parent].first = NULL THEN a ELSE h[parent].last
           q == [h[parent] EXCEPT !.first = IF @ = NULL THEN a ELSE @]
           h1 == [h EXCEPT ![parent] = q]
           n == [h1[a] EXCEPT !.next = NULL]
           h2 == [h1 EXCEPT ![a] = n]
           s == [h2[a] EXCEPT !.previous = l]
           h3 == [h2 EXCEPT ![a] = s]
           r == [h3[l] EXCEPT !.next = a]
           h4 == [h3 EXCEPT ![l] = r]
           t == [h4[parent] EXCEPT !.last = a]
           k == [h4 EXCEPT ![parent] = t]
<1>1. /\ NULL \notin Live(h) /\ Live(h) \subseteq Address /\ Live(h) \subseteq Pointer
      /\ \A b \in Live(h) : h[b] \in HeapNode
      /\ NULL \in Pointer
  BY LiveNodes DEF Live, Address, Pointer, NULL
<1>2. g = k
  BY DEF LinkCopy
<1>3. /\ q \in HeapNode /\ q.kind = h[parent].kind /\ q.value = h[parent].value /\ q.last = h[parent].last
      /\ q.first = IF h[parent].first = NULL THEN a ELSE h[parent].first
      /\ q.next = h[parent].next /\ q.previous = h[parent].previous
  BY <1>1 DEF HeapNode
<1>4. l \in Live(h) /\ l \in Pointer
  BY <1>1
<1> HIDE DEF l, q
<1>5. /\ h1 \in Heaps /\ Live(h1) = Live(h) /\ h1[parent] = q
      /\ \A b \in Address : b # parent => h1[b] = h[b]
  BY <1>3, NodeIsReplaced
<1> HIDE DEF h1
<1>6. h1[a] \in HeapNode
  BY <1>5, LiveNodes
<1>7. /\ n \in HeapNode /\ n.kind = h1[a].kind /\ n.value = h1[a].value /\ n.first = h1[a].first
      /\ n.last = h1[a].last /\ n.next = NULL /\ n.previous = h1[a].previous
  BY <1>6, <1>1 DEF HeapNode
<1> HIDE DEF n
<1>8. /\ h2 \in Heaps /\ Live(h2) = Live(h) /\ h2[a] = n
      /\ \A b \in Address : b # a => h2[b] = h1[b]
  BY <1>5, <1>7, NodeIsReplaced
<1> HIDE DEF h2
<1>9. h2[a] \in HeapNode
  BY <1>8, LiveNodes
<1>10. /\ s \in HeapNode /\ s.kind = h2[a].kind /\ s.value = h2[a].value /\ s.first = h2[a].first
       /\ s.last = h2[a].last /\ s.next = h2[a].next /\ s.previous = l
  BY <1>9, <1>4 DEF HeapNode
<1> HIDE DEF s
<1>11. /\ h3 \in Heaps /\ Live(h3) = Live(h) /\ h3[a] = s
       /\ \A b \in Address : b # a => h3[b] = h2[b]
  BY <1>8, <1>10, NodeIsReplaced
<1> HIDE DEF h3
<1>12. h3[l] \in HeapNode
  BY <1>11, <1>4, LiveNodes
<1>13. /\ r \in HeapNode /\ r.kind = h3[l].kind /\ r.value = h3[l].value /\ r.first = h3[l].first
       /\ r.last = h3[l].last /\ r.next = a /\ r.previous = h3[l].previous
  BY <1>12, <1>1 DEF HeapNode
<1> HIDE DEF r
<1>14. /\ h4 \in Heaps /\ Live(h4) = Live(h) /\ h4[l] = r
       /\ \A b \in Address : b # l => h4[b] = h3[b]
  BY <1>11, <1>13, <1>4, NodeIsReplaced
<1> HIDE DEF h4
<1>15. h4[parent] \in HeapNode
  BY <1>14, LiveNodes
<1>16. /\ t \in HeapNode /\ t.kind = h4[parent].kind /\ t.value = h4[parent].value /\ t.first = h4[parent].first
       /\ t.last = a /\ t.next = h4[parent].next /\ t.previous = h4[parent].previous
  BY <1>15, <1>1 DEF HeapNode
<1> HIDE DEF t
<1>17. /\ k \in Heaps /\ Live(k) = Live(h) /\ k[parent] = t
       /\ \A b \in Address : b # parent => k[b] = h4[b]
  BY <1>14, <1>16, NodeIsReplaced
<1> HIDE DEF k
<1>18. l = IF h[parent].last = NULL THEN a ELSE h[parent].last
  BY DEF l
<1>19. \A b \in Live(h) :
         /\ k[b].kind = h[b].kind /\ k[b].value = h[b].value
         /\ k[b].first = IF b = parent /\ h[parent].last = NULL THEN a ELSE h[b].first
         /\ k[b].last = IF b = parent THEN a ELSE h[b].last
         /\ k[b].next = IF b = l THEN a ELSE IF b = a THEN NULL ELSE h[b].next
         /\ k[b].previous = IF b = a THEN l ELSE h[b].previous
  BY <1>1, <1>3, <1>4, <1>5, <1>7, <1>8, <1>10, <1>11, <1>13, <1>14, <1>16, <1>17
<1>20. l # NULL
  BY <1>1, <1>4
<1> QED BY <1>2, <1>17, <1>18, <1>19, <1>20 DEF Attached

-----------------------------------------------------------------------------
\* The name of the function that runs tells its local variables.
LEMMA WhatIsDone ==
  ASSUME doing \in Doing
  PROVE  /\ doing.proc = "build" <=> doing \in Builds
         /\ doing.proc = "free" <=> doing \in Frees
         /\ doing.proc = "copy" <=> doing \in Copies
         /\ doing.proc = "idle" <=> doing = Idle
         /\ doing.proc \in {"build", "free", "copy", "idle"}
BY DEF Doing, Idle, Builds, Frees, Copies

\* Nothing is allocated and nothing runs.
LEMMA ListsInitially == InitLists => ListsInv
<1> SUFFICES ASSUME InitLists PROVE ListsInv
  OBVIOUS
<1> USE HeapAssumption
<1>1. /\ global = NULL /\ control = NULL /\ client = NULL /\ doing = Idle
      /\ doing.proc = "idle" /\ misuse = FALSE
  BY DEF InitLists, Idle
<1>2. TypeInv
  BY <1>1 DEF InitLists, TypeInv, Heaps, Pointer, NULL, Doing
<1>3. Live(heap) = {}
  BY DEF InitLists, Live
<1>4. Partial = {} /\ Unlinked = {} /\ Cut = {}
  BY <1>1 DEF Partial, Unlinked, Cut
<1>5. HeapInv
  BY <1>3, <1>4 DEF HeapInv, Sound, NextRight, FirstRight, Unshared, Loops, NoSingles,
     PartialRight, Apart
<1> QED BY <1>1, <1>2, <1>5 DEF ListsInv, RootInv, BuildInv, FreeInv, CopyInv,
       NothingFreedIsUsed

\* What Grow does to the heap.
LEMMA GrowRight ==
  ASSUME ListsInv, doing.proc = "build", NEW parent \in Partial, NEW kind \in NodeKind,
         kind = BelowKind[heap[parent].kind], kind # "network", Grow(parent, kind)
  PROVE  \E a \in Address :
           /\ a \notin Live(heap) /\ heap' \in Heaps /\ Live(heap') = Live(heap) \cup {a}
           /\ Sound(heap', Partial \cup {a}, {}, {})
           /\ heap'[a].kind = kind /\ heap'[a].first = NULL /\ heap'[a].last = NULL
           /\ \A b \in Live(heap) :
                /\ heap'[b].kind = heap[b].kind
                /\ heap'[b].first = IF b = parent /\ heap[parent].last = NULL
                                    THEN a ELSE heap[b].first
                /\ heap'[b].last = IF b = parent THEN a ELSE heap[b].last
<1> DEFINE a == Malloc
           h1 == [heap EXCEPT ![a] = NewNode(kind, 0)]
<1> USE HeapAssumption
<1>1. heap \in Heaps /\ Sound(heap, Partial, {}, {})
  BY DEF ListsInv, TypeInv, HeapInv, Unlinked, Cut
<1>2. a \in Address /\ heap[a] = Freed /\ heap' = Link(h1, parent, a)
  BY <1>1, FreshNode DEF Grow
<1>3. NULL \notin Live(heap) /\ a # NULL
  BY <1>1, <1>2, LiveNodes DEF Address, NULL
<1> HIDE DEF a
<1>31. Fresh(heap, h1, a, kind)
  <2>1. 0 \in Nat
    OBVIOUS
  <2> QED BY <1>1, <1>2, <2>1, NewNodeIsFresh
<1>4. /\ h1 \in Heaps /\ Live(h1) = Live(heap) \cup {a} /\ a \notin Live(heap)
      /\ \A b \in Live(heap) : h1[b] = heap[b]
      /\ h1[a].kind = kind /\ h1[a].first = NULL /\ h1[a].last = NULL /\ h1[a].next = NULL
  BY <1>31 DEF Fresh
<1> HIDE DEF h1
<1>5. Sound(h1, Partial \cup {a}, {a}, {})
  BY <1>1, <1>3, <1>4, AddKeepsSound
<1>6. /\ parent \in Live(heap) /\ parent # a
      /\ heap[parent].last # NULL => heap[parent].last \in Live(heap)
  BY <1>1, <1>4 DEF Sound, PartialRight, Is
<1>7. heap' \in Heaps /\ Attached(h1, heap', parent, a, h1[parent].last)
  BY <1>2, <1>4, <1>6, LinkAttaches
<1>8. NULL \notin Live(h1)
  BY <1>3, <1>4
<1>9. Sound(heap', Partial \cup {a}, {}, {})
  <2> DEFINE before == h1[parent].last
  <2>1. Attached(h1, heap', parent, a, before)
    BY <1>7
  <2>2. IF h1[parent].last = NULL THEN before \in {NULL, a} ELSE before = h1[parent].last
    OBVIOUS
  <2>3. h1[a].kind = BelowKind[h1[parent].kind] /\ h1[a].kind # "network"
    BY <1>4, <1>6
  <2> HIDE DEF before
  <2>4. Sound(heap', Partial \cup {a}, {a} \ {a}, {})
    BY <2>1, <2>2, <2>3, <1>4, <1>5, <1>6, <1>8, AttachKeepsSound
  <2>5. {a} \ {a} = {}
    OBVIOUS
  <2> QED BY <2>4, <2>5
<1>10. /\ a \notin Live(heap) /\ heap' \in Heaps /\ Live(heap') = Live(heap) \cup {a}
       /\ heap'[a].kind = kind /\ heap'[a].first = NULL /\ heap'[a].last = NULL
       /\ \A b \in Live(heap) :
            /\ heap'[b].kind = heap[b].kind
            /\ heap'[b].first = IF b = parent /\ heap[parent].last = NULL
                                THEN a ELSE heap[b].first
            /\ heap'[b].last = IF b = parent THEN a ELSE heap[b].last
  BY <1>4, <1>6, <1>7 DEF Attached
<1> QED BY <1>2, <1>9, <1>10

\* A layer is below a network, a neuron below a layer, a weight below a neuron.
LEMMA Kinds ==
  /\ BelowKind["network"] = "layer" /\ BelowKind["layer"] = "neuron"
  /\ BelowKind["neuron"] = "weight" /\ BelowKind["weight"] = "none"
  /\ \A kind \in NodeKind : BelowKind[kind] # "network"
BY DEF BelowKind, NodeKind

\* Every node that is allocated is of one of the four kinds.
LEMMA LiveKinds ==
  ASSUME ListsInv
  PROVE  /\ NULL \notin Live(heap)
         /\ \A a \in Live(heap) : heap[a] \in HeapNode /\ heap[a].kind \in NodeKind
BY LiveNodes DEF ListsInv, TypeInv, HeapNode

\* The layer and the neuron that are being filled.
LEMMA InWork ==
  ASSUME ListsInv, doing.proc = "build"
  PROVE  /\ doing \in Builds /\ Unlinked = {} /\ Cut = {}
         /\ Is(heap, doing.network, "network")
         /\ doing.layers > 0 => Is(heap, heap[doing.network].last, "layer")
         /\ doing.neurons > 0 =>
              doing.layers > 0 /\ Is(heap, heap[heap[doing.network].last].last, "neuron")
         /\ Partial = {doing.network}
              \cup (IF doing.layers > 0 THEN {heap[doing.network].last} ELSE {})
              \cup (IF doing.neurons > 0 THEN {heap[heap[doing.network].last].last} ELSE {})
<1>1. doing \in Builds
  BY WhatIsDone DEF ListsInv, TypeInv
<1>2. doing.layers \in Nat /\ doing.neurons \in Nat
  BY <1>1 DEF Builds
<1>3. Unlinked = {} /\ Cut = {}
  BY DEF Unlinked, Cut
<1>4. Is(heap, doing.network, "network")
  BY DEF ListsInv, BuildInv
<1>5. Partial = {doing.network}
        \cup (IF doing.layers > 0 THEN {heap[doing.network].last} ELSE {})
        \cup (IF doing.neurons > 0 THEN {heap[heap[doing.network].last].last} ELSE {})
  BY DEF Partial
<1>6. PartialRight(heap, Partial)
  BY DEF ListsInv, HeapInv, Sound
<1>7. doing.layers > 0 => Is(heap, heap[doing.network].last, "layer")
  <2>1. doing.layers # 0 => heap[doing.network].first # NULL
    BY DEF ListsInv, BuildInv, Holds
  <2> QED BY <2>1, <1>2, <1>4, <1>5, <1>6, Kinds DEF PartialRight, Is
<1>8. doing.neurons > 0 =>
        doing.layers > 0 /\ Is(heap, heap[heap[doing.network].last].last, "neuron")
  <2> HAVE doing.neurons > 0
  <2>1. doing.layers > 0 /\ heap[heap[doing.network].last].first # NULL
    <3>1. IF doing.layers = 0 THEN doing.neurons = 0
          ELSE Holds(heap, heap[doing.network].last, doing.neurons)
      BY DEF ListsInv, BuildInv
    <3> QED BY <3>1, <1>2 DEF Holds
  <2>2. heap[doing.network].last \in Partial
    BY <2>1, <1>5
  <2> QED BY <2>1, <2>2, <1>6, <1>7, Kinds DEF PartialRight, Is
<1> QED BY <1>1, <1>3, <1>4, <1>5, <1>7, <1>8

\* No list that is configured has one node (ShapesAssumption).
LEMMA Sizes ==
  ASSUME shape \in Shapes, NEW i \in Nat, 0 < i, i <= Len(shape)
  PROVE  /\ shape[i] \in Nat /\ shape[i] > 1
         /\ WeightsIn(i) \in Nat /\ (WeightsIn(i) = 0 \/ WeightsIn(i) > 1)
<1>1. shape \in Seq(Nat \ {0, 1})
  BY ShapesAssumption
<1>2. \A j \in 1..Len(shape) : shape[j] \in Nat \ {0, 1}
  BY <1>1
<1>3. i \in 1..Len(shape) /\ (i # 1 => i - 1 \in 1..Len(shape))
  BY <1>1
<1> QED BY <1>2, <1>3 DEF WeightsIn

\* A layer ends the list of neurons before it, which is complete by then.
LEMMA BuildLayerKeeps == ListsInv /\ BuildLayer => ListsInv'
<1> SUFFICES ASSUME ListsInv, BuildLayer PROVE ListsInv'
  OBVIOUS
<1> DEFINE p == doing.network
           ly == heap[p].last
           nr == heap[ly].last
<1>1. doing.proc = "build"
  BY DEF BuildLayer
<1>2. /\ doing \in Builds /\ Unlinked = {} /\ Cut = {} /\ Is(heap, p, "network")
      /\ doing.layers > 0 => Is(heap, ly, "layer")
      /\ doing.neurons > 0 => doing.layers > 0 /\ Is(heap, nr, "neuron")
      /\ Partial = {p} \cup (IF doing.layers > 0 THEN {ly} ELSE {})
                      \cup (IF doing.neurons > 0 THEN {nr} ELSE {})
  BY <1>1, InWork
<1>3. /\ doing.layers \in Nat /\ doing.neurons \in Nat /\ doing.weights \in Nat /\ p \in Address
      /\ doing' \in Builds /\ doing'.proc = "build" /\ doing'.network = p
      /\ doing'.layers = doing.layers + 1 /\ doing'.neurons = 0 /\ doing'.weights = 0
  <2>1. doing.layers \in Nat /\ doing.neurons \in Nat /\ doing.weights \in Nat /\ p \in Address
    BY <1>2 DEF Builds
  <2>2. doing' = [doing EXCEPT !.layers = doing.layers + 1, !.neurons = 0, !.weights = 0]
    BY DEF BuildLayer
  <2>3. doing.layers + 1 \in Nat /\ 0 \in Nat
    BY <2>1
  <2> QED BY <1>2, <2>1, <2>2, <2>3, Zenon DEF Builds
<1>4. PICK a \in Address :
           /\ a \notin Live(heap) /\ heap' \in Heaps /\ Live(heap') = Live(heap) \cup {a}
           /\ Sound(heap', Partial \cup {a}, {}, {})
           /\ heap'[a].kind = "layer" /\ heap'[a].first = NULL /\ heap'[a].last = NULL
           /\ \A b \in Live(heap) :
                /\ heap'[b].kind = heap[b].kind
                /\ heap'[b].first = IF b = p /\ heap[p].last = NULL
                                    THEN a ELSE heap[b].first
                /\ heap'[b].last = IF b = p THEN a ELSE heap[b].last
  <2>1. p \in Partial /\ "layer" \in NodeKind /\ "layer" = BelowKind[heap[p].kind] /\ "layer" # "network"
    BY <1>2, Kinds DEF Is, NodeKind
  <2>2. Grow(p, "layer")
    BY DEF BuildLayer
  <2> QED BY <1>1, <2>1, <2>2, GrowRight
<1>5. /\ shape' = shape /\ global' = global /\ control' = control /\ client' = client
      /\ round' = round /\ misuse' = misuse
      /\ LayerIsFull /\ doing.layers < Len(shape)
  BY DEF BuildLayer
<1>6. p \in Live(heap) /\ heap'[p].last = a /\ NULL \notin Live(heap) /\ NULL \notin Live(heap')
  BY <1>2, <1>4, LiveKinds, LiveNodes DEF Is
<1>7. Partial' = {p, a} /\ Unlinked' = {} /\ Cut' = {}
  BY <1>3, <1>6 DEF Partial, Unlinked, Cut
<1>8. Sound(heap', {p, a}, {}, {})
  <2>1. doing.layers > 0 => ly \in Live(heap) /\ ly # p /\ heap[ly].first # NULL /\ heap[ly].first # heap[ly].last
    <3> HAVE doing.layers > 0
    <3>1. Holds(heap, ly, doing.neurons)
      BY <1>1, <1>3 DEF ListsInv, BuildInv
    <3>2. doing.neurons = shape[doing.layers] /\ shape[doing.layers] > 1
      BY <1>3, <1>5, Sizes DEF LayerIsFull, ListsInv, TypeInv, BuildInv
    <3> QED BY <3>1, <3>2, <1>2, <1>3 DEF Holds, Is
  <2>2. doing.neurons > 0 => nr \in Live(heap) /\ nr # p /\ (heap[nr].first = NULL \/ heap[nr].first # heap[nr].last)
    <3> HAVE doing.neurons > 0
    <3>1. Holds(heap, nr, doing.weights) /\ doing.layers > 0
      BY <1>1, <1>2, <1>3 DEF ListsInv, BuildInv
    <3>2. doing.weights = WeightsIn(doing.layers)
      BY <1>3, <1>5, <3>1 DEF LayerIsFull, NeuronIsFull
    <3>3. WeightsIn(doing.layers) = 0 \/ WeightsIn(doing.layers) > 1
      BY <1>1, <1>3, <3>1, Sizes DEF ListsInv, TypeInv, BuildInv
    <3> QED BY <3>1, <3>2, <3>3, <1>2, <1>3 DEF Holds, Is
  <2>3. \A q \in (Partial \cup {a}) \ {p, a} : heap'[q].first = NULL \/ heap'[q].first # heap'[q].last
    <3> SUFFICES ASSUME NEW q \in (Partial \cup {a}) \ {p, a}
                 PROVE  heap'[q].first = NULL \/ heap'[q].first # heap'[q].last
      OBVIOUS
    <3>1. (q = ly /\ doing.layers > 0) \/ (q = nr /\ doing.neurons > 0)
      BY <1>2
    <3> HIDE DEF p, ly, nr
    <3> QED BY <2>1, <2>2, <3>1, <1>4
  <2> HIDE DEF p, ly, nr
  <2> QED BY <2>3, <1>4, <1>6, CompleteKeepsSound, <1>2
<1>9. TypeInv'
  BY <1>3, <1>4, <1>5 DEF ListsInv, TypeInv, Doing
<1>10. HeapInv'
  BY <1>7, <1>8 DEF HeapInv
<1>11. RootInv'
  BY <1>1, <1>3, <1>4, <1>5 DEF ListsInv, RootInv, Is
<1>12. BuildInv'
  <2>1. Holds(heap', p, doing.layers + 1)
    <3>1. Holds(heap, p, doing.layers) /\ PartialRight(heap, Partial)
      BY <1>1 DEF ListsInv, BuildInv, HeapInv, Sound
    <3>2. /\ heap[p].first = NULL <=> heap[p].last = NULL
          /\ heap[p].first \in Live(heap) \cup {NULL}
      <4>1. FirstRight(heap, {})
        BY <1>2 DEF ListsInv, HeapInv, Sound
      <4> QED BY <4>1, <3>1, <1>2, <1>6 DEF PartialRight, FirstRight, Is
    <3> QED BY <3>1, <3>2, <1>3, <1>4, <1>6 DEF Holds, NULL, Address
  <2>2. Holds(heap', a, 0)
    BY <1>4 DEF Holds
  <2>3. Is(heap', p, "network") /\ doing.layers + 1 <= Len(shape)
    <3>1. Len(shape) \in Nat
      BY ShapesAssumption DEF ListsInv, TypeInv
    <3> QED BY <3>1, <1>2, <1>3, <1>4, <1>5 DEF Is
  <2> HIDE DEF p, ly, nr
  <2> QED BY <2>1, <2>2, <2>3, <1>3, <1>5, <1>6 DEF BuildInv
<1> QED BY <1>3, <1>5, <1>9, <1>10, <1>11, <1>12 DEF ListsInv, FreeInv, CopyInv, NothingFreedIsUsed

\* A neuron ends the list of weights before it, which is complete by then.
LEMMA BuildNeuronKeeps == ListsInv /\ BuildNeuron => ListsInv'
<1> SUFFICES ASSUME ListsInv, BuildNeuron PROVE ListsInv'
  OBVIOUS
<1> DEFINE p == doing.network
           ly == heap[p].last
           nr == heap[ly].last
<1>1. doing.proc = "build"
  BY DEF BuildNeuron
<1>2. /\ doing \in Builds /\ Unlinked = {} /\ Cut = {} /\ Is(heap, p, "network")
      /\ doing.layers > 0 => Is(heap, ly, "layer")
      /\ doing.neurons > 0 => doing.layers > 0 /\ Is(heap, nr, "neuron")
      /\ Partial = {p} \cup (IF doing.layers > 0 THEN {ly} ELSE {})
                      \cup (IF doing.neurons > 0 THEN {nr} ELSE {})
  BY <1>1, InWork
<1>3. /\ doing.layers \in Nat /\ doing.neurons \in Nat /\ doing.weights \in Nat /\ p \in Address
      /\ doing' \in Builds /\ doing'.proc = "build" /\ doing'.network = p
      /\ doing'.layers = doing.layers /\ doing'.neurons = doing.neurons + 1 /\ doing'.weights = 0
  <2>1. doing.layers \in Nat /\ doing.neurons \in Nat /\ doing.weights \in Nat /\ p \in Address
    BY <1>2 DEF Builds
  <2>2. doing' = [doing EXCEPT !.neurons = doing.neurons + 1, !.weights = 0]
    BY DEF BuildNeuron
  <2>3. doing.neurons + 1 \in Nat /\ 0 \in Nat
    BY <2>1
  <2> QED BY <1>2, <2>1, <2>2, <2>3, Zenon DEF Builds
<1>4. /\ shape' = shape /\ global' = global /\ control' = control /\ client' = client
      /\ round' = round /\ misuse' = misuse /\ doing.layers > 0 /\ NeuronIsFull
  BY DEF BuildNeuron
<1>5. doing.layers > 0
  BY <1>2, <1>3, <1>4
<1>6. PICK a \in Address :
           /\ a \notin Live(heap) /\ heap' \in Heaps /\ Live(heap') = Live(heap) \cup {a}
           /\ Sound(heap', Partial \cup {a}, {}, {})
           /\ heap'[a].kind = "neuron" /\ heap'[a].first = NULL /\ heap'[a].last = NULL
           /\ \A b \in Live(heap) :
                /\ heap'[b].kind = heap[b].kind
                /\ heap'[b].first = IF b = ly /\ heap[ly].last = NULL
                                    THEN a ELSE heap[b].first
                /\ heap'[b].last = IF b = ly THEN a ELSE heap[b].last
  <2>1. /\ ly \in Partial /\ "neuron" \in NodeKind /\ "neuron" # "network"
        /\ "neuron" = BelowKind[heap[ly].kind]
    BY <1>2, <1>5, Kinds DEF Is, NodeKind
  <2>2. Grow(ly, "neuron")
    BY DEF BuildNeuron
  <2> HIDE DEF p, ly, nr
  <2> QED BY <1>1, <2>1, <2>2, GrowRight
<1>7. /\ p \in Live(heap) /\ ly \in Live(heap) /\ p # ly /\ heap'[ly].last = a
      /\ NULL \notin Live(heap) /\ NULL \notin Live(heap')
      /\ heap'[p].last = ly
  BY <1>2, <1>5, <1>6, LiveKinds, LiveNodes DEF Is
<1>8. Partial' = {p, ly, a} /\ Unlinked' = {} /\ Cut' = {}
  BY <1>3, <1>5, <1>7 DEF Partial, Unlinked, Cut
<1>9. Sound(heap', {p, ly, a}, {}, {})
  <2>1. doing.neurons > 0 =>
          /\ nr \in Live(heap) /\ nr # p /\ nr # ly
          /\ heap[nr].first = NULL \/ heap[nr].first # heap[nr].last
    <3> HAVE doing.neurons > 0
    <3>1. Holds(heap, nr, doing.weights)
      BY <1>1, <1>3 DEF ListsInv, BuildInv
    <3>2. doing.weights = WeightsIn(doing.layers)
      BY <1>3, <1>4 DEF NeuronIsFull
    <3>3. WeightsIn(doing.layers) = 0 \/ WeightsIn(doing.layers) > 1
      BY <1>1, <1>3, <1>5, Sizes DEF ListsInv, TypeInv, BuildInv
    <3> QED BY <3>1, <3>2, <3>3, <1>2, <1>3, <1>5 DEF Holds, Is
  <2>2. \A q \in (Partial \cup {a}) \ {p, ly, a} : heap'[q].first = NULL \/ heap'[q].first # heap'[q].last
    <3> SUFFICES ASSUME NEW q \in (Partial \cup {a}) \ {p, ly, a}
                 PROVE  heap'[q].first = NULL \/ heap'[q].first # heap'[q].last
      OBVIOUS
    <3>1. q = nr /\ doing.neurons > 0
      BY <1>2
    <3> HIDE DEF p, ly, nr
    <3> QED BY <2>1, <3>1, <1>6
  <2>3. {p, ly, a} \subseteq Partial \cup {a}
    BY <1>2, <1>5
  <2> HIDE DEF p, ly, nr
  <2> QED BY <2>2, <2>3, <1>6, <1>7, CompleteKeepsSound
<1>10. TypeInv'
  BY <1>3, <1>4, <1>6 DEF ListsInv, TypeInv, Doing
<1>11. HeapInv'
  BY <1>8, <1>9 DEF HeapInv
<1>12. RootInv'
  BY <1>1, <1>3, <1>4, <1>6 DEF ListsInv, RootInv, Is
<1>13. BuildInv'
  <2>1. Holds(heap, ly, doing.neurons) /\ PartialRight(heap, Partial) /\ ly \in Partial
    <3>1. Holds(heap, ly, doing.neurons)
      BY <1>1, <1>3, <1>5 DEF ListsInv, BuildInv
    <3>2. PartialRight(heap, Partial)
      BY DEF ListsInv, HeapInv, Sound
    <3> QED BY <3>1, <3>2, <1>2, <1>5
  <2>2. /\ heap[ly].first = NULL <=> heap[ly].last = NULL
        /\ heap[ly].first \in Live(heap) \cup {NULL}
    <3>1. FirstRight(heap, {})
      BY <1>2 DEF ListsInv, HeapInv, Sound
    <3> QED BY <3>1, <2>1, <1>2, <1>5, <1>7 DEF PartialRight, FirstRight, Is
  <2>3. Holds(heap', ly, doing.neurons + 1)
    BY <2>1, <2>2, <1>3, <1>6, <1>7 DEF Holds, NULL, Address
  <2>4. Holds(heap', a, 0) /\ Holds(heap', p, doing.layers)
    <3>1. Holds(heap, p, doing.layers)
      BY <1>1 DEF ListsInv, BuildInv
    <3>2. heap'[p].first = heap[p].first /\ heap'[p].last = heap[p].last
      BY <1>6, <1>7
    <3> HIDE DEF p, ly, nr
    <3> QED BY <3>1, <3>2, <1>6 DEF Holds
  <2>5. Is(heap', p, "network") /\ doing.layers <= Len(shape)
    BY <1>1, <1>2, <1>6 DEF Is, ListsInv, BuildInv
  <2> HIDE DEF p, ly, nr
  <2> QED BY <2>3, <2>4, <2>5, <1>3, <1>4, <1>5, <1>7 DEF BuildInv
<1> QED BY <1>3, <1>4, <1>10, <1>11, <1>12, <1>13 DEF ListsInv, FreeInv, CopyInv, NothingFreedIsUsed


\* A weight goes to the last neuron of the last layer.
LEMMA BuildWeightKeeps == ListsInv /\ BuildWeight => ListsInv'
<1> SUFFICES ASSUME ListsInv, BuildWeight PROVE ListsInv'
  OBVIOUS
<1> DEFINE p == doing.network
           ly == heap[p].last
           nr == heap[ly].last
<1>1. doing.proc = "build"
  BY DEF BuildWeight
<1>2. /\ doing \in Builds /\ Unlinked = {} /\ Cut = {} /\ Is(heap, p, "network")
      /\ doing.layers > 0 => Is(heap, ly, "layer")
      /\ doing.neurons > 0 => doing.layers > 0 /\ Is(heap, nr, "neuron")
      /\ Partial = {p} \cup (IF doing.layers > 0 THEN {ly} ELSE {})
                      \cup (IF doing.neurons > 0 THEN {nr} ELSE {})
  BY <1>1, InWork
<1>3. /\ doing.layers \in Nat /\ doing.neurons \in Nat /\ doing.weights \in Nat /\ p \in Address
      /\ doing' \in Builds /\ doing'.proc = "build" /\ doing'.network = p
      /\ doing'.layers = doing.layers /\ doing'.neurons = doing.neurons /\ doing'.weights = doing.weights + 1
  <2>1. doing.layers \in Nat /\ doing.neurons \in Nat /\ doing.weights \in Nat /\ p \in Address
    BY <1>2 DEF Builds
  <2>2. doing' = [doing EXCEPT !.weights = doing.weights + 1]
    BY DEF BuildWeight
  <2>3. doing.neurons \in Nat /\ doing.weights + 1 \in Nat
    BY <2>1
  <2> QED BY <1>2, <2>1, <2>2, <2>3, Zenon DEF Builds
<1>4. /\ shape' = shape /\ global' = global /\ control' = control /\ client' = client
      /\ round' = round /\ misuse' = misuse /\ doing.neurons # 0
  BY DEF BuildWeight, NeuronIsFull
<1>5. doing.layers > 0 /\ doing.neurons > 0
  BY <1>2, <1>3, <1>4
<1>6. PICK a \in Address :
           /\ a \notin Live(heap) /\ heap' \in Heaps /\ Live(heap') = Live(heap) \cup {a}
           /\ Sound(heap', Partial \cup {a}, {}, {})
           /\ heap'[a].kind = "weight" /\ heap'[a].first = NULL /\ heap'[a].last = NULL
           /\ \A b \in Live(heap) :
                /\ heap'[b].kind = heap[b].kind
                /\ heap'[b].first = IF b = nr /\ heap[nr].last = NULL
                                    THEN a ELSE heap[b].first
                /\ heap'[b].last = IF b = nr THEN a ELSE heap[b].last
  <2>1. /\ nr \in Partial /\ "weight" \in NodeKind /\ "weight" # "network"
        /\ "weight" = BelowKind[heap[nr].kind]
    BY <1>2, <1>5, Kinds DEF Is, NodeKind
  <2>2. Grow(nr, "weight")
    BY DEF BuildWeight
  <2> HIDE DEF p, ly, nr
  <2> QED BY <1>1, <2>1, <2>2, GrowRight
<1>7. /\ p \in Live(heap) /\ ly \in Live(heap) /\ p # ly /\ heap'[nr].last = a
      /\ NULL \notin Live(heap) /\ NULL \notin Live(heap')
      /\ heap'[p].last = ly /\ heap'[ly].last = nr /\ nr \in Live(heap) /\ nr # p /\ nr # ly
  BY <1>2, <1>5, <1>6, LiveKinds, LiveNodes DEF Is
<1>8. Partial' = {p, ly, nr} /\ Unlinked' = {} /\ Cut' = {}
  BY <1>3, <1>5, <1>7 DEF Partial, Unlinked, Cut
<1>9. Sound(heap', {p, ly, nr}, {}, {})
  <2>1. Partial = {p, ly, nr}
    BY <1>2, <1>5
  <2>2. \A q \in (Partial \cup {a}) \ {p, ly, nr} : heap'[q].first = NULL
    BY <2>1, <1>6
  <2> HIDE DEF p, ly, nr
  <2> QED BY <2>1, <2>2, <1>6, <1>7, CompleteKeepsSound
<1>10. TypeInv'
  BY <1>3, <1>4, <1>6 DEF ListsInv, TypeInv, Doing
<1>11. HeapInv'
  BY <1>8, <1>9 DEF HeapInv
<1>12. RootInv'
  BY <1>1, <1>3, <1>4, <1>6 DEF ListsInv, RootInv, Is
<1>13. BuildInv'
  <2>1. Holds(heap, nr, doing.weights) /\ PartialRight(heap, Partial) /\ nr \in Partial
    <3>1. Holds(heap, nr, doing.weights)
      BY <1>1, <1>3, <1>5 DEF ListsInv, BuildInv
    <3>2. PartialRight(heap, Partial)
      BY DEF ListsInv, HeapInv, Sound
    <3> QED BY <3>1, <3>2, <1>2, <1>5
  <2>2. /\ heap[nr].first = NULL <=> heap[nr].last = NULL
        /\ heap[nr].first \in Live(heap) \cup {NULL}
    <3>1. FirstRight(heap, {})
      BY <1>2 DEF ListsInv, HeapInv, Sound
    <3> QED BY <3>1, <2>1, <1>2, <1>5, <1>7 DEF PartialRight, FirstRight, Is
  <2>3. Holds(heap', nr, doing.weights + 1)
    <3>1. /\ heap'[nr].first = IF heap[nr].last = NULL THEN a ELSE heap[nr].first
          /\ heap'[nr].last = a /\ a # NULL /\ a \notin Live(heap)
      BY <1>6, <1>7 DEF NULL, Address
    <3> HIDE DEF nr
    <3> QED BY <3>1, <2>1, <2>2, <1>3 DEF Holds
  <2>4. Holds(heap', p, doing.layers) /\ Holds(heap', ly, doing.neurons)
    <3>1. Holds(heap, p, doing.layers) /\ Holds(heap, ly, doing.neurons)
      BY <1>1, <1>3, <1>5 DEF ListsInv, BuildInv
    <3>2. /\ heap'[p].first = heap[p].first /\ heap'[p].last = heap[p].last
          /\ heap'[ly].first = heap[ly].first /\ heap'[ly].last = heap[ly].last
      BY <1>6, <1>7
    <3> HIDE DEF p, ly
    <3> QED BY <3>1, <3>2 DEF Holds
  <2>5. Is(heap', p, "network") /\ doing.layers <= Len(shape)
    BY <1>1, <1>2, <1>6 DEF Is, ListsInv, BuildInv
  <2>6. heap'[heap'[p].last].last = nr
    BY <1>7
  <2> HIDE DEF p, ly, nr
  <2> QED BY <2>3, <2>4, <2>5, <2>6, <1>3, <1>4, <1>5, <1>7 DEF BuildInv
<1> QED BY <1>3, <1>4, <1>10, <1>11, <1>12, <1>13 DEF ListsInv, FreeInv, CopyInv, NothingFreedIsUsed

\* After the last layer no list is left with one node.
LEMMA BuiltKeeps == ListsInv /\ Built => ListsInv'
<1> SUFFICES ASSUME ListsInv, Built PROVE ListsInv'
  OBVIOUS
<1> DEFINE p == doing.network
           ly == heap[p].last
           nr == heap[ly].last
<1>1. doing.proc = "build"
  BY DEF Built
<1>2. /\ doing \in Builds /\ Unlinked = {} /\ Cut = {} /\ Is(heap, p, "network")
      /\ doing.layers > 0 => Is(heap, ly, "layer")
      /\ doing.neurons > 0 => doing.layers > 0 /\ Is(heap, nr, "neuron")
      /\ Partial = {p} \cup (IF doing.layers > 0 THEN {ly} ELSE {})
                      \cup (IF doing.neurons > 0 THEN {nr} ELSE {})
  BY <1>1, InWork
<1>3. /\ doing.layers \in Nat /\ doing.neurons \in Nat /\ doing.weights \in Nat
      /\ doing' = Idle /\ doing'.proc = "idle"
  BY <1>2 DEF Built, Builds, Idle
<1>4. /\ shape' = shape /\ heap' = heap /\ global' = global /\ control' = control
      /\ client' = client /\ round' = round /\ misuse' = misuse
      /\ LayerIsFull /\ doing.layers = Len(shape)
  BY DEF Built
<1>5. shape \in Shapes /\ Len(shape) > 1
  BY ShapesAssumption DEF ListsInv, TypeInv
<1>6. heap[p].first # heap[p].last
  BY <1>1, <1>3, <1>4, <1>5 DEF ListsInv, BuildInv, Holds
<1>7. doing.layers > 0 => heap[ly].first # heap[ly].last
  <2> HAVE doing.layers > 0
  <2>1. Holds(heap, ly, doing.neurons)
    BY <1>1, <1>3 DEF ListsInv, BuildInv
  <2>2. doing.neurons = shape[doing.layers] /\ shape[doing.layers] > 1
    BY <1>3, <1>4, <1>5, Sizes DEF LayerIsFull
  <2> QED BY <2>1, <2>2, <1>3 DEF Holds
<1>8. doing.neurons > 0 => heap[nr].first = NULL \/ heap[nr].first # heap[nr].last
  <2> HAVE doing.neurons > 0
  <2>1. Holds(heap, nr, doing.weights) /\ doing.layers > 0
    BY <1>1, <1>2, <1>3 DEF ListsInv, BuildInv
  <2>2. doing.weights = WeightsIn(doing.layers)
    BY <1>3, <1>4, <2>1 DEF LayerIsFull, NeuronIsFull
  <2>3. WeightsIn(doing.layers) = 0 \/ WeightsIn(doing.layers) > 1
    BY <1>3, <1>4, <1>5, <2>1, Sizes
  <2> QED BY <2>1, <2>2, <2>3, <1>3 DEF Holds
<1>9. Sound(heap, {}, {}, {})
  <2>1. Sound(heap, Partial, {}, {}) /\ NULL \notin Live(heap)
    BY <1>2, LiveKinds DEF ListsInv, HeapInv
  <2>2. \A q \in Partial \ {} : heap[q].first = NULL \/ heap[q].first # heap[q].last
    BY <1>2, <1>6, <1>7, <1>8
  <2> QED BY <2>1, <2>2, CompleteKeepsSound
<1>10. Partial' = {} /\ Unlinked' = {} /\ Cut' = {}
  BY <1>3 DEF Partial, Unlinked, Cut
<1>11. HeapInv'
  BY <1>4, <1>9, <1>10 DEF HeapInv
<1>12. TypeInv' /\ RootInv'
  BY <1>1, <1>3, <1>4 DEF ListsInv, TypeInv, Doing, RootInv
<1> QED BY <1>3, <1>4, <1>11, <1>12 DEF ListsInv, BuildInv, FreeInv, CopyInv, NothingFreedIsUsed

\* What the first node of a network does to the heap.
LEMMA FirstNodeRight ==
  ASSUME ListsInv, Serving, Room, heap' = [heap EXCEPT ![Malloc] = NewNode("network", 0)]
  PROVE  /\ Malloc \in Address /\ Malloc \notin Live(heap) /\ heap' \in Heaps
         /\ Live(heap') = Live(heap) \cup {Malloc}
         /\ \A b \in Live(heap) : heap'[b] = heap[b]
         /\ heap'[Malloc].kind = "network" /\ heap'[Malloc].first = NULL
         /\ Sound(heap', {Malloc}, {}, {})
<1> DEFINE a == Malloc
<1>1. heap \in Heaps /\ Sound(heap, {}, {}, {})
  BY DEF ListsInv, TypeInv, HeapInv, Serving, Idle, Partial, Unlinked, Cut
<1>2. a \in Address /\ heap[a] = Freed /\ NULL \notin Live(heap) /\ a # NULL
  BY <1>1, FreshNode, LiveNodes DEF NULL, Address
<1>3. heap' = [heap EXCEPT ![a] = NewNode("network", 0)]
  OBVIOUS
<1> HIDE DEF a
<1>4. Fresh(heap, heap', a, "network")
  <2>1. 0 \in Nat /\ "network" \in NodeKind
    BY DEF NodeKind
  <2>2. Fresh(heap, [heap EXCEPT ![a] = NewNode("network", 0)], a, "network")
    BY <1>1, <1>2, <2>1, NewNodeIsFresh
  <2> QED BY <2>2, <1>3
<1>5. Sound(heap', {} \cup {a}, {} \cup {a}, {})
  BY <1>1, <1>2, <1>4, AddKeepsSound DEF Fresh
<1>6. Sound(heap', {a}, {}, {})
  <2>1. {} \cup {a} = {a} /\ {} \subseteq {a}
    OBVIOUS
  <2> QED BY <2>1, <1>5, FewerUnlinked
<1> QED BY <1>2, <1>4, <1>6 DEF Fresh, a

\* The server makes the global network and the sum.
LEMMA CreateNetworkKeeps == ListsInv /\ CreateNetwork => ListsInv'
<1> SUFFICES ASSUME ListsInv, CreateNetwork PROVE ListsInv'
  OBVIOUS
<1> DEFINE a == Malloc
<1>1. /\ a \in Address /\ a \notin Live(heap) /\ heap' \in Heaps
      /\ Live(heap') = Live(heap) \cup {a}
      /\ \A b \in Live(heap) : heap'[b] = heap[b]
      /\ heap'[a].kind = "network" /\ heap'[a].first = NULL
      /\ Sound(heap', {a}, {}, {})
  BY FirstNodeRight DEF CreateNetwork
<1>2. /\ doing' = [proc |-> "build", network |-> a, layers |-> 0, neurons |-> 0, weights |-> 0]
      /\ IF global = NULL THEN global' = a /\ control' = control
         ELSE control' = a /\ global' = global
      /\ global = NULL \/ control = NULL
      /\ shape' = shape /\ client' = client /\ round' = round /\ misuse' = misuse
      /\ doing.proc = "idle"
  BY DEF CreateNetwork, Serving, Idle
<1> HIDE DEF a
<1>3. /\ doing' \in Builds /\ doing'.proc = "build" /\ doing'.network = a
      /\ doing'.layers = 0 /\ doing'.neurons = 0 /\ doing'.weights = 0
  BY <1>1, <1>2 DEF Builds
<1>4. Partial' = {a} /\ Unlinked' = {} /\ Cut' = {}
  BY <1>3 DEF Partial, Unlinked, Cut
<1>5. HeapInv'
  BY <1>1, <1>4 DEF HeapInv
<1>6. a \in Pointer /\ a # NULL /\ NULL \notin Live(heap)
  BY <1>1, LiveKinds, HeapAssumption DEF Pointer, Address, NULL
<1>7. TypeInv'
  BY <1>1, <1>2, <1>3, <1>6 DEF ListsInv, TypeInv, Doing
<1>8. RootInv'
  BY <1>1, <1>2, <1>3, <1>6 DEF ListsInv, RootInv, Is
<1>9. BuildInv'
  <2>1. shape \in Shapes /\ Len(shape) \in Nat
    BY ShapesAssumption DEF ListsInv, TypeInv
  <2> QED BY <2>1, <1>1, <1>2, <1>3 DEF BuildInv, Holds, Is
<1> QED BY <1>2, <1>3, <1>5, <1>7, <1>8, <1>9 DEF ListsInv, FreeInv, CopyInv, NothingFreedIsUsed

\* The network of a local model is one more, with nodes of its own.
LEMMA ReceiveModelKeeps == ListsInv /\ ReceiveModel => ListsInv'
<1> SUFFICES ASSUME ListsInv, ReceiveModel PROVE ListsInv'
  OBVIOUS
<1> DEFINE a == Malloc
<1>1. /\ a \in Address /\ a \notin Live(heap) /\ heap' \in Heaps
      /\ Live(heap') = Live(heap) \cup {a}
      /\ \A b \in Live(heap) : heap'[b] = heap[b]
      /\ heap'[a].kind = "network" /\ heap'[a].first = NULL
      /\ Sound(heap', {a}, {}, {})
  BY FirstNodeRight DEF ReceiveModel
<1>2. /\ doing' = [proc |-> "build", network |-> a, layers |-> 0, neurons |-> 0, weights |-> 0]
      /\ client' = a /\ control # NULL /\ doing.proc = "idle"
      /\ shape' = shape /\ global' = global /\ control' = control /\ round' = round
      /\ misuse' = misuse
  BY DEF ReceiveModel, Serving, Idle
<1> HIDE DEF a
<1>3. /\ doing' \in Builds /\ doing'.proc = "build" /\ doing'.network = a
      /\ doing'.layers = 0 /\ doing'.neurons = 0 /\ doing'.weights = 0
  BY <1>1, <1>2 DEF Builds
<1>4. Partial' = {a} /\ Unlinked' = {} /\ Cut' = {}
  BY <1>3 DEF Partial, Unlinked, Cut
<1>5. HeapInv'
  BY <1>1, <1>4 DEF HeapInv
<1>6. a \in Pointer
  BY <1>1, HeapAssumption DEF Pointer, Address
<1>7. TypeInv'
  BY <1>1, <1>2, <1>3, <1>6 DEF ListsInv, TypeInv, Doing
<1>8. RootInv'
  BY <1>1, <1>2, <1>3 DEF ListsInv, RootInv, Is
<1>9. BuildInv'
  <2>1. shape \in Shapes /\ Len(shape) \in Nat
    BY ShapesAssumption DEF ListsInv, TypeInv
  <2> QED BY <2>1, <1>1, <1>2, <1>3 DEF BuildInv, Holds, Is
<1> QED BY <1>2, <1>3, <1>5, <1>7, <1>8, <1>9 DEF ListsInv, FreeInv, CopyInv, NothingFreedIsUsed

-----------------------------------------------------------------------------
(* Freeing the global network.                                              *)

\* Less is asked of the lists that are being freed.
LEMMA MoreCut ==
  ASSUME NEW h, NEW cut, NEW more, cut \subseteq more, Sound(h, {}, {}, cut)
  PROVE  Sound(h, {}, {}, more)
<1>1. FirstRight(h, more) /\ NoSingles(h, {}, more)
  BY DEF Sound, FirstRight, NoSingles
<1> QED BY <1>1 DEF Sound

\* A cursor that has come to its end stands for no list.
LEMMA NullIsNotCut ==
  ASSUME NEW h, NEW cut, NULL \notin Live(h), Sound(h, {}, {}, {NULL} \cup cut)
  PROVE  Sound(h, {}, {}, cut)
<1>1. FirstRight(h, cut) /\ NoSingles(h, {}, cut)
  BY DEF Sound, FirstRight, NoSingles
<1> QED BY <1>1 DEF Sound

\* Only its parent has a pointer to the first node of a list.
LEMMA FirstIsOwned ==
  ASSUME NEW h, NEW cut, Sound(h, {}, {}, cut), NEW p \in Live(h), p \notin cut,
         h[p].first # NULL
  PROVE  /\ Is(h, h[p].first, BelowKind[h[p].kind])
         /\ \A b \in Live(h) : h[b].next # h[p].first /\ (h[b].first = h[p].first => b = p)
<1>1. FirstRight(h, cut) /\ Unshared(h) /\ Loops(h, {})
  BY DEF Sound
<1>2. Is(h, h[p].first, BelowKind[h[p].kind])
  BY <1>1 DEF FirstRight
<1>3. \A b \in Live(h) : h[b].first = h[p].first => b = p
  BY <1>1 DEF Unshared
<1>4. \A b \in Live(h) : h[b].next # h[p].first
  BY <1>1 DEF Unshared, Loops
<1> QED BY <1>2, <1>3, <1>4

\* Only the node before it has a pointer to another one.
LEMMA NextIsOwned ==
  ASSUME NEW h, NEW cut, Sound(h, {}, {}, cut), NEW a \in Live(h), h[a].next # NULL
  PROVE  /\ Is(h, h[a].next, h[a].kind) /\ h[a].next # a
         /\ \A b \in Live(h) : (h[b].next = h[a].next => b = a) /\ h[b].first # h[a].next
<1>1. NextRight(h) /\ Unshared(h) /\ Loops(h, {})
  BY DEF Sound
<1>2. Is(h, h[a].next, h[a].kind)
  BY <1>1 DEF NextRight
<1>3. h[a].next # a
  BY <1>1 DEF Loops
<1>4. \A b \in Live(h) : (h[b].next = h[a].next => b = a) /\ h[b].first # h[a].next
  BY <1>1, <1>3 DEF Unshared
<1> QED BY <1>2, <1>3, <1>4

\* Assigning values to some of the nodes changes no pointer.
LEMMA ValuesAssigned ==
  ASSUME NEW h \in Heaps, NEW S, \A a \in S \cap Address : a \in Live(h),
         NEW v, \A a \in Address : v[a] \in Nat,
         NEW g, g = [a \in Address |-> IF a \in S THEN [h[a] EXCEPT !.value = v[a]] ELSE h[a]]
  PROVE  g \in Heaps /\ SamePointers(h, g)
<1>1. \A a \in S \cap Address :
        LET n == [h[a] EXCEPT !.value = v[a]]
        IN /\ n \in HeapNode /\ n.kind = h[a].kind /\ n.first = h[a].first
           /\ n.last = h[a].last /\ n.next = h[a].next
  BY LiveNodes DEF HeapNode
<1>2. \A n \in HeapNode : n # Freed
  BY DEF HeapNode, NodeKind, Freed
<1>3. g \in Heaps
  BY <1>1 DEF Heaps
<1>4. Live(g) = Live(h)
  BY <1>1, <1>2 DEF Live
<1>5. Live(h) \subseteq Address
  BY DEF Live
<1> QED BY <1>1, <1>3, <1>4, <1>5 DEF SamePointers

\* FederatedAveraging assigns values, and no pointers.
LEMMA AverageAssigns ==
  ASSUME ListsInv, Average PROVE heap' \in Heaps /\ SamePointers(heap, heap')
<1>1. heap \in Heaps /\ round \in Nat
  BY DEF ListsInv, TypeInv
<1> DEFINE parameters == {a \in NodesOf(heap, control) : heap[a].kind \in {"neuron", "weight"}}
           v == [a \in Address |-> a + HeapSize * round]
<1>2. heap' = [a \in Address |-> IF a \in parameters
                                 THEN [heap[a] EXCEPT !.value = a + HeapSize * round]
                                 ELSE heap[a]]
  BY DEF Average
<1>3. heap' = [a \in Address |-> IF a \in parameters
                                 THEN [heap[a] EXCEPT !.value = v[a]] ELSE heap[a]]
  BY <1>2
<1>4. HeapSize * round \in Nat
  BY <1>1, HeapAssumption
<1>5. \A a \in Address : v[a] \in Nat
  BY <1>4 DEF Address
<1>6. \A a \in parameters \cap Address : a \in Live(heap)
  BY DEF Live, Freed
<1> HIDE DEF parameters, v
<1> QED BY <1>3, <1>5, <1>6, <1>1, ValuesAssigned

\* The averaged sum is left as it is, and freeing begins at the first layer.
LEMMA AverageKeeps == ListsInv /\ Average => ListsInv'
<1> SUFFICES ASSUME ListsInv, Average PROVE ListsInv'
  OBVIOUS
<1>1. /\ doing' = [proc |-> "free", network |-> global, layer |-> heap[global].first,
                   neuron |-> NULL, weight |-> NULL, descended |-> FALSE]
      /\ client # NULL /\ client' = NULL /\ doing.proc = "idle"
      /\ shape' = shape /\ global' = global /\ control' = control /\ round' = round
      /\ misuse' = misuse
  BY DEF Average, Serving, Idle
<1>2. heap \in Heaps /\ round \in Nat /\ Sound(heap, {}, {}, {}) /\ NULL \notin Live(heap)
  BY <1>1, LiveKinds DEF ListsInv, TypeInv, HeapInv, Partial, Unlinked, Cut
<1>3. heap' \in Heaps /\ SamePointers(heap, heap')
  BY AverageAssigns
<1>4. Sound(heap', {}, {}, {})
  BY <1>2, <1>3, ValuesKeepSound
<1>5. control # NULL /\ global # NULL /\ Is(heap, global, "network") /\ Is(heap, control, "network")
      /\ control # global
  BY <1>1 DEF ListsInv, RootInv
<1>6. Is(heap', global, "network") /\ Is(heap', control, "network")
      /\ heap'[global].first = heap[global].first /\ NULL \notin Live(heap')
  BY <1>2, <1>3, <1>5 DEF SamePointers, Is
<1>7. heap[global].first \in Pointer /\ global \in Address
  BY <1>5, LiveKinds DEF HeapNode, Is, Live
<1>8. /\ doing' \in Frees /\ doing'.proc = "free" /\ doing'.network = global
      /\ doing'.layer = heap[global].first /\ doing'.neuron = NULL /\ doing'.weight = NULL
      /\ doing'.descended = FALSE
  BY <1>1, <1>7, HeapAssumption DEF Frees, Pointer, NULL
<1>9. Cut' = {global, NULL} /\ Partial' = {} /\ Unlinked' = {}
  BY <1>8 DEF Cut, Partial, Unlinked
<1>10. HeapInv'
  <2>1. Sound(heap', {}, {}, {global, NULL})
    BY <1>4, MoreCut
  <2> QED BY <2>1, <1>9 DEF HeapInv
<1>11. TypeInv'
  BY <1>1, <1>3, <1>8, HeapAssumption DEF ListsInv, TypeInv, Doing, Pointer, NULL
<1>12. RootInv'
  BY <1>1, <1>5, <1>6 DEF RootInv
<1>13. FreeInv'
  <2> DEFINE x == heap'[global].first
  <2>1. x # NULL =>
          /\ Is(heap', x, "layer")
          /\ \A b \in Live(heap') : heap'[b].next # x /\ (heap'[b].first = x => b = global)
    BY <1>4, <1>6, FirstIsOwned, Kinds DEF Is
  <2>2. x = doing'.layer /\ global = doing'.network
    BY <1>6, <1>8
  <2> HIDE DEF x
  <2>3. NextToFree(doing.layer, "layer", doing.network)'
    BY <2>1, <2>2 DEF NextToFree
  <2> QED BY <2>3, <1>1, <1>5, <1>8 DEF FreeInv, NextToFree
<1> QED BY <1>1, <1>8, <1>10, <1>11, <1>12, <1>13 DEF ListsInv, BuildInv, CopyInv, NothingFreedIsUsed

\* What a step of freeNeuralNetwork can rely on.
FreeFacts ==
  /\ doing \in Frees /\ Sound(heap, {}, {}, Cut) /\ heap \in Heaps
  /\ Cut = {doing.network, doing.neuron} \cup (IF doing.descended THEN {doing.layer} ELSE {})
  /\ doing.network = global /\ control # NULL /\ global # NULL /\ client = NULL
  /\ Is(heap, global, "network") /\ Is(heap, control, "network") /\ control # global
  /\ NextToFree(doing.layer, "layer", doing.network)
  /\ NextToFree(doing.neuron, "neuron", doing.layer)
  /\ NextToFree(doing.weight, "weight", doing.neuron)
  /\ doing.layer = NULL => ~doing.descended
  /\ ~doing.descended => doing.neuron = NULL
  /\ doing.neuron = NULL => doing.weight = NULL

\* ListsInv says so.
LEMMA InFree ==
  ASSUME ListsInv, doing.proc = "free"
  PROVE  FreeFacts
<1>1. Partial = {} /\ Unlinked = {}
  BY DEF Partial, Unlinked
<1>2. doing \in Frees /\ heap \in Heaps
  BY WhatIsDone DEF ListsInv, TypeInv
<1>3. Sound(heap, {}, {}, Cut)
  BY <1>1 DEF ListsInv, HeapInv
<1>4. Cut = {doing.network, doing.neuron} \cup (IF doing.descended THEN {doing.layer} ELSE {})
  BY DEF Cut
<1> QED BY <1>2, <1>3, <1>4 DEF ListsInv, FreeInv, RootInv, FreeFacts

\* The cursors go down to the first neuron and its first weight.
LEMMA EnterLayerKeeps == ListsInv /\ EnterLayer => ListsInv'
<1> SUFFICES ASSUME ListsInv, EnterLayer PROVE ListsInv'
  OBVIOUS
<1>1. doing.proc = "free"
  BY DEF EnterLayer
<1>2. FreeFacts
  BY <1>1, InFree
<1> USE DEF FreeFacts
<1>3. /\ doing.network \in Address /\ doing.layer \in Pointer /\ doing.neuron \in Pointer
      /\ doing.weight \in Pointer /\ doing.descended \in BOOLEAN /\ NULL \in Pointer
  BY <1>2, HeapAssumption DEF Frees, Pointer, NULL
<1>4. /\ shape' = shape /\ heap' = heap /\ global' = global /\ control' = control
      /\ client' = client /\ round' = round
      /\ doing.layer # NULL /\ ~doing.descended
  BY DEF EnterLayer
<1>5. Is(heap, doing.layer, "layer") /\ NULL \notin Live(heap) /\ doing.layer \notin Cut
  BY <1>2, <1>4, LiveKinds DEF NextToFree, Is
<1>6. NothingFreedIsUsed'
  BY <1>5 DEF EnterLayer, Misuses, Is, Live, ListsInv, NothingFreedIsUsed
<1> DEFINE x == heap[doing.layer].first
           w == IF x = NULL THEN NULL ELSE heap[x].first
<1>7. x # NULL =>
        /\ Is(heap, x, "neuron")
        /\ \A b \in Live(heap) : heap[b].next # x /\ (heap[b].first = x => b = doing.layer)
  BY <1>2, <1>5, FirstIsOwned, Kinds DEF Is
<1>8. FirstOf(doing.layer) = x /\ FirstOf(x) = w
  BY <1>4, <1>5, <1>7 DEF FirstOf, Is, Live
<1>9. x # NULL => x \notin Cut
  BY <1>2, <1>4, <1>5, <1>7 DEF Is
<1>10. w # NULL =>
        /\ Is(heap, w, "weight") /\ x # NULL
        /\ \A b \in Live(heap) : heap[b].next # w /\ (heap[b].first = w => b = x)
  BY <1>2, <1>7, <1>9, FirstIsOwned, Kinds DEF Is
<1>11. x \in Pointer /\ w \in Pointer
  BY <1>3, <1>5, <1>7, LiveKinds DEF HeapNode, Is
<1>12. /\ doing' \in Frees /\ doing'.proc = "free" /\ doing'.network = doing.network
       /\ doing'.layer = doing.layer /\ doing'.neuron = x /\ doing'.weight = w
       /\ doing'.descended = TRUE
  <2>1. doing' = [doing EXCEPT !.neuron = x, !.weight = w, !.descended = TRUE]
    BY <1>8 DEF EnterLayer
  <2> HIDE DEF x, w
  <2> QED BY <2>1, <1>2, <1>11, Zenon DEF Frees
<1> HIDE DEF x, w
<1>13. Cut' = {doing.network, x, doing.layer} /\ Partial' = {} /\ Unlinked' = {}
  BY <1>12 DEF Cut, Partial, Unlinked
<1>14. HeapInv'
  <2>1. Cut \subseteq {NULL} \cup Cut'
    BY <1>2, <1>4, <1>13
  <2>2. Sound(heap, {}, {}, {NULL} \cup Cut')
    BY <2>1, <1>2, MoreCut
  <2>3. Sound(heap, {}, {}, Cut')
    BY <2>2, <1>5, NullIsNotCut
  <2> QED BY <2>3, <1>4, <1>13 DEF HeapInv
<1>15. TypeInv' /\ RootInv'
  BY <1>1, <1>2, <1>4, <1>12 DEF ListsInv, TypeInv, Doing, RootInv
<1>16. FreeInv'
  <2>1. /\ NextToFree(doing.layer, "layer", doing.network)'
        /\ NextToFree(doing.neuron, "neuron", doing.layer)'
        /\ NextToFree(doing.weight, "weight", doing.neuron)'
    BY <1>2, <1>4, <1>7, <1>10, <1>12 DEF NextToFree
  <2> QED BY <2>1, <1>2, <1>4, <1>10, <1>12 DEF FreeInv
<1> QED BY <1>4, <1>6, <1>12, <1>14, <1>15, <1>16
       DEF ListsInv, BuildInv, CopyInv

\* The next weight is read before its owner is freed, and then nobody's.
LEMMA FreeWeightKeeps == ListsInv /\ FreeWeight => ListsInv'
<1> SUFFICES ASSUME ListsInv, FreeWeight PROVE ListsInv'
  OBVIOUS
<1>1. doing.proc = "free"
  BY DEF FreeWeight
<1>2. FreeFacts
  BY <1>1, InFree
<1> USE DEF FreeFacts
<1>3. /\ doing.network \in Address /\ doing.layer \in Pointer /\ doing.neuron \in Pointer
      /\ doing.weight \in Pointer /\ doing.descended \in BOOLEAN /\ NULL \in Pointer
  BY <1>2, HeapAssumption DEF Frees, Pointer, NULL
<1> DEFINE a == doing.weight
<1>4. /\ shape' = shape /\ global' = global /\ control' = control
      /\ client' = client /\ round' = round /\ doing.weight # NULL
  BY DEF FreeWeight
<1>5. a # NULL
  BY <1>2, <1>4
<1>6. /\ Is(heap, a, "weight") /\ NULL \notin Live(heap)
      /\ \A b \in Live(heap) : heap[b].next # a /\ (heap[b].first = a => b = doing.neuron)
  BY <1>2, <1>5, LiveKinds DEF NextToFree
<1>7. Gone(heap, heap', a)
  <2>1. heap' = [heap EXCEPT ![a] = Freed]
    BY DEF FreeWeight, FreeNode
  <2>2. a \in Live(heap)
    BY <1>6 DEF Is
  <2> HIDE DEF a
  <2> QED BY <2>1, <2>2, <1>2, FreedIsGone
<1>8. NothingFreedIsUsed'
  BY <1>6 DEF FreeWeight, FreeNode, Misuses, Is, Live, ListsInv, NothingFreedIsUsed
<1> DEFINE n == heap[a].next
<1>9. After(a) = n /\ n \in Pointer
  BY <1>6, LiveKinds DEF After, Is, Live, HeapNode
<1>10. n # NULL =>
         /\ Is(heap, n, "weight") /\ n # a
         /\ \A b \in Live(heap') : heap[b].next # n /\ heap[b].first # n
  BY <1>2, <1>6, <1>7, NextIsOwned DEF Is, Gone
<1>11. /\ doing' \in Frees /\ doing'.proc = "free" /\ doing'.network = doing.network
       /\ doing'.layer = doing.layer /\ doing'.neuron = doing.neuron /\ doing'.weight = n
       /\ doing'.descended = doing.descended
  <2>1. doing' = [doing EXCEPT !.weight = n]
    BY <1>9 DEF FreeWeight
  <2> HIDE DEF a, n
  <2> QED BY <2>1, <1>2, <1>9, Zenon DEF Frees
<1> HIDE DEF a, n
<1>12. Cut' = Cut /\ Partial' = {} /\ Unlinked' = {}
  BY <1>1, <1>11 DEF Cut, Partial, Unlinked
<1>13. HeapInv'
  <2>1. OnlyFrom(heap, a, Cut)
    BY <1>2, <1>6 DEF OnlyFrom
  <2>2. Cut \subseteq Cut \cup {a} \cup {NULL}
    OBVIOUS
  <2>3. Sound(heap', {}, {}, Cut)
    BY <2>1, <2>2, <1>2, <1>6, <1>7, FreeKeepsSound
  <2> QED BY <2>3, <1>12 DEF HeapInv
<1>14. TypeInv' /\ RootInv'
  BY <1>1, <1>2, <1>4, <1>6, <1>7, <1>11 DEF ListsInv, TypeInv, Doing, RootInv, Is, Gone
<1>15. FreeInv'
  <2>1. /\ NextToFree(doing.layer, "layer", doing.network)'
        /\ NextToFree(doing.neuron, "neuron", doing.layer)'
    BY <1>2, <1>6, <1>7, <1>11 DEF NextToFree, Is, Gone
  <2>2. NextToFree(doing.weight, "weight", doing.neuron)'
    BY <1>6, <1>7, <1>10, <1>11 DEF NextToFree, Is, Gone
  <2>3. doing.neuron # NULL
    BY <1>2, <1>5 DEF a
  <2> QED BY <2>1, <2>2, <2>3, <1>2, <1>4, <1>11 DEF FreeInv
<1> QED BY <1>4, <1>8, <1>11, <1>13, <1>14, <1>15
       DEF ListsInv, BuildInv, CopyInv

\* A neuron goes when its weights are gone, and the next one is nobody's.
LEMMA FreeNeuronKeeps == ListsInv /\ FreeNeuron => ListsInv'
<1> SUFFICES ASSUME ListsInv, FreeNeuron PROVE ListsInv'
  OBVIOUS
<1>1. doing.proc = "free"
  BY DEF FreeNeuron
<1>2. FreeFacts
  BY <1>1, InFree
<1> USE DEF FreeFacts
<1>3. /\ doing.network \in Address /\ doing.layer \in Pointer /\ doing.neuron \in Pointer
      /\ doing.weight \in Pointer /\ doing.descended \in BOOLEAN /\ NULL \in Pointer
  BY <1>2, HeapAssumption DEF Frees, Pointer, NULL
<1> DEFINE a == doing.neuron
<1>4. /\ shape' = shape /\ global' = global /\ control' = control
      /\ client' = client /\ round' = round /\ doing.descended /\ doing.neuron # NULL
  BY DEF FreeNeuron
<1>5. a # NULL
  BY <1>2, <1>4
<1>6. /\ Is(heap, a, "neuron") /\ NULL \notin Live(heap)
      /\ \A b \in Live(heap) : heap[b].next # a /\ (heap[b].first = a => b = doing.layer)
  BY <1>2, <1>5, LiveKinds DEF NextToFree
<1>7. Gone(heap, heap', a)
  <2>1. heap' = [heap EXCEPT ![a] = Freed]
    BY DEF FreeNeuron, FreeNode
  <2>2. a \in Live(heap)
    BY <1>6 DEF Is
  <2> HIDE DEF a
  <2> QED BY <2>1, <2>2, <1>2, FreedIsGone
<1>8. NothingFreedIsUsed'
  BY <1>6 DEF FreeNeuron, FreeNode, Misuses, Is, Live, ListsInv, NothingFreedIsUsed
<1> DEFINE n == heap[a].next
<1>9. After(a) = n /\ n \in Pointer
  BY <1>6, LiveKinds DEF After, Is, Live, HeapNode
<1>10. n # NULL =>
         /\ Is(heap, n, "neuron") /\ n # a
         /\ \A b \in Live(heap') : heap[b].next # n /\ heap[b].first # n
  BY <1>2, <1>6, <1>7, NextIsOwned DEF Is, Gone
<1> DEFINE w == IF n = NULL THEN NULL ELSE heap[n].first
<1>101. n # NULL => n \notin Cut
  BY <1>2, <1>4, <1>10 DEF NextToFree, Is
<1>102. w # NULL =>
          /\ Is(heap, w, "weight") /\ n # NULL /\ w # a
          /\ \A b \in Live(heap) : heap[b].next # w /\ (heap[b].first = w => b = n)
  <2> HAVE w # NULL
  <2>1. /\ n # NULL /\ n \in Live(heap) /\ n \notin Cut /\ heap[n].kind = "neuron"
        /\ heap[n].first = w /\ heap[n].first # NULL
    BY <1>10, <1>101 DEF Is
  <2> HIDE DEF n, w
  <2>2. /\ Is(heap, w, "weight")
        /\ \A b \in Live(heap) : heap[b].next # w /\ (heap[b].first = w => b = n)
    BY <2>1, <1>2, FirstIsOwned, Kinds
  <2> QED BY <2>1, <2>2, <1>6 DEF Is
<1>103. FirstOf(n) = w /\ w \in Pointer
  BY <1>3, <1>10, LiveKinds DEF FirstOf, Is, Live, HeapNode
<1>11. /\ doing' \in Frees /\ doing'.proc = "free" /\ doing'.network = doing.network
       /\ doing'.layer = doing.layer /\ doing'.neuron = n /\ doing'.weight = w
       /\ doing'.descended = doing.descended
  <2>1. doing' = [doing EXCEPT !.neuron = n, !.weight = w]
    BY <1>9, <1>103 DEF FreeNeuron
  <2> HIDE DEF a, n, w
  <2> QED BY <2>1, <1>2, <1>9, <1>103, Zenon DEF Frees
<1> HIDE DEF n, w
<1>12. Cut' = {doing.network, n, doing.layer} /\ Partial' = {} /\ Unlinked' = {}
  BY <1>4, <1>11 DEF Cut, Partial, Unlinked
<1>13. HeapInv'
  <2>1. OnlyFrom(heap, a, Cut)
    BY <1>2, <1>4, <1>6 DEF OnlyFrom
  <2>2. Cut \subseteq Cut' \cup {a} \cup {NULL}
    BY <1>2, <1>4, <1>12
  <2> HIDE DEF a
  <2>3. Sound(heap', {}, {}, Cut')
    BY <2>1, <2>2, <1>2, <1>6, <1>7, FreeKeepsSound
  <2> QED BY <2>3, <1>12 DEF HeapInv
<1>14. TypeInv' /\ RootInv'
  BY <1>1, <1>2, <1>4, <1>6, <1>7, <1>11 DEF ListsInv, TypeInv, Doing, RootInv, Is, Gone
<1>15. FreeInv'
  <2>1. NextToFree(doing.layer, "layer", doing.network)'
    BY <1>2, <1>6, <1>7, <1>11 DEF NextToFree, Is, Gone
  <2>3. NextToFree(doing.neuron, "neuron", doing.layer)'
    BY <1>7, <1>10, <1>11 DEF NextToFree, Is, Gone
  <2>4. NextToFree(doing.weight, "weight", doing.neuron)'
    BY <1>7, <1>11, <1>102 DEF NextToFree, Is, Gone
  <2>5. n = NULL => w = NULL
    BY <1>102
  <2> QED BY <2>1, <2>3, <2>4, <2>5, <1>2, <1>4, <1>11 DEF FreeInv
<1> QED BY <1>4, <1>8, <1>11, <1>13, <1>14, <1>15
       DEF ListsInv, BuildInv, CopyInv


\* A layer goes when its neurons are gone, and the next one is nobody's.
LEMMA FreeLayerKeeps == ListsInv /\ FreeLayer => ListsInv'
<1> SUFFICES ASSUME ListsInv, FreeLayer PROVE ListsInv'
  OBVIOUS
<1>1. doing.proc = "free"
  BY DEF FreeLayer
<1>2. FreeFacts
  BY <1>1, InFree
<1> USE DEF FreeFacts
<1>3. /\ doing.network \in Address /\ doing.layer \in Pointer /\ doing.neuron \in Pointer
      /\ doing.weight \in Pointer /\ doing.descended \in BOOLEAN /\ NULL \in Pointer
  BY <1>2, HeapAssumption DEF Frees, Pointer, NULL
<1> DEFINE a == doing.layer
<1>4. /\ shape' = shape /\ global' = global /\ control' = control
      /\ client' = client /\ round' = round /\ doing.descended /\ doing.neuron = NULL
  BY DEF FreeLayer
<1>5. a # NULL
  BY <1>2, <1>4
<1>6. /\ Is(heap, a, "layer") /\ NULL \notin Live(heap)
      /\ \A b \in Live(heap) : heap[b].next # a /\ (heap[b].first = a => b = doing.network)
  BY <1>2, <1>5, LiveKinds DEF NextToFree
<1>7. Gone(heap, heap', a)
  <2>1. heap' = [heap EXCEPT ![a] = Freed]
    BY DEF FreeLayer, FreeNode
  <2>2. a \in Live(heap)
    BY <1>6 DEF Is
  <2> HIDE DEF a
  <2> QED BY <2>1, <2>2, <1>2, FreedIsGone
<1>8. NothingFreedIsUsed'
  BY <1>6 DEF FreeLayer, FreeNode, Misuses, Is, Live, ListsInv, NothingFreedIsUsed
<1> DEFINE n == heap[a].next
<1>9. After(a) = n /\ n \in Pointer
  BY <1>6, LiveKinds DEF After, Is, Live, HeapNode
<1>10. n # NULL =>
         /\ Is(heap, n, "layer") /\ n # a
         /\ \A b \in Live(heap') : heap[b].next # n /\ heap[b].first # n
  BY <1>2, <1>6, <1>7, NextIsOwned DEF Is, Gone
<1>11. /\ doing' \in Frees /\ doing'.proc = "free" /\ doing'.network = doing.network
       /\ doing'.layer = n /\ doing'.neuron = doing.neuron /\ doing'.weight = doing.weight
       /\ doing'.descended = FALSE
  <2>1. doing' = [doing EXCEPT !.layer = n, !.descended = FALSE]
    BY <1>9 DEF FreeLayer
  <2> HIDE DEF a, n
  <2> QED BY <2>1, <1>2, <1>9, Zenon DEF Frees
<1> HIDE DEF n
<1>12. Cut' = {doing.network, doing.neuron} /\ Partial' = {} /\ Unlinked' = {}
  BY <1>11 DEF Cut, Partial, Unlinked
<1>13. HeapInv'
  <2>1. OnlyFrom(heap, a, Cut)
    BY <1>2, <1>4, <1>6 DEF OnlyFrom
  <2>2. Cut \subseteq Cut' \cup {a} \cup {NULL}
    BY <1>2, <1>4, <1>12
  <2> HIDE DEF a
  <2>3. Sound(heap', {}, {}, Cut')
    BY <2>1, <2>2, <1>2, <1>6, <1>7, FreeKeepsSound
  <2> QED BY <2>3, <1>12 DEF HeapInv
<1>14. TypeInv' /\ RootInv'
  BY <1>1, <1>2, <1>4, <1>6, <1>7, <1>11 DEF ListsInv, TypeInv, Doing, RootInv, Is, Gone
<1>15. FreeInv'
  <2>1. NextToFree(doing.layer, "layer", doing.network)'
    BY <1>7, <1>10, <1>11 DEF NextToFree, Is, Gone
  <2>2. doing.neuron = NULL /\ doing.weight = NULL
    BY <1>2, <1>4
  <2> QED BY <2>1, <2>2, <1>2, <1>4, <1>11 DEF FreeInv, NextToFree
<1> QED BY <1>4, <1>8, <1>11, <1>13, <1>14, <1>15
       DEF ListsInv, BuildInv, CopyInv


\* The network goes last; the sum is another one.
LEMMA FreeNetworkKeeps == ListsInv /\ FreeNetwork => ListsInv'
<1> SUFFICES ASSUME ListsInv, FreeNetwork PROVE ListsInv'
  OBVIOUS
<1>1. doing.proc = "free"
  BY DEF FreeNetwork
<1>2. FreeFacts
  BY <1>1, InFree
<1> USE DEF FreeFacts
<1>3. /\ doing.network \in Address /\ doing.layer \in Pointer /\ doing.neuron \in Pointer
      /\ doing.weight \in Pointer /\ doing.descended \in BOOLEAN /\ NULL \in Pointer
  BY <1>2, HeapAssumption DEF Frees, Pointer, NULL
<1> DEFINE a == doing.network
<1>4. /\ shape' = shape /\ global' = global /\ control' = control
      /\ client' = client /\ round' = round /\ doing.layer = NULL
  BY DEF FreeNetwork
<1>5. ~doing.descended /\ doing.neuron = NULL /\ doing.weight = NULL
  BY <1>2, <1>4
<1>6. /\ Is(heap, a, "network") /\ NULL \notin Live(heap)
  BY <1>2, LiveKinds
<1>7. Gone(heap, heap', a)
  <2>1. heap' = [heap EXCEPT ![a] = Freed]
    BY DEF FreeNetwork, FreeNode
  <2>2. a \in Live(heap)
    BY <1>6 DEF Is
  <2> HIDE DEF a
  <2> QED BY <2>1, <2>2, <1>2, FreedIsGone
<1>8. NothingFreedIsUsed'
  BY <1>6 DEF FreeNetwork, FreeNode, Misuses, Is, Live, ListsInv, NothingFreedIsUsed
<1>9. OnlyFrom(heap, a, Cut)
  <2>1. NextRight(heap) /\ FirstRight(heap, Cut)
    BY <1>2 DEF Sound
  <2>2. \A b \in Live(heap) : heap[b].next # a
    BY <2>1, <1>6 DEF NextRight, Is
  <2>3. ASSUME NEW b \in Live(heap), heap[b].first = a PROVE b \in Cut
    BY <2>1, <2>3, <1>6, LiveKinds, Kinds DEF FirstRight, Is
  <2> QED BY <2>2, <2>3 DEF OnlyFrom
<1>10. /\ doing' \in Copies /\ doing'.proc = "copy" /\ doing'.network = NULL
       /\ doing'.layer = NULL /\ doing'.neuron = NULL /\ doing'.currentlayer = NULL
       /\ doing'.currentneuron = NULL /\ doing'.currentweight = NULL
  BY <1>3 DEF FreeNetwork, Copies
<1>11. Cut' = {} /\ Partial' = {} /\ Unlinked' = {}
  BY <1>10 DEF Cut, Partial, Unlinked
<1>12. HeapInv'
  <2>1. Cut \subseteq {} \cup {a} \cup {NULL}
    BY <1>2, <1>5
  <2> HIDE DEF a
  <2>2. Sound(heap', {}, {}, {})
    BY <2>1, <1>2, <1>6, <1>7, <1>9, FreeKeepsSound
  <2> QED BY <2>2, <1>11 DEF HeapInv
<1>13. TypeInv' /\ RootInv'
  BY <1>1, <1>2, <1>4, <1>6, <1>7, <1>10 DEF ListsInv, TypeInv, Doing, RootInv, Is, Gone
<1>14. CopyInv'
  BY <1>2, <1>4, <1>10 DEF CopyInv, CopyOf
<1> QED BY <1>8, <1>10, <1>12, <1>13, <1>14 DEF ListsInv, BuildInv, FreeInv

-----------------------------------------------------------------------------
(* Copying the sum.                                                         *)

\* What a step of CopyNeuralNetwork can rely on.
CopyFacts ==
  /\ doing \in Copies /\ heap \in Heaps /\ Sound(heap, Partial, Unlinked, {})
  /\ Partial = {doing.network, doing.layer, doing.neuron} \ {NULL}
  /\ Unlinked = {doing.layer, doing.neuron} \ {NULL} /\ Cut = {}
  /\ NULL \notin Live(heap)
  /\ control # NULL /\ global # NULL /\ Is(heap, control, "network") /\ control # global
  /\ doing.network # NULL => Is(heap, doing.network, "network") /\ doing.network # control
  /\ doing.currentlayer # NULL => doing.network # NULL
  /\ doing.layer # NULL =>
       doing.network # NULL /\ Is(heap, doing.layer, "layer")
       /\ doing.currentlayer \notin {NULL, doing.layer}
  /\ doing.neuron # NULL =>
       doing.layer # NULL /\ Is(heap, doing.neuron, "neuron")
       /\ doing.currentneuron \notin {NULL, doing.neuron}
  /\ CopyOf(doing.network, control, doing.currentlayer, "layer")
  /\ CopyOf(doing.layer, doing.currentlayer, doing.currentneuron, "neuron")
  /\ CopyOf(doing.neuron, doing.currentneuron, doing.currentweight, "weight")

\* ListsInv says so.
LEMMA InCopy ==
  ASSUME ListsInv, doing.proc = "copy"
  PROVE  CopyFacts
<1>1. Partial = {doing.network, doing.layer, doing.neuron} \ {NULL}
  BY DEF Partial
<1>2. Unlinked = {doing.layer, doing.neuron} \ {NULL} /\ Cut = {}
  BY DEF Unlinked, Cut
<1>3. doing \in Copies /\ heap \in Heaps
  BY WhatIsDone DEF ListsInv, TypeInv
<1>4. Sound(heap, Partial, Unlinked, {})
  BY <1>2 DEF ListsInv, HeapInv
<1> QED BY <1>1, <1>2, <1>3, <1>4, LiveKinds DEF ListsInv, CopyInv, RootInv, CopyFacts

\* What a new node of the copy does to the heap.
LEMMA CopiedNodeRight ==
  ASSUME ListsInv, doing.proc = "copy", Room, NEW kind \in NodeKind, NEW source \in Live(heap)
  PROVE  LET g == [heap EXCEPT ![Malloc] = NewNode(kind, heap[source].value)]
         IN /\ Fresh(heap, g, Malloc, kind) /\ Malloc \in Address
            /\ Sound(g, Partial, Unlinked \cup {Malloc}, {})
            /\ Sound(g, Partial \cup {Malloc}, Unlinked \cup {Malloc}, {})
<1> DEFINE a == Malloc
           g == [heap EXCEPT ![a] = NewNode(kind, heap[source].value)]
<1>1. heap \in Heaps /\ Sound(heap, Partial, Unlinked, {}) /\ NULL \notin Live(heap)
  BY InCopy DEF CopyFacts
<1>2. a \in Address /\ heap[a] = Freed /\ a # NULL
  BY <1>1, FreshNode DEF Address, NULL
<1>3. heap[source].value \in Nat
  BY LiveKinds DEF HeapNode
<1> HIDE DEF a
<1>4. Fresh(heap, g, a, kind)
  BY <1>1, <1>2, <1>3, NewNodeIsFresh
<1> HIDE DEF g
<1>5. /\ Sound(g, Partial, Unlinked \cup {a}, {})
      /\ Sound(g, Partial \cup {a}, Unlinked \cup {a}, {})
  BY <1>1, <1>2, <1>4, AddKeepsSound DEF Fresh
<1> QED BY <1>2, <1>4, <1>5 DEF a, g

\* The copy begins at the first layer of the sum.
LEMMA CopyNetworkKeeps == ListsInv /\ CopyNetwork => ListsInv'
<1> SUFFICES ASSUME ListsInv, CopyNetwork PROVE ListsInv'
  OBVIOUS
<1> DEFINE a == Malloc
           first == heap[control].first
<1>1. doing.proc = "copy"
  BY DEF CopyNetwork
<1>2. CopyFacts
  BY <1>1, InCopy
<1> USE DEF CopyFacts
<1>3. /\ shape' = shape /\ global' = global /\ control' = control
      /\ client' = client /\ round' = round /\ misuse' = misuse
      /\ doing.network = NULL /\ doing' = [doing EXCEPT !.network = a, !.currentlayer = first]
  BY DEF CopyNetwork
<1>4. doing.layer = NULL /\ doing.neuron = NULL
  BY <1>2, <1>3
<1>5. /\ Fresh(heap, heap', a, "network") /\ a \in Address /\ a # NULL
      /\ Sound(heap', Partial \cup {a}, Unlinked \cup {a}, {})
  <2>1. Room /\ "network" \in NodeKind /\ control \in Live(heap)
        /\ heap' = [heap EXCEPT ![Malloc] = NewNode("network", heap[control].value)]
    BY <1>2 DEF CopyNetwork, NodeKind, Is
  <2> HIDE DEF a
  <2>2. /\ Fresh(heap, heap', Malloc, "network") /\ Malloc \in Address
        /\ Sound(heap', Partial \cup {Malloc}, Unlinked \cup {Malloc}, {})
    BY <1>1, <2>1, CopiedNodeRight
  <2> QED BY <2>2 DEF a, Address, NULL
<1> HIDE DEF a
<1>6. first # NULL => Is(heap, first, "layer")
  <2>1. FirstRight(heap, {})
    BY <1>2 DEF Sound
  <2> QED BY <2>1, <1>2, Kinds DEF FirstRight, Is
<1>7. first \in Pointer /\ a \in Pointer
  BY <1>2, <1>5, LiveKinds, HeapAssumption DEF HeapNode, Is, Pointer, Address
<1>8. /\ doing' \in Copies /\ doing'.proc = "copy" /\ doing'.network = a
      /\ doing'.layer = NULL /\ doing'.neuron = NULL /\ doing'.currentlayer = first
      /\ doing'.currentneuron = doing.currentneuron /\ doing'.currentweight = doing.currentweight
  <2> HIDE DEF first
  <2> QED BY <1>2, <1>3, <1>4, <1>7, Zenon DEF Copies
<1>9. Partial' = {a} /\ Unlinked' = {} /\ Cut' = {}
  BY <1>5, <1>8 DEF Partial, Unlinked, Cut
<1>10. HeapInv'
  <2>1. Partial \cup {a} = {a} /\ {} \subseteq Unlinked \cup {a}
    BY <1>2, <1>3, <1>4
  <2>2. Sound(heap', {a}, {}, {})
    BY <2>1, <1>5, FewerUnlinked
  <2> QED BY <2>2, <1>9 DEF HeapInv
<1>11. TypeInv' /\ RootInv'
  BY <1>1, <1>2, <1>3, <1>5, <1>8 DEF ListsInv, TypeInv, Doing, RootInv, Is, Fresh
<1>12. CopyInv'
  <2>1. /\ Is(heap', a, "network") /\ a # control /\ heap'[a].first = NULL
        /\ heap'[control].first = first
    BY <1>2, <1>5 DEF Fresh, Is
  <2>2. CopyOf(doing.network, control, doing.currentlayer, "layer")'
    BY <2>1, <1>3, <1>5, <1>6, <1>8 DEF CopyOf, Fresh, Is
  <2>3. CopyOf(doing.layer, doing.currentlayer, doing.currentneuron, "neuron")'
    BY <1>2, <1>5, <1>8 DEF CopyOf, Fresh, Is
  <2>4. CopyOf(doing.neuron, doing.currentneuron, doing.currentweight, "weight")'
    BY <1>2, <1>5, <1>8 DEF CopyOf, Fresh, Is
  <2> QED BY <2>1, <2>2, <2>3, <2>4, <1>2, <1>3, <1>5, <1>8 DEF CopyInv
<1> QED BY <1>3, <1>8, <1>10, <1>11, <1>12 DEF ListsInv, BuildInv, FreeInv, NothingFreedIsUsed

\* The copy of a layer begins at its first neuron, and is not linked yet.
LEMMA CopyLayerKeeps == ListsInv /\ CopyLayer => ListsInv'
<1> SUFFICES ASSUME ListsInv, CopyLayer PROVE ListsInv'
  OBVIOUS
<1> DEFINE a == Malloc
           first == heap[doing.currentlayer].first
<1>1. doing.proc = "copy"
  BY DEF CopyLayer
<1>2. CopyFacts
  BY <1>1, InCopy
<1> USE DEF CopyFacts
<1>3. /\ shape' = shape /\ global' = global /\ control' = control
      /\ client' = client /\ round' = round /\ misuse' = misuse
      /\ doing.layer = NULL /\ doing.currentlayer # NULL
      /\ doing' = [doing EXCEPT !.layer = a, !.currentneuron = first]
  BY DEF CopyLayer
<1>4. /\ doing.neuron = NULL /\ doing.network # NULL /\ Is(heap, doing.currentlayer, "layer")
  BY <1>2, <1>3 DEF CopyOf
<1>5. /\ Fresh(heap, heap', a, "layer") /\ a \in Address /\ a # NULL
      /\ Sound(heap', Partial \cup {a}, Unlinked \cup {a}, {})
  <2>1. Room /\ "layer" \in NodeKind /\ doing.currentlayer \in Live(heap)
        /\ heap' = [heap EXCEPT ![Malloc] = NewNode("layer", heap[doing.currentlayer].value)]
    BY <1>4 DEF CopyLayer, NodeKind, Is
  <2> HIDE DEF a
  <2>2. /\ Fresh(heap, heap', Malloc, "layer") /\ Malloc \in Address
        /\ Sound(heap', Partial \cup {Malloc}, Unlinked \cup {Malloc}, {})
    BY <1>1, <2>1, CopiedNodeRight
  <2> QED BY <2>2 DEF a, Address, NULL
<1> HIDE DEF a
<1>6. first # NULL => Is(heap, first, "neuron")
  <2>1. FirstRight(heap, {})
    BY <1>2 DEF Sound
  <2> QED BY <2>1, <1>4, Kinds DEF FirstRight, Is
<1>7. first \in Pointer /\ a \in Pointer
  BY <1>4, <1>5, LiveKinds, HeapAssumption DEF HeapNode, Is, Pointer, Address
<1>8. /\ doing' \in Copies /\ doing'.proc = "copy" /\ doing'.network = doing.network
      /\ doing'.layer = a /\ doing'.neuron = NULL /\ doing'.currentlayer = doing.currentlayer
      /\ doing'.currentneuron = first /\ doing'.currentweight = doing.currentweight
  <2> HIDE DEF first
  <2> QED BY <1>2, <1>3, <1>4, <1>7, Zenon DEF Copies
<1>9. Partial' = {doing.network, a} /\ Unlinked' = {a} /\ Cut' = {}
  BY <1>4, <1>5, <1>8 DEF Partial, Unlinked, Cut
<1>10. HeapInv'
  <2>1. Partial \cup {a} = {doing.network, a} /\ Unlinked \cup {a} = {a}
    BY <1>2, <1>3, <1>4
  <2> QED BY <2>1, <1>5, <1>9 DEF HeapInv
<1>11. TypeInv' /\ RootInv'
  BY <1>1, <1>2, <1>3, <1>5, <1>8 DEF ListsInv, TypeInv, Doing, RootInv, Is, Fresh
<1>12. CopyInv'
  <2>1. /\ Is(heap', a, "layer") /\ a # doing.currentlayer /\ heap'[a].first = NULL
        /\ heap'[doing.currentlayer].first = first
        /\ Is(heap', doing.network, "network") /\ doing.network # control
    BY <1>2, <1>4, <1>5 DEF Fresh, Is
  <2>2. CopyOf(doing.network, control, doing.currentlayer, "layer")'
    BY <1>2, <1>3, <1>4, <1>5, <1>8 DEF CopyOf, Fresh, Is
  <2>3. CopyOf(doing.layer, doing.currentlayer, doing.currentneuron, "neuron")'
    BY <2>1, <1>5, <1>6, <1>8 DEF CopyOf, Fresh, Is
  <2>4. CopyOf(doing.neuron, doing.currentneuron, doing.currentweight, "weight")'
    BY <1>2, <1>5, <1>8 DEF CopyOf, Fresh, Is
  <2> QED BY <2>1, <2>2, <2>3, <2>4, <1>2, <1>3, <1>4, <1>5, <1>8 DEF CopyInv
<1> QED BY <1>3, <1>8, <1>10, <1>11, <1>12 DEF ListsInv, BuildInv, FreeInv, NothingFreedIsUsed

\* The copy of a neuron begins at its first weight, and is not linked yet.
LEMMA CopyNeuronKeeps == ListsInv /\ CopyNeuron => ListsInv'
<1> SUFFICES ASSUME ListsInv, CopyNeuron PROVE ListsInv'
  OBVIOUS
<1> DEFINE a == Malloc
           first == heap[doing.currentneuron].first
<1>1. doing.proc = "copy"
  BY DEF CopyNeuron
<1>2. CopyFacts
  BY <1>1, InCopy
<1> USE DEF CopyFacts
<1>3. /\ shape' = shape /\ global' = global /\ control' = control
      /\ client' = client /\ round' = round /\ misuse' = misuse
      /\ doing.layer # NULL /\ doing.neuron = NULL /\ doing.currentneuron # NULL
      /\ doing' = [doing EXCEPT !.neuron = a, !.currentweight = first]
  BY DEF CopyNeuron
<1>4. /\ doing.network # NULL /\ Is(heap, doing.currentneuron, "neuron")
      /\ Is(heap, doing.currentlayer, "layer")
  BY <1>2, <1>3 DEF CopyOf
<1>5. /\ Fresh(heap, heap', a, "neuron") /\ a \in Address /\ a # NULL
      /\ Sound(heap', Partial \cup {a}, Unlinked \cup {a}, {})
  <2>1. Room /\ "neuron" \in NodeKind /\ doing.currentneuron \in Live(heap)
        /\ heap' = [heap EXCEPT ![Malloc] = NewNode("neuron", heap[doing.currentneuron].value)]
    BY <1>4 DEF CopyNeuron, NodeKind, Is
  <2> HIDE DEF a
  <2>2. /\ Fresh(heap, heap', Malloc, "neuron") /\ Malloc \in Address
        /\ Sound(heap', Partial \cup {Malloc}, Unlinked \cup {Malloc}, {})
    BY <1>1, <2>1, CopiedNodeRight
  <2> QED BY <2>2 DEF a, Address, NULL
<1> HIDE DEF a
<1>6. first # NULL => Is(heap, first, "weight")
  <2>1. FirstRight(heap, {})
    BY <1>2 DEF Sound
  <2> QED BY <2>1, <1>4, Kinds DEF FirstRight, Is
<1>7. first \in Pointer /\ a \in Pointer
  BY <1>4, <1>5, LiveKinds, HeapAssumption DEF HeapNode, Is, Pointer, Address
<1>8. /\ doing' \in Copies /\ doing'.proc = "copy" /\ doing'.network = doing.network
      /\ doing'.layer = doing.layer /\ doing'.neuron = a /\ doing'.currentlayer = doing.currentlayer
      /\ doing'.currentneuron = doing.currentneuron /\ doing'.currentweight = first
  <2> HIDE DEF first
  <2> QED BY <1>2, <1>3, <1>4, <1>7, Zenon DEF Copies
<1>9. Partial' = {doing.network, doing.layer, a} /\ Unlinked' = {doing.layer, a} /\ Cut' = {}
  BY <1>3, <1>4, <1>5, <1>8 DEF Partial, Unlinked, Cut
<1>10. HeapInv'
  <2>1. Partial \cup {a} = {doing.network, doing.layer, a} /\ Unlinked \cup {a} = {doing.layer, a}
    BY <1>2, <1>3, <1>4
  <2> QED BY <2>1, <1>5, <1>9 DEF HeapInv
<1>11. TypeInv' /\ RootInv'
  BY <1>1, <1>2, <1>3, <1>5, <1>8 DEF ListsInv, TypeInv, Doing, RootInv, Is, Fresh
<1>12. CopyInv'
  <2>1. /\ Is(heap', a, "neuron") /\ a # doing.currentneuron /\ heap'[a].first = NULL
        /\ heap'[doing.currentneuron].first = first
        /\ Is(heap', doing.network, "network") /\ doing.network # control
        /\ Is(heap', doing.layer, "layer") /\ doing.currentlayer \notin {NULL, doing.layer}
    BY <1>2, <1>3, <1>4, <1>5 DEF Fresh, Is
  <2>2. CopyOf(doing.network, control, doing.currentlayer, "layer")'
    BY <1>2, <1>3, <1>4, <1>5, <1>8 DEF CopyOf, Fresh, Is
  <2>3. CopyOf(doing.layer, doing.currentlayer, doing.currentneuron, "neuron")'
    BY <1>2, <1>3, <1>4, <1>5, <1>8 DEF CopyOf, Fresh, Is
  <2>4. CopyOf(doing.neuron, doing.currentneuron, doing.currentweight, "weight")'
    BY <2>1, <1>5, <1>6, <1>8 DEF CopyOf, Fresh, Is
  <2> QED BY <2>1, <2>2, <2>3, <2>4, <1>2, <1>3, <1>4, <1>5, <1>8 DEF CopyInv
<1> QED BY <1>3, <1>8, <1>10, <1>11, <1>12 DEF ListsInv, BuildInv, FreeInv, NothingFreedIsUsed

\* What LinkCopy does to the heap.
LEMMA LinkCopyRight ==
  ASSUME NEW h \in Heaps, NEW partial, NEW unlinked, NEW parent \in partial, NEW a \in unlinked,
         a \in Live(h), a # parent, h[a].kind = BelowKind[h[parent].kind],
         h[a].kind # "network", Sound(h, partial, unlinked, {}),
         NEW g, g = LinkCopy(h, parent, a)
  PROVE  /\ g \in Heaps /\ Sound(g, partial, unlinked \ {a}, {})
         /\ Attached(h, g, parent, a, IF h[parent].last = NULL THEN a ELSE h[parent].last)
<1> DEFINE before == IF h[parent].last = NULL THEN a ELSE h[parent].last
<1>1. PartialRight(h, partial) /\ Apart(h, unlinked, partial) /\ NULL \notin Live(h)
  BY LiveNodes DEF Sound
<1>2. /\ parent \in Live(h)
      /\ h[parent].first = NULL <=> h[parent].last = NULL
      /\ h[parent].last # NULL => h[parent].last \in Live(h) \ {a}
  BY <1>1 DEF PartialRight, Apart, Is
<1>3. g \in Heaps /\ Attached(h, g, parent, a, before)
  <2>1. parent \in Live(h) /\ a \in Live(h) /\ a # parent
    BY <1>2
  <2> QED BY <2>1, <1>2, LinkCopyAttaches
<1>4. IF h[parent].last = NULL THEN before \in {NULL, a} ELSE before = h[parent].last
  OBVIOUS
<1> HIDE DEF before
<1>5. Sound(g, partial, unlinked \ {a}, {})
  BY <1>1, <1>3, <1>4, AttachKeepsSound
<1> QED BY <1>3, <1>5 DEF before

\* The first node of a complete list has one behind it.
LEMMA NextOfFirst ==
  ASSUME ListsInv, doing.proc = "copy", NEW source \in Live(heap), source \notin Partial,
         heap[source].first # NULL
  PROVE  heap[heap[source].first].next # NULL
BY InCopy DEF CopyFacts, Sound, NoSingles

\* Where a list that grows begins.
LEMMA PartialFirst ==
  ASSUME ListsInv, NEW p \in Partial
  PROVE  /\ heap[p].first = NULL <=> heap[p].last = NULL
         /\ Unlinked = {} \/ heap[p].first \notin Unlinked
         /\ heap[p].first \in Live(heap) \cup {NULL} \/ Cut # {}
BY DEF ListsInv, HeapInv, Sound, PartialRight, Apart, FirstRight, Is

\* The copy of a weight is linked at once; a list of one has another to come.
LEMMA CopyWeightKeeps == ListsInv /\ CopyWeight => ListsInv'
<1> SUFFICES ASSUME ListsInv, CopyWeight PROVE ListsInv'
  OBVIOUS
<1> DEFINE a == Malloc
           n == doing.neuron
           h1 == [heap EXCEPT ![a] = NewNode("weight", heap[doing.currentweight].value)]
           onward == heap[doing.currentweight].next
<1>1. doing.proc = "copy"
  BY DEF CopyWeight
<1>2. CopyFacts
  BY <1>1, InCopy
<1> USE DEF CopyFacts
<1>3. /\ shape' = shape /\ global' = global /\ control' = control
      /\ client' = client /\ round' = round /\ misuse' = misuse
      /\ n # NULL /\ doing.currentweight # NULL
      /\ doing' = [doing EXCEPT !.currentweight = onward]
  BY DEF CopyWeight
<1>4. /\ doing.layer # NULL /\ doing.network # NULL /\ Is(heap, doing.currentweight, "weight")
      /\ Is(heap, doing.currentneuron, "neuron") /\ Is(heap, doing.currentlayer, "layer")
      /\ Is(heap, n, "neuron")
  BY <1>2, <1>3 DEF CopyOf
<1>5. /\ Fresh(heap, h1, a, "weight") /\ a \in Address /\ a # NULL
      /\ Sound(h1, Partial, Unlinked \cup {a}, {}) /\ heap' = LinkCopy(h1, n, a)
  <2>1. Room /\ "weight" \in NodeKind /\ doing.currentweight \in Live(heap)
    BY <1>4 DEF CopyWeight, NodeKind, Is
  <2>2. heap' = LinkCopy(h1, n, a)
    BY DEF CopyWeight
  <2>3. /\ Fresh(heap, h1, a, "weight") /\ a \in Address
        /\ Sound(h1, Partial, Unlinked \cup {a}, {})
    BY <1>1, <2>1, CopiedNodeRight
  <2>4. a # NULL
    BY <2>3 DEF Address, NULL
  <2> QED BY <2>2, <2>3, <2>4
<1> HIDE DEF a, h1
<1>6. /\ h1[a].kind = "weight" /\ h1[n] = heap[n] /\ a # n /\ n \in Live(h1) /\ a \in Live(h1)
  BY <1>4, <1>5 DEF Fresh, Is
<1>7. /\ heap' \in Heaps /\ Sound(heap', Partial, Unlinked, {})
      /\ Attached(h1, heap', n, a, IF h1[n].last = NULL THEN a ELSE h1[n].last)
  <2>1. h1 \in Heaps /\ n \in Partial /\ a \in Unlinked \cup {a}
    BY <1>2, <1>3, <1>5 DEF Fresh
  <2>2. h1[a].kind = BelowKind[h1[n].kind] /\ h1[a].kind # "network"
    BY <1>4, <1>6, Kinds DEF Is
  <2>3. (Unlinked \cup {a}) \ {a} = Unlinked
    BY <1>2, <1>4, <1>5 DEF Fresh, Is
  <2> HIDE DEF n
  <2>4. /\ heap' \in Heaps /\ Sound(heap', Partial, (Unlinked \cup {a}) \ {a}, {})
        /\ Attached(h1, heap', n, a, IF h1[n].last = NULL THEN a ELSE h1[n].last)
    BY <2>1, <2>2, <1>5, <1>6, LinkCopyRight
  <2> QED BY <2>3, <2>4
<1>8. /\ Live(heap') = Live(heap) \cup {a} /\ a \notin Live(heap)
      /\ \A b \in Live(heap) : /\ heap'[b].kind = heap[b].kind
                               /\ b # n => heap'[b].first = heap[b].first
                               /\ b # n => heap'[b].last = heap[b].last
      /\ heap'[n].first = (IF heap[n].last = NULL THEN a ELSE heap[n].first) /\ heap'[n].last = a
  BY <1>4, <1>5, <1>6, <1>7 DEF Fresh, Attached, Is
<1>9. onward # NULL => Is(heap, onward, "weight")
  <2>1. NextRight(heap)
    BY <1>2 DEF Sound
  <2> QED BY <2>1, <1>4 DEF NextRight, Is
<1>10. onward \in Pointer
  BY <1>4, LiveKinds DEF HeapNode, Is
<1>11. /\ doing' \in Copies /\ doing'.proc = "copy" /\ doing'.network = doing.network
       /\ doing'.layer = doing.layer /\ doing'.neuron = n
       /\ doing'.currentlayer = doing.currentlayer
       /\ doing'.currentneuron = doing.currentneuron /\ doing'.currentweight = onward
  <2> HIDE DEF onward
  <2> QED BY <1>2, <1>3, <1>10, Zenon DEF Copies
<1>12. Partial' = Partial /\ Unlinked' = Unlinked /\ Cut' = {}
  BY <1>1, <1>11 DEF Partial, Unlinked, Cut
<1>13. HeapInv'
  BY <1>7, <1>12 DEF HeapInv
<1>14. TypeInv' /\ RootInv'
  BY <1>1, <1>2, <1>3, <1>7, <1>8, <1>11 DEF ListsInv, TypeInv, Doing, RootInv, Is
<1>15. CopyInv'
  <2>1. /\ Is(heap', n, "neuron") /\ Is(heap', doing.layer, "layer")
        /\ Is(heap', doing.network, "network") /\ doing.network # n /\ doing.layer # n
        /\ doing.currentlayer # n /\ doing.currentneuron # n /\ control # n
    BY <1>2, <1>3, <1>4, <1>8 DEF Is
  <2>2. CopyOf(doing.network, control, doing.currentlayer, "layer")'
    BY <2>1, <1>2, <1>3, <1>4, <1>8, <1>11 DEF CopyOf, Is
  <2>3. CopyOf(doing.layer, doing.currentlayer, doing.currentneuron, "neuron")'
    BY <2>1, <1>2, <1>3, <1>4, <1>8, <1>11 DEF CopyOf, Is
  <2>4. onward # NULL => Is(heap', onward, "weight")
    BY <1>8, <1>9 DEF Is
  <2>5. heap'[n].first # NULL
    BY <1>2, <1>4, <1>5, <1>8, PartialFirst DEF Is
  <2>6. heap'[n].first = heap'[n].last => onward # NULL
    <3> HAVE heap'[n].first = heap'[n].last
    <3>1. heap[n].first = NULL
      <4>1. heap[n].last # NULL => heap[n].first = a
        BY <1>8
      <4>2. n \in Partial
        BY <1>2, <1>3
      <4> HIDE DEF n
      <4> QED BY <4>1, <4>2, <1>2, <1>5, <1>8, PartialFirst
    <3>2. doing.currentweight = heap[doing.currentneuron].first
      BY <3>1, <1>2, <1>3 DEF CopyOf
    <3>3. doing.currentneuron \notin Partial
      BY <1>2, <1>3, <1>4 DEF Is
    <3> QED BY <3>2, <3>3, <1>1, <1>3, <1>4, NextOfFirst DEF Is
  <2>7. CopyOf(doing.neuron, doing.currentneuron, doing.currentweight, "weight")'
    BY <2>4, <2>5, <2>6, <1>11 DEF CopyOf
  <2> QED BY <2>1, <2>2, <2>3, <2>7, <1>2, <1>3, <1>4, <1>11 DEF CopyInv
<1> QED BY <1>3, <1>11, <1>13, <1>14, <1>15 DEF ListsInv, BuildInv, FreeInv, NothingFreedIsUsed

\* A neuron is linked with all its weights, of which there are not one.
LEMMA NeuronCopiedKeeps == ListsInv /\ NeuronCopied => ListsInv'
<1> SUFFICES ASSUME ListsInv, NeuronCopied PROVE ListsInv'
  OBVIOUS
<1> DEFINE a == doing.neuron
           n == doing.layer
           onward == heap[doing.currentneuron].next
<1>1. doing.proc = "copy"
  BY DEF NeuronCopied
<1>2. CopyFacts
  BY <1>1, InCopy
<1> USE DEF CopyFacts
<1>3. /\ shape' = shape /\ global' = global /\ control' = control
      /\ client' = client /\ round' = round /\ misuse' = misuse
      /\ a # NULL /\ doing.currentweight = NULL /\ heap' = LinkCopy(heap, n, a)
      /\ doing' = [doing EXCEPT !.neuron = NULL, !.currentneuron = onward]
  BY DEF NeuronCopied
<1>4. /\ n # NULL /\ doing.network # NULL /\ Is(heap, a, "neuron") /\ Is(heap, n, "layer")
      /\ Is(heap, doing.currentneuron, "neuron") /\ Is(heap, doing.currentlayer, "layer")
      /\ heap[a].first = NULL \/ heap[a].first # heap[a].last
  BY <1>2, <1>3 DEF CopyOf
<1>5. /\ heap' \in Heaps /\ Sound(heap', Partial, Unlinked \ {a}, {})
      /\ Attached(heap, heap', n, a, IF heap[n].last = NULL THEN a ELSE heap[n].last)
  <2>1. n \in Partial /\ a \in Unlinked /\ a \in Live(heap) /\ a # n
    BY <1>2, <1>3, <1>4 DEF Is
  <2>2. heap[a].kind = BelowKind[heap[n].kind] /\ heap[a].kind # "network"
    BY <1>4, Kinds DEF Is
  <2>3. heap \in Heaps /\ Sound(heap, Partial, Unlinked, {}) /\ heap' = LinkCopy(heap, n, a)
    BY <1>2, <1>3
  <2> HIDE DEF n, a
  <2> QED BY <2>1, <2>2, <2>3, LinkCopyRight
<1>6. /\ Live(heap') = Live(heap)
      /\ \A b \in Live(heap) : /\ heap'[b].kind = heap[b].kind
                               /\ b # n => heap'[b].first = heap[b].first
                               /\ b # n => heap'[b].last = heap[b].last
      /\ heap'[n].first = (IF heap[n].last = NULL THEN a ELSE heap[n].first) /\ heap'[n].last = a
  BY <1>4, <1>5 DEF Attached, Is
<1>7. onward # NULL => Is(heap, onward, "neuron")
  <2>1. NextRight(heap)
    BY <1>2 DEF Sound
  <2> QED BY <2>1, <1>4 DEF NextRight, Is
<1>8. onward \in Pointer /\ NULL \in Pointer
  BY <1>4, LiveKinds, HeapAssumption DEF HeapNode, Is, Pointer, NULL
<1>9. /\ doing' \in Copies /\ doing'.proc = "copy" /\ doing'.network = doing.network
      /\ doing'.layer = n /\ doing'.neuron = NULL
      /\ doing'.currentlayer = doing.currentlayer
      /\ doing'.currentneuron = onward /\ doing'.currentweight = doing.currentweight
  <2> HIDE DEF onward
  <2> QED BY <1>2, <1>3, <1>8, Zenon DEF Copies
<1>10. Partial' = {doing.network, n} /\ Unlinked' = {n} /\ Cut' = {}
  BY <1>4, <1>9 DEF Partial, Unlinked, Cut
<1>11. HeapInv'
  <2>1. Unlinked \ {a} = {n} /\ {doing.network, n} \subseteq Partial
        /\ Partial \ {doing.network, n} = {a}
    BY <1>2, <1>3, <1>4 DEF Is
  <2>2. \A q \in Partial \ {doing.network, n} : heap'[q].first = NULL \/ heap'[q].first # heap'[q].last
    BY <2>1, <1>4, <1>6 DEF Is
  <2>3. NULL \notin Live(heap')
    BY <1>2, <1>6
  <2> HIDE DEF n, a
  <2>4. Sound(heap', Partial, {n}, {})
    BY <2>1, <1>5
  <2>5. Sound(heap', {doing.network, n}, {n}, {})
    BY <2>1, <2>2, <2>3, <2>4, CompleteKeepsSound
  <2> QED BY <2>5, <1>10 DEF HeapInv
<1>12. TypeInv' /\ RootInv'
  BY <1>1, <1>2, <1>3, <1>5, <1>6, <1>9 DEF ListsInv, TypeInv, Doing, RootInv, Is
<1>13. CopyInv'
  <2>0. /\ heap[n].first = NULL <=> heap[n].last = NULL
        /\ heap[n].first # a
    <3>1. n \in Partial /\ a \in Unlinked
      BY <1>2, <1>3, <1>4
    <3> QED BY <3>1, PartialFirst
  <2>1. /\ Is(heap', n, "layer") /\ Is(heap', doing.network, "network") /\ doing.network # n
        /\ doing.currentlayer # n /\ control # n
    BY <1>2, <1>4, <1>6 DEF Is
  <2>2. CopyOf(doing.network, control, doing.currentlayer, "layer")'
    BY <2>1, <1>2, <1>3, <1>4, <1>6, <1>9 DEF CopyOf, Is
  <2>3. onward # NULL => Is(heap', onward, "neuron")
    BY <1>6, <1>7 DEF Is
  <2>4. heap'[n].first # NULL
    <3> HIDE DEF n, a
    <3> QED BY <2>0, <1>3, <1>6
  <2>5. heap'[n].first = heap'[n].last => onward # NULL
    <3> HAVE heap'[n].first = heap'[n].last
    <3>1. heap[n].first = NULL
      <4> HIDE DEF n, a
      <4> QED BY <2>0, <1>6
    <3>2. doing.currentneuron = heap[doing.currentlayer].first
      BY <3>1, <1>2, <1>4 DEF CopyOf
    <3>3. doing.currentlayer \notin Partial
      BY <1>2, <1>4 DEF Is
    <3> QED BY <3>2, <3>3, <1>1, <1>2, <1>3, <1>4, NextOfFirst DEF Is
  <2>6. CopyOf(doing.layer, doing.currentlayer, doing.currentneuron, "neuron")'
    BY <2>3, <2>4, <2>5, <1>9 DEF CopyOf
  <2>7. CopyOf(doing.neuron, doing.currentneuron, doing.currentweight, "weight")'
    BY <1>3, <1>9 DEF CopyOf
  <2> QED BY <2>1, <2>2, <2>6, <2>7, <1>2, <1>3, <1>4, <1>9 DEF CopyInv
<1> QED BY <1>3, <1>9, <1>11, <1>12, <1>13 DEF ListsInv, BuildInv, FreeInv, NothingFreedIsUsed

\* A layer is linked with all its neurons, of which there are not one.
LEMMA LayerCopiedKeeps == ListsInv /\ LayerCopied => ListsInv'
<1> SUFFICES ASSUME ListsInv, LayerCopied PROVE ListsInv'
  OBVIOUS
<1> DEFINE a == doing.layer
           n == doing.network
           onward == heap[doing.currentlayer].next
<1>1. doing.proc = "copy"
  BY DEF LayerCopied
<1>2. CopyFacts
  BY <1>1, InCopy
<1> USE DEF CopyFacts
<1>3. /\ shape' = shape /\ global' = global /\ control' = control
      /\ client' = client /\ round' = round /\ misuse' = misuse
      /\ a # NULL /\ doing.neuron = NULL /\ doing.currentneuron = NULL
      /\ heap' = LinkCopy(heap, n, a)
      /\ doing' = [doing EXCEPT !.layer = NULL, !.currentlayer = onward]
  BY DEF LayerCopied
<1>4. /\ n # NULL /\ Is(heap, a, "layer") /\ Is(heap, n, "network")
      /\ Is(heap, doing.currentlayer, "layer")
      /\ heap[a].first = NULL \/ heap[a].first # heap[a].last
  BY <1>2, <1>3 DEF CopyOf
<1>5. /\ heap' \in Heaps /\ Sound(heap', Partial, Unlinked \ {a}, {})
      /\ Attached(heap, heap', n, a, IF heap[n].last = NULL THEN a ELSE heap[n].last)
  <2>1. n \in Partial /\ a \in Unlinked /\ a \in Live(heap) /\ a # n
    BY <1>2, <1>3, <1>4 DEF Is
  <2>2. heap[a].kind = BelowKind[heap[n].kind] /\ heap[a].kind # "network"
    BY <1>4, Kinds DEF Is
  <2>3. heap \in Heaps /\ Sound(heap, Partial, Unlinked, {}) /\ heap' = LinkCopy(heap, n, a)
    BY <1>2, <1>3
  <2> HIDE DEF n, a
  <2> QED BY <2>1, <2>2, <2>3, LinkCopyRight
<1>6. /\ Live(heap') = Live(heap)
      /\ \A b \in Live(heap) : /\ heap'[b].kind = heap[b].kind
                               /\ b # n => heap'[b].first = heap[b].first
                               /\ b # n => heap'[b].last = heap[b].last
      /\ heap'[n].first = (IF heap[n].last = NULL THEN a ELSE heap[n].first) /\ heap'[n].last = a
  BY <1>4, <1>5 DEF Attached, Is
<1>7. onward # NULL => Is(heap, onward, "layer")
  <2>1. NextRight(heap)
    BY <1>2 DEF Sound
  <2> QED BY <2>1, <1>4 DEF NextRight, Is
<1>8. onward \in Pointer /\ NULL \in Pointer
  BY <1>4, LiveKinds, HeapAssumption DEF HeapNode, Is, Pointer, NULL
<1>9. /\ doing' \in Copies /\ doing'.proc = "copy" /\ doing'.network = n
      /\ doing'.layer = NULL /\ doing'.neuron = NULL /\ doing'.currentlayer = onward
      /\ doing'.currentneuron = NULL /\ doing'.currentweight = doing.currentweight
  <2> HIDE DEF onward
  <2> QED BY <1>2, <1>3, <1>8, Zenon DEF Copies
<1>10. Partial' = {n} /\ Unlinked' = {} /\ Cut' = {}
  BY <1>4, <1>9 DEF Partial, Unlinked, Cut
<1>11. HeapInv'
  <2>1. Unlinked \ {a} = {} /\ {n} \subseteq Partial /\ Partial \ {n} = {a}
    BY <1>2, <1>3, <1>4 DEF Is
  <2>2. \A q \in Partial \ {n} : heap'[q].first = NULL \/ heap'[q].first # heap'[q].last
    BY <2>1, <1>4, <1>6 DEF Is
  <2>3. NULL \notin Live(heap')
    BY <1>2, <1>6
  <2> HIDE DEF n, a
  <2>4. Sound(heap', {n}, {}, {})
    BY <2>1, <2>2, <2>3, <1>5, CompleteKeepsSound
  <2> QED BY <2>4, <1>10 DEF HeapInv
<1>12. TypeInv' /\ RootInv'
  BY <1>1, <1>2, <1>3, <1>5, <1>6, <1>9 DEF ListsInv, TypeInv, Doing, RootInv, Is
<1>13. CopyInv'
  <2>0. /\ heap[n].first = NULL <=> heap[n].last = NULL
        /\ heap[n].first # a
    <3>1. n \in Partial /\ a \in Unlinked
      BY <1>2, <1>3, <1>4
    <3> QED BY <3>1, PartialFirst
  <2>1. Is(heap', n, "network") /\ n # control
    BY <1>2, <1>4, <1>6 DEF Is
  <2>2. onward # NULL => Is(heap', onward, "layer")
    BY <1>6, <1>7 DEF Is
  <2>3. heap'[n].first # NULL
    <3> HIDE DEF n, a
    <3> QED BY <2>0, <1>3, <1>6
  <2>4. heap'[n].first = heap'[n].last => onward # NULL
    <3> HAVE heap'[n].first = heap'[n].last
    <3>1. heap[n].first = NULL
      <4> HIDE DEF n, a
      <4> QED BY <2>0, <1>6
    <3>2. doing.currentlayer = heap[control].first
      BY <3>1, <1>2, <1>4 DEF CopyOf
    <3>3. control \notin Partial
      BY <1>2, <1>3, <1>4 DEF Is
    <3> QED BY <3>2, <3>3, <1>1, <1>2, <1>3, <1>4, NextOfFirst DEF Is
  <2>5. CopyOf(doing.network, control, doing.currentlayer, "layer")'
    BY <2>2, <2>3, <2>4, <1>3, <1>9 DEF CopyOf
  <2>6. CopyOf(doing.layer, doing.currentlayer, doing.currentneuron, "neuron")'
    BY <1>9 DEF CopyOf
  <2>7. CopyOf(doing.neuron, doing.currentneuron, doing.currentweight, "weight")'
    BY <1>2, <1>6, <1>9 DEF CopyOf, Is
  <2> QED BY <2>1, <2>5, <2>6, <2>7, <1>2, <1>3, <1>4, <1>9 DEF CopyInv
<1> QED BY <1>3, <1>9, <1>11, <1>12, <1>13 DEF ListsInv, BuildInv, FreeInv, NothingFreedIsUsed

\* SetNeuralNetworkZeroWeightValue assigns values, and no pointers.
LEMMA PublishAssigns ==
  ASSUME ListsInv, Publish PROVE heap' \in Heaps /\ SamePointers(heap, heap')
<1>1. heap \in Heaps
  BY DEF ListsInv, TypeInv
<1> DEFINE weights == {a \in NodesOf(heap, control) : heap[a].kind = "weight"}
           v == [a \in Address |-> 0]
<1>2. heap' = [a \in Address |-> IF a \in weights THEN [heap[a] EXCEPT !.value = v[a]]
                                 ELSE heap[a]]
  BY DEF Publish
<1>3. \A a \in Address : v[a] \in Nat
  OBVIOUS
<1>4. \A a \in weights \cap Address : a \in Live(heap)
  BY DEF Live, Freed
<1> HIDE DEF weights, v
<1> QED BY <1>2, <1>3, <1>4, <1>1, ValuesAssigned

\* The finished copy becomes the global network, and the sum loses its weights.
LEMMA PublishKeeps == ListsInv /\ Publish => ListsInv'
<1> SUFFICES ASSUME ListsInv, Publish PROVE ListsInv'
  OBVIOUS
<1>1. doing.proc = "copy"
  BY DEF Publish
<1>2. CopyFacts
  BY <1>1, InCopy
<1> USE DEF CopyFacts
<1>3. /\ shape' = shape /\ global' = doing.network /\ control' = control
      /\ client' = client /\ round' = round + 1 /\ misuse' = misuse
      /\ doing.network # NULL /\ doing.layer = NULL /\ doing.currentlayer = NULL
      /\ doing' = Idle /\ doing'.proc = "idle"
  BY DEF Publish, Idle
<1>4. /\ doing.neuron = NULL /\ Partial = {doing.network} /\ Unlinked = {}
      /\ heap[doing.network].first = NULL \/ heap[doing.network].first # heap[doing.network].last
  BY <1>2, <1>3 DEF CopyOf
<1>5. Sound(heap, {}, {}, {})
  <2>1. /\ {} \subseteq Partial
        /\ \A q \in Partial \ {} : heap[q].first = NULL \/ heap[q].first # heap[q].last
    BY <1>4
  <2>2. Sound(heap, Partial, {}, {}) /\ NULL \notin Live(heap)
    BY <1>2, <1>4
  <2> QED BY <2>1, <2>2, CompleteKeepsSound
<1>6. heap' \in Heaps /\ SamePointers(heap, heap')
  BY PublishAssigns
<1>7. Sound(heap', {}, {}, {})
  BY <1>2, <1>5, <1>6, ValuesKeepSound
<1>8. Partial' = {} /\ Unlinked' = {} /\ Cut' = {}
  BY <1>3 DEF Partial, Unlinked, Cut
<1>9. HeapInv'
  BY <1>7, <1>8 DEF HeapInv
<1>10. TypeInv'
  BY <1>2, <1>3, <1>6 DEF ListsInv, TypeInv, Doing, Copies
<1>11. RootInv'
  BY <1>2, <1>3, <1>6 DEF ListsInv, RootInv, SamePointers, Is
<1> QED BY <1>3, <1>9, <1>10, <1>11 DEF ListsInv, BuildInv, FreeInv, CopyInv, NothingFreedIsUsed

-----------------------------------------------------------------------------
\* Every step keeps the invariant.
LEMMA ListsStep == ListsInv /\ [NextLists]_listVars => ListsInv'
<1>1. ListsInv /\ UNCHANGED listVars => ListsInv'
  <2> SUFFICES ASSUME ListsInv, UNCHANGED listVars PROVE ListsInv'
    OBVIOUS
  <2> USE DEF listVars
  <2>1. TypeInv' /\ RootInv' /\ NothingFreedIsUsed'
    BY DEF ListsInv, TypeInv, RootInv, NothingFreedIsUsed
  <2>2. Partial' = Partial /\ Unlinked' = Unlinked /\ Cut' = Cut
    BY DEF Partial, Unlinked, Cut
  <2>3. HeapInv'
    BY <2>2 DEF ListsInv, HeapInv
  <2>4. BuildInv'
    BY DEF ListsInv, BuildInv, Holds
  <2>5. FreeInv'
    BY DEF ListsInv, FreeInv, NextToFree
  <2>6. CopyInv'
    BY DEF ListsInv, CopyInv, CopyOf
  <2> QED BY <2>1, <2>3, <2>4, <2>5, <2>6 DEF ListsInv
<1> QED BY <1>1, CreateNetworkKeeps, ReceiveModelKeeps, AverageKeeps, BuildLayerKeeps,
       BuildNeuronKeeps, BuildWeightKeeps, BuiltKeeps, EnterLayerKeeps, FreeWeightKeeps,
       FreeNeuronKeeps, FreeLayerKeeps, FreeNetworkKeeps, CopyNetworkKeeps, CopyLayerKeeps,
       CopyNeuronKeeps, CopyWeightKeeps, NeuronCopiedKeeps, LayerCopiedKeeps, PublishKeeps
       DEF NextLists, Building, Freeing, Copying

\* At every step of building, averaging, freeing, copying and publishing, each node
\* that is left has at most one owner, and the cursors are at nodes that are left.
THEOREM ListsInvariant == ListsSpec => []ListsInv
BY ListsInitially, ListsStep, PTL DEF ListsSpec

\* freeNeuralNetwork reads no node it has freed and frees none twice, whatever the
\* layers of the network and however many rounds there are: every next pointer is
\* read while its node is there, and no pointer to a freed node is followed.
THEOREM NothingFreedIsEverUsed == ListsSpec => []NothingFreedIsUsed
<1>1. ListsInv => NothingFreedIsUsed
  BY DEF ListsInv
<1> QED BY <1>1, ListsInvariant, PTL

-----------------------------------------------------------------------------
(* Where a node stands: in which network, and the numbers of its layer, neuron and *)
(* weight, 0 for a node that is above them.  Those of the networks themselves are  *)
(* all 0.                                                                          *)

Role == {"global", "control", "client"}
NeuronsIn(l) == IF l = 0 THEN 0 ELSE shape[l]

Site == {s \in Role \X Nat \X Nat \X Nat :
           /\ s[2] <= Len(shape) /\ s[3] <= NeuronsIn(s[2])
           /\ s[4] <= IF s[3] = 0 THEN 0 ELSE WeightsIn(s[2])}

\* The kind of a node and its number in its list, the node whose list it is in, the
\* next and the previous one there, and the first one of its own list.
KindOf(s) == IF s[4] > 0 THEN "weight" ELSE IF s[3] > 0 THEN "neuron"
             ELSE IF s[2] > 0 THEN "layer" ELSE "network"
Index(s) == IF s[4] > 0 THEN s[4] ELSE IF s[3] > 0 THEN s[3] ELSE s[2]
Up(s) == IF s[4] > 0 THEN <<s[1], s[2], s[3], 0>>
         ELSE IF s[3] > 0 THEN <<s[1], s[2], 0, 0>> ELSE <<s[1], 0, 0, 0>>
Onward(s) == IF s[4] > 0 THEN <<s[1], s[2], s[3], s[4] + 1>>
             ELSE IF s[3] > 0 THEN <<s[1], s[2], s[3] + 1, 0>>
             ELSE IF s[2] > 0 THEN <<s[1], s[2] + 1, 0, 0>> ELSE <<s[1], 0, 0, 1>>
Back(s) == IF s[4] > 0 THEN <<s[1], s[2], s[3], s[4] - 1>>
           ELSE IF s[3] > 0 THEN <<s[1], s[2], s[3] - 1, 0>> ELSE <<s[1], s[2] - 1, 0, 0>>
Child(s) == IF s[2] = 0 THEN <<s[1], 1, 0, 0>> ELSE IF s[3] = 0 THEN <<s[1], s[2], 1, 0>>
            ELSE IF s[4] = 0 THEN <<s[1], s[2], s[3], 1>> ELSE <<s[1], 0, 0, 1>>

LEMMA SiteIs ==
  ASSUME NEW r, NEW l, NEW n, NEW w
  PROVE  <<r, l, n, w>> \in Site <=>
           /\ r \in Role /\ l \in Nat /\ n \in Nat /\ w \in Nat
           /\ l <= Len(shape) /\ n <= NeuronsIn(l)
           /\ w <= IF n = 0 THEN 0 ELSE WeightsIn(l)
BY DEF Site

LEMMA SiteParts ==
  ASSUME NEW s \in Site
  PROVE  /\ s = <<s[1], s[2], s[3], s[4]>> /\ s[1] \in Role
         /\ s[2] \in Nat /\ s[3] \in Nat /\ s[4] \in Nat
         /\ s[2] <= Len(shape) /\ s[3] <= NeuronsIn(s[2])
         /\ s[4] <= (IF s[3] = 0 THEN 0 ELSE WeightsIn(s[2]))
BY DEF Site

\* The number of neurons of a layer, and of the weights of each.
LEMMA SiteSizes ==
  ASSUME shape \in Shapes
  PROVE  /\ Len(shape) \in Nat /\ Len(shape) > 1 /\ NeuronsIn(0) = 0
         /\ \A l \in 1..Len(shape) :
              /\ NeuronsIn(l) = shape[l] /\ NeuronsIn(l) \in Nat /\ NeuronsIn(l) > 1
              /\ WeightsIn(l) \in Nat /\ (WeightsIn(l) = 0 \/ WeightsIn(l) > 1)
<1>1. Len(shape) \in Nat /\ Len(shape) > 1
  BY ShapesAssumption
<1>2. \A l \in 1..Len(shape) :
        /\ shape[l] \in Nat /\ shape[l] > 1
        /\ WeightsIn(l) \in Nat /\ (WeightsIn(l) = 0 \/ WeightsIn(l) > 1)
  BY Sizes
<1> QED BY <1>1, <1>2 DEF NeuronsIn

LEMMA OnwardIs ==
  ASSUME shape \in Shapes, NEW s \in Site, Onward(s) \in Site
  PROVE  /\ Up(Onward(s)) = Up(s) /\ Index(Onward(s)) = Index(s) + 1 /\ Index(s) > 0
         /\ Back(Onward(s)) = s /\ KindOf(Onward(s)) = KindOf(s) /\ Onward(s)[1] = s[1]
<1> DEFINE r == s[1]
           l == s[2]
           n == s[3]
           w == s[4]
<1>1. /\ s = <<r, l, n, w>> /\ r \in Role /\ l \in Nat /\ n \in Nat /\ w \in Nat
      /\ l <= Len(shape) /\ n <= NeuronsIn(l)
  BY SiteParts
<1>2. NeuronsIn(0) = 0
  BY DEF NeuronsIn
<1>3. CASE w > 0
  BY <1>1, <1>3 DEF Onward, Up, Index, Back, KindOf
<1>4. CASE w = 0 /\ n > 0
  BY <1>1, <1>4 DEF Onward, Up, Index, Back, KindOf
<1>5. CASE w = 0 /\ n = 0 /\ l > 0
  BY <1>1, <1>5 DEF Onward, Up, Index, Back, KindOf
<1>6. CASE w = 0 /\ n = 0 /\ l = 0
  BY <1>1, <1>6, SiteIs DEF Onward
<1> QED BY <1>1, <1>3, <1>4, <1>5, <1>6

LEMMA BackIs ==
  ASSUME shape \in Shapes, NEW s \in Site, Index(s) > 1
  PROVE  /\ Back(s) \in Site /\ Onward(Back(s)) = s /\ Up(Back(s)) = Up(s)
         /\ Back(s)[1] = s[1] /\ KindOf(Back(s)) = KindOf(s) /\ Back(s) # s
<1> DEFINE r == s[1]
           l == s[2]
           n == s[3]
           w == s[4]
<1>1. /\ s = <<r, l, n, w>> /\ r \in Role /\ l \in Nat /\ n \in Nat /\ w \in Nat
      /\ l <= Len(shape) /\ n <= NeuronsIn(l) /\ w <= (IF n = 0 THEN 0 ELSE WeightsIn(l))
  BY SiteParts
<1>3. CASE w > 0
  <2>1. Back(s) = <<r, l, n, w - 1>> /\ w > 1
    BY <1>1, <1>3 DEF Back, Index
  <2>2. n > 0
    BY <1>1, <1>3
  <2>3. w - 1 \in Nat /\ (n # 0 => WeightsIn(l) \in Nat)
    <3>1. l > 0
      BY <1>1, <2>2 DEF NeuronsIn
    <3> QED BY <1>1, <1>3, <3>1, SiteSizes
  <2>4. Back(s) \in Site
    BY <1>1, <2>1, <2>2, <2>3, SiteIs
  <2> QED BY <1>1, <2>1, <2>4 DEF Onward, Up, KindOf
<1>4. CASE w = 0 /\ n > 0
  <2>1. Back(s) = <<r, l, n - 1, 0>> /\ n > 1
    BY <1>1, <1>4 DEF Back, Index
  <2>2. l > 0
    BY <1>1, <1>4 DEF NeuronsIn
  <2>4. Back(s) \in Site
    BY <1>1, <1>4, <2>1, <2>2, SiteIs, SiteSizes
  <2> QED BY <1>1, <1>4, <2>1, <2>4 DEF Onward, Up, KindOf
<1>5. CASE w = 0 /\ n = 0
  <2>1. Back(s) = <<r, l - 1, 0, 0>> /\ l > 1
    BY <1>1, <1>5 DEF Back, Index
  <2>4. Back(s) \in Site
    BY <1>1, <1>5, <2>1, SiteIs, SiteSizes
  <2> QED BY <1>1, <1>5, <2>1, <2>4 DEF Onward, Up, KindOf
<1> QED BY <1>1, <1>3, <1>4, <1>5

LEMMA ChildIs ==
  ASSUME shape \in Shapes, NEW s \in Site, Child(s) \in Site
  PROVE  /\ Up(Child(s)) = s /\ Index(Child(s)) = 1
         /\ KindOf(Child(s)) = BelowKind[KindOf(s)] /\ Child(s)[1] = s[1]
<1> DEFINE r == s[1]
           l == s[2]
           n == s[3]
           w == s[4]
<1>1. /\ s = <<r, l, n, w>> /\ r \in Role /\ l \in Nat /\ n \in Nat /\ w \in Nat
      /\ l <= Len(shape) /\ n <= NeuronsIn(l) /\ w <= (IF n = 0 THEN 0 ELSE WeightsIn(l))
  BY SiteParts
<1>2. NeuronsIn(0) = 0
  BY DEF NeuronsIn
<1>3. CASE l = 0
  BY <1>1, <1>2, <1>3, Kinds DEF Child, Up, Index, KindOf
<1>4. CASE l > 0 /\ n = 0
  BY <1>1, <1>2, <1>4, Kinds DEF Child, Up, Index, KindOf
<1>5. CASE l > 0 /\ n > 0 /\ w = 0
  BY <1>1, <1>2, <1>5, Kinds DEF Child, Up, Index, KindOf
<1>6. CASE l > 0 /\ n > 0 /\ w > 0
  BY <1>1, <1>2, <1>6, SiteIs DEF Child
<1> QED BY <1>1, <1>3, <1>4, <1>5, <1>6

LEMMA UpIs ==
  ASSUME shape \in Shapes, NEW s \in Site, Index(s) > 0
  PROVE  /\ Up(s) \in Site /\ Up(s) # s /\ Up(s)[1] = s[1]
         /\ Index(s) = 1 => Child(Up(s)) = s
         /\ KindOf(s) = BelowKind[KindOf(Up(s))] /\ KindOf(s) # "network"
<1> DEFINE r == s[1]
           l == s[2]
           n == s[3]
           w == s[4]
<1>1. /\ s = <<r, l, n, w>> /\ r \in Role /\ l \in Nat /\ n \in Nat /\ w \in Nat
      /\ l <= Len(shape) /\ n <= NeuronsIn(l) /\ w <= (IF n = 0 THEN 0 ELSE WeightsIn(l))
  BY SiteParts
<1>2. NeuronsIn(0) = 0 /\ (n > 0 => l > 0) /\ (w > 0 => n > 0)
  BY <1>1 DEF NeuronsIn
<1>21. l > 0 => NeuronsIn(l) \in Nat /\ WeightsIn(l) \in Nat
  BY <1>1, SiteSizes
<1>3. CASE w > 0
  <2>1. Up(s) = <<r, l, n, 0>> /\ l > 0 /\ n > 0
    BY <1>1, <1>2, <1>3 DEF Up
  <2>2. Up(s) \in Site
    BY <2>1, <1>1, <1>21, SiteIs
  <2> QED BY <1>1, <1>3, <2>1, <2>2, Kinds DEF Child, Index, KindOf
<1>4. CASE w = 0 /\ n > 0
  <2>1. Up(s) = <<r, l, 0, 0>> /\ l > 0
    BY <1>1, <1>2, <1>4 DEF Up
  <2>2. Up(s) \in Site
    BY <2>1, <1>1, <1>21, SiteIs
  <2> QED BY <1>1, <1>4, <2>1, <2>2, Kinds DEF Child, Index, KindOf
<1>5. CASE w = 0 /\ n = 0
  <2>1. Up(s) = <<r, 0, 0, 0>> /\ l > 0
    BY <1>1, <1>2, <1>5 DEF Up, Index
  <2>2. Up(s) \in Site
    BY <2>1, <1>1, <1>2, SiteIs, SiteSizes
  <2> QED BY <1>1, <1>5, <2>1, <2>2, Kinds DEF Child, Index, KindOf
<1> QED BY <1>1, <1>3, <1>4, <1>5

-----------------------------------------------------------------------------
(* Trees in the heap: L names the address of a site, the sites of S are there, those *)
(* of K are in the list of their parent.                                            *)

\* A node of the right kind, linked to its neighbours if it is in a list.
SiteRight(h, L, K, loops, s) ==
  /\ Is(h, L[s], KindOf(s))
  /\ h[L[s]].first = IF Child(s) \in K THEN L[Child(s)] ELSE NULL
  /\ h[L[s]].next = IF Onward(s) \in K THEN L[Onward(s)]
                    ELSE IF loops = "own" /\ s \in K /\ Index(s) = 1 THEN L[s] ELSE NULL
  /\ IF s \in K /\ Index(s) > 1 THEN h[L[s]].previous = L[Back(s)]
     ELSE h[L[s]].previous \in {NULL, L[s]}
  /\ IF Child(s) \in K THEN \E t \in K : Index(t) > 0 /\ Up(t) = s /\ h[L[s]].last = L[t]
     ELSE h[L[s]].last = NULL

\* The last pointer is at the last node that is in the list.
LastRight(h, L, S, K) ==
  \A t \in K : Index(t) > 0 /\ Up(t) \in S /\ Onward(t) \notin K => h[L[Up(t)]].last = L[t]

Apiece(L, S) == \A s, t \in S : L[s] = L[t] => s = t

Laid(h, L, S, K, loops) ==
  /\ Apiece(L, S)
  /\ \A s \in S : SiteRight(h, L, K, loops, s)
  /\ LastRight(h, L, S, K)
  /\ \A t \in K : Index(t) > 1 => Back(t) \in K
  /\ \A t \in K \ S : h[L[t]] = Freed

\* Every site but a root has its parent among the sites.
Grown(S) == S \subseteq Site /\ \A t \in S : Index(t) > 0 => Up(t) \in S

\* T is S with s, and S without s; L has s at a.
With(S, s, T) == T = S \cup {s}
Without(S, s, T) == T = S \ {s}
Puts(L, s, a) == L[s] = a

\* A site that can be linked to its parent, and one that can be added.
Ready(S, K, s) == /\ Grown(S) /\ K \subseteq S /\ s \in S \ K /\ Index(s) > 0
                  /\ Index(s) > 1 => Back(s) \in K
Open(S, K, s) == Grown(S) /\ K \subseteq S /\ s \in Site \ S

\* M is L with the site s at a.
Placed(L, M, s, a) ==
  /\ s \in Site /\ a \in Address /\ L \in [Site -> Address] /\ M \in [Site -> Address]
  /\ M[s] = a /\ \A t \in Site \ {s} : M[t] = L[t]

LEMMA AddSite ==
  ASSUME shape \in Shapes, NEW h, NEW g, NEW S, NEW K, NEW L, NEW M, NEW loops, NEW s, NEW a,
         Placed(L, M, s, a), Open(S, K, s), Laid(h, L, S, K, loops),
         Fresh(h, g, a, KindOf(s))
  PROVE  Laid(g, M, S \cup {s}, K, loops)
<1>1. /\ S \subseteq Site /\ M \in [Site -> Address] /\ M[s] = a /\ s \in Site /\ a \in Address
      /\ \A t \in S : t # s /\ M[t] = L[t]
      /\ s \notin S /\ K \subseteq S /\ \A t \in S : Index(t) > 0 => Up(t) \in S
  BY DEF Grown, Placed, Open
<1>2. /\ Live(g) = Live(h) \cup {a} /\ a \notin Live(h)
      /\ \A b \in Live(h) : g[b] = h[b]
      /\ g[a].kind = KindOf(s) /\ g[a].first = NULL /\ g[a].last = NULL /\ g[a].next = NULL
      /\ g[a].previous = NULL
  BY DEF Fresh
<1>3. \A t \in S : SiteRight(h, L, K, loops, t) /\ L[t] \in Live(h)
  BY DEF Laid, SiteRight, Is
<1>4. Child(s) \notin K /\ Onward(s) \notin K /\ s \notin K
  <2>1. Child(s) \in K => FALSE
    <3> HAVE Child(s) \in K
    <3>1. Child(s) \in Site /\ Child(s) \in S
      BY <1>1
    <3>2. Up(Child(s)) = s /\ Index(Child(s)) = 1
      BY <1>1, <3>1, ChildIs
    <3> QED BY <1>1, <3>1, <3>2
  <2>2. Onward(s) \in K => FALSE
    <3> HAVE Onward(s) \in K
    <3>1. Onward(s) \in Site /\ Index(Onward(s)) = Index(s) + 1 /\ Index(s) > 0 /\ Back(Onward(s)) = s
      BY <1>1, OnwardIs
    <3>2. Index(s) \in Nat
      BY <1>1, SiteParts DEF Index
    <3>3. Back(Onward(s)) \in K
      BY <3>1, <3>2 DEF Laid
    <3> QED BY <1>1, <3>1, <3>3
  <2> QED BY <2>1, <2>2, <1>1
<1>5. Apiece(M, S \cup {s})
  BY <1>1, <1>2, <1>3 DEF Laid, Apiece
<1>6. ASSUME NEW t \in S PROVE SiteRight(g, M, K, loops, t)
  <2>1. SiteRight(h, L, K, loops, t) /\ M[t] = L[t] /\ g[L[t]] = h[L[t]] /\ Is(g, L[t], KindOf(t))
    BY <1>1, <1>2, <1>3 DEF SiteRight, Is
  <2>2. \A u \in K : M[u] = L[u]
    BY <1>1
  <2>3. t \in K /\ Index(t) > 1 => Back(t) \in K
    BY DEF Laid
  <2> QED BY <2>1, <2>2, <2>3 DEF SiteRight
<1>7. SiteRight(g, M, K, loops, s)
  BY <1>1, <1>2, <1>4 DEF SiteRight, Is
<1>8. LastRight(g, M, S \cup {s}, K)
  <2> SUFFICES ASSUME NEW t \in K, Index(t) > 0, Up(t) \in S \cup {s}, Onward(t) \notin K
               PROVE  g[M[Up(t)]].last = M[t]
    BY DEF LastRight
  <2>1. t \in S /\ Up(t) \in S
    BY <1>1
  <2>2. h[L[Up(t)]].last = L[t]
    BY <2>1 DEF Laid, LastRight
  <2> QED BY <2>1, <2>2, <1>1, <1>2, <1>3
<1>9. \A t \in K \ (S \cup {s}) : g[M[t]] = Freed
  BY <1>1
<1>10. \A t \in K : Index(t) > 1 => Back(t) \in K
  BY DEF Laid
<1> QED BY <1>1, <1>5, <1>6, <1>7, <1>8, <1>9, <1>10 DEF Laid

\* The last node of a list that the next one is hung on.
Before(L, s) == IF Index(s) > 1 THEN L[Back(s)] ELSE NULL

LEMMA LastOfParent ==
  ASSUME shape \in Shapes, NEW h, NEW S, NEW K, NEW L \in [Site -> Address], NEW loops,
         Grown(S), K \subseteq S, Laid(h, L, S, K, loops),
         NEW s \in S, s \notin K, Index(s) > 0, Index(s) > 1 => Back(s) \in K
  PROVE  /\ Up(s) \in S /\ Onward(s) \notin K /\ h[L[Up(s)]].last = Before(L, s)
         /\ Index(s) = 1 => Child(Up(s)) = s
<1>1. s \in Site /\ Up(s) \in S /\ Up(s) \in Site /\ Index(s) \in Nat
  BY SiteParts DEF Grown, Index
<1>2. Onward(s) \notin K
  <2> SUFFICES ASSUME Onward(s) \in K PROVE FALSE
    OBVIOUS
  <2>1. Onward(s) \in Site
    BY DEF Grown
  <2>2. Index(Onward(s)) = Index(s) + 1 /\ Back(Onward(s)) = s
    BY <1>1, <2>1, OnwardIs
  <2>3. Back(Onward(s)) \in K
    BY <1>1, <2>2 DEF Laid
  <2> QED BY <2>2, <2>3
<1>3. CASE Index(s) > 1
  <2>1. Onward(Back(s)) = s /\ Up(Back(s)) = Up(s) /\ Back(s) \in Site /\ Back(s) \in K
    BY <1>1, <1>3, BackIs
  <2>2. Index(Back(s)) > 0
    <3>1. Index(Onward(Back(s))) = Index(Back(s)) + 1 /\ Index(Back(s)) > 0
      BY <1>1, <2>1, OnwardIs
    <3> QED BY <3>1
  <2>3. h[L[Up(Back(s))]].last = L[Back(s)]
    BY <1>1, <2>1, <2>2 DEF Laid, LastRight
  <2> QED BY <1>1, <1>2, <1>3, <2>1, <2>3 DEF Before
<1>4. CASE Index(s) = 1
  <2>1. Child(Up(s)) = s
    BY <1>1, <1>4, UpIs
  <2>2. h[L[Up(s)]].last = NULL
    BY <1>1, <2>1 DEF Laid, SiteRight
  <2> QED BY <1>1, <1>2, <1>4, <2>1, <2>2 DEF Before
<1> QED BY <1>1, <1>3, <1>4

\* A node is linked as the last one of its parent's list.
Hung(h, g, parent, a, loops) ==
  Attached(h, g, parent, a, IF h[parent].last # NULL THEN h[parent].last
                            ELSE IF loops = "own" THEN a ELSE NULL)

LEMMA LinkSite ==
  ASSUME shape \in Shapes, NEW h, NEW g, NEW S, NEW K, NEW J, NEW L \in [Site -> Address],
         NEW loops, NEW s, NEW parent, NEW node, Ready(S, K, s), With(K, s, J),
         Laid(h, L, S, K, loops), NULL \notin Live(h),
         Puts(L, Up(s), parent), Puts(L, s, node), Hung(h, g, parent, node, loops)
  PROVE  /\ Laid(g, L, S, J, loops)
         /\ Up(s) \in S /\ h[parent].last = Before(L, s)
<1> DEFINE p == Up(s)
           a == L[s]
           before == IF h[L[p]].last # NULL THEN h[L[p]].last
                     ELSE IF loops = "own" THEN a ELSE NULL
<1>0. /\ Grown(S) /\ K \subseteq S /\ s \in S /\ s \notin K /\ Index(s) > 0
      /\ Index(s) > 1 => Back(s) \in K
      /\ J = K \cup {s} /\ parent = L[p] /\ node = a
      /\ Attached(h, g, L[p], a, before)
  BY DEF Ready, With, Puts, Hung
<1> USE <1>0
<1>1. /\ p \in S /\ Onward(s) \notin K /\ h[L[p]].last = Before(L, s)
      /\ Index(s) = 1 => Child(p) = s
  BY LastOfParent
<1>2. /\ S \subseteq Site /\ s \in Site /\ p \in Site /\ p # s /\ Index(s) \in Nat
      /\ \A t \in S : t \in Site /\ Index(t) \in Nat
  BY <1>1, UpIs, SiteParts DEF Grown, Index
<1>3. \A t \in S : SiteRight(h, L, K, loops, t) /\ L[t] \in Live(h) /\ L[t] # NULL
  BY DEF Laid, SiteRight, Is
<1>4. Apiece(L, S)
  BY DEF Laid
<1>5. /\ Live(g) = Live(h)
      /\ \A b \in Live(h) :
           /\ g[b].kind = h[b].kind
           /\ g[b].first = IF b = L[p] /\ h[L[p]].last = NULL THEN a ELSE h[b].first
           /\ g[b].last = IF b = L[p] THEN a ELSE h[b].last
           /\ g[b].next = IF b = before THEN a ELSE IF b = a THEN NULL ELSE h[b].next
           /\ g[b].previous = IF b = a /\ before # NULL THEN before ELSE h[b].previous
  BY DEF Attached
<1>6. Index(s) > 1 => Back(s) \in K /\ Back(s) \in S /\ L[Back(s)] # NULL /\ Onward(Back(s)) = s
  BY <1>2, <1>3, BackIs
<1>7. before = IF Index(s) > 1 THEN L[Back(s)] ELSE IF loops = "own" THEN a ELSE NULL
  BY <1>1, <1>2, <1>6 DEF Before
<1> HIDE DEF before
<1>8. h[L[p]].last = NULL <=> Index(s) = 1
  BY <1>1, <1>2, <1>6 DEF Before
<1> HIDE DEF p, a
<1>9. ASSUME NEW t \in S PROVE SiteRight(g, L, K \cup {s}, loops, t)
  <2>1. SiteRight(h, L, K, loops, t) /\ L[t] \in Live(h) /\ t \in Site /\ Index(t) \in Nat
    BY <1>2, <1>3
  <2>2. Is(g, L[t], KindOf(t))
    BY <2>1, <1>5 DEF SiteRight, Is
  <2>3. L[t] = L[p] <=> t = p
    BY <1>1, <1>4 DEF Apiece
  <2>4. L[t] = a <=> t = s
    BY <1>4 DEF Apiece, a
  <2>5. Child(t) = s => t = p /\ Index(s) = 1
    <3> HAVE Child(t) = s
    <3>1. Up(Child(t)) = t /\ Index(Child(t)) = 1
      BY <2>1, <1>2, ChildIs
    <3> QED BY <3>1 DEF p
  <2>6. g[L[t]].first = IF Child(t) \in K \cup {s} THEN L[Child(t)] ELSE NULL
    <3>1. CASE t = p /\ Index(s) = 1
      BY <3>1, <1>1, <1>5, <1>8, <2>1 DEF a
    <3>2. CASE ~(t = p /\ Index(s) = 1)
      <4>1. g[L[t]].first = h[L[t]].first
        BY <3>2, <1>5, <1>8, <2>1, <2>3
      <4> QED BY <4>1, <3>2, <2>1, <2>5 DEF SiteRight
    <3> QED BY <3>1, <3>2
  <2>7. Onward(t) = s => Index(s) > 1 /\ t = Back(s)
    <3> HAVE Onward(t) = s
    <3>1. Index(Onward(t)) = Index(t) + 1 /\ Index(t) > 0 /\ Back(Onward(t)) = t
      BY <2>1, <1>2, OnwardIs
    <3> QED BY <3>1, <2>1
  <2>8. g[L[t]].next = IF Onward(t) \in K \cup {s} THEN L[Onward(t)]
                       ELSE IF loops = "own" /\ t \in K \cup {s} /\ Index(t) = 1 THEN L[t] ELSE NULL
    <3>1. CASE Index(s) > 1
      <4>1. L[t] = before <=> t = Back(s)
        BY <1>4, <1>6, <1>7, <3>1 DEF Apiece
      <4>2. CASE t = Back(s)
        BY <4>1, <4>2, <1>5, <1>6, <2>1, <3>1 DEF a
      <4>3. CASE t # Back(s) /\ t # s
        <5>1. g[L[t]].next = h[L[t]].next
          BY <4>1, <4>3, <1>5, <2>1, <2>4
        <5> QED BY <5>1, <4>3, <2>1, <2>7 DEF SiteRight
      <4>4. CASE t # Back(s) /\ t = s
        <5>1. g[L[t]].next = NULL
          BY <4>1, <4>4, <1>5, <2>1, <2>4
        <5>2. Onward(s) # s
          BY <4>4, <2>7
        <5> QED BY <5>1, <5>2, <4>4, <1>1, <3>1
      <4> QED BY <4>2, <4>3, <4>4
    <3>2. CASE Index(s) = 1
      <4>1. Onward(t) # s
        BY <2>7, <3>2
      <4>2. CASE t = s
        <5>1. g[L[t]].next = IF loops = "own" THEN a ELSE NULL
          BY <4>2, <1>5, <1>7, <1>3, <2>1, <2>4, <3>2
        <5> QED BY <5>1, <4>1, <4>2, <1>1, <3>2 DEF a
      <4>3. CASE t # s
        <5>1. g[L[t]].next = h[L[t]].next
          BY <4>3, <1>3, <1>5, <1>7, <2>1, <2>4, <3>2
        <5> QED BY <5>1, <4>1, <4>3, <2>1 DEF SiteRight
      <4> QED BY <4>2, <4>3
    <3> QED BY <3>1, <3>2, <1>2
  <2>9. IF t \in K \cup {s} /\ Index(t) > 1 THEN g[L[t]].previous = L[Back(t)]
        ELSE g[L[t]].previous \in {NULL, L[t]}
    <3>1. CASE t = s
      <4>1. CASE Index(s) > 1
        BY <3>1, <4>1, <1>5, <1>6, <1>7, <2>1, <2>4
      <4>2. CASE Index(s) = 1
        <5>1. h[L[t]].previous \in {NULL, L[t]}
          BY <3>1, <2>1 DEF SiteRight
        <5> QED BY <5>1, <3>1, <4>2, <1>5, <1>7, <2>1, <2>4 DEF a
      <4> QED BY <4>1, <4>2, <1>2
    <3>2. CASE t # s
      <4>1. g[L[t]].previous = h[L[t]].previous
        BY <3>2, <1>5, <2>1, <2>4
      <4> QED BY <4>1, <3>2, <2>1 DEF SiteRight
    <3> QED BY <3>1, <3>2
  <2>10. IF Child(t) \in K \cup {s}
         THEN \E u \in K \cup {s} : Index(u) > 0 /\ Up(u) = t /\ g[L[t]].last = L[u]
         ELSE g[L[t]].last = NULL
    <3>1. CASE t = p
      <4>1. g[L[t]].last = a /\ Up(s) = t
        BY <3>1, <1>5, <2>1 DEF p
      <4>2. Child(t) \in K \cup {s}
        <5>1. CASE Index(s) = 1
          BY <5>1, <1>1, <3>1
        <5>2. CASE Index(s) > 1
          <6>1. h[L[p]].last # NULL
            BY <5>2, <1>8
          <6> QED BY <6>1, <3>1, <2>1 DEF SiteRight
        <5> QED BY <5>1, <5>2, <1>2
      <4> QED BY <4>1, <4>2 DEF a
    <3>2. CASE t # p
      <4>1. g[L[t]].last = h[L[t]].last
        BY <3>2, <1>5, <2>1, <2>3
      <4>2. Child(t) # s
        BY <3>2, <2>5
      <4>3. IF Child(t) \in K THEN \E u \in K : Index(u) > 0 /\ Up(u) = t /\ h[L[t]].last = L[u]
            ELSE h[L[t]].last = NULL
        BY <2>1 DEF SiteRight
      <4> QED BY <4>1, <4>2, <4>3
    <3> QED BY <3>1, <3>2
  <2> QED BY <2>2, <2>6, <2>8, <2>9, <2>10 DEF SiteRight
<1>10. LastRight(g, L, S, K \cup {s})
  <2> SUFFICES ASSUME NEW t \in K \cup {s}, Index(t) > 0, Up(t) \in S, Onward(t) \notin K \cup {s}
               PROVE  g[L[Up(t)]].last = L[t]
    BY DEF LastRight
  <2>1. CASE t = s
    BY <2>1, <1>1, <1>3, <1>5 DEF a, p
  <2>2. CASE t # s /\ Up(t) = p
    <3>1. t \in K /\ Onward(t) \notin K /\ t \in S
      BY <2>2
    <3>2. h[L[p]].last = L[t]
      BY <3>1, <2>2 DEF Laid, LastRight
    <3>3. h[L[p]].last # NULL
      BY <3>1, <3>2, <1>3
    <3>4. Index(s) > 1 /\ L[t] = L[Back(s)]
      BY <3>2, <3>3, <1>1 DEF Before
    <3>5. t = Back(s)
      BY <3>1, <3>4, <1>4, <1>6 DEF Apiece
    <3> QED BY <3>4, <3>5, <1>6
  <2>3. CASE t # s /\ Up(t) # p
    <3>1. t \in K /\ Onward(t) \notin K
      BY <2>3
    <3>2. h[L[Up(t)]].last = L[t]
      BY <3>1 DEF Laid, LastRight
    <3>3. L[Up(t)] # L[p]
      BY <2>3, <1>1, <1>4 DEF Apiece
    <3> QED BY <3>2, <3>3, <1>3, <1>5
  <2> QED BY <2>1, <2>2, <2>3
<1>11. \A t \in K \cup {s} : Index(t) > 1 => Back(t) \in K \cup {s}
  BY DEF Laid
<1>12. \A t \in (K \cup {s}) \ S : g[L[t]] = Freed
  OBVIOUS
<1> QED BY <1>1, <1>4, <1>9, <1>10, <1>11, <1>12 DEF Laid, p

LEMMA FreeSite ==
  ASSUME NEW h, NEW g, NEW S, NEW K, NEW L \in [Site -> Address], NEW loops,
         S \subseteq Site, K \subseteq Site, Laid(h, L, S, K, loops),
         NEW s \in S, Gone(h, g, L[s])
  PROVE  Laid(g, L, S \ {s}, K, loops)
<1>1. /\ Live(g) = Live(h) \ {L[s]} /\ \A b \in Live(g) : g[b] = h[b]
  BY DEF Gone
<1>2. \A t \in S : SiteRight(h, L, K, loops, t) /\ L[t] \in Live(h)
  BY DEF Laid, SiteRight, Is
<1>3. \A t \in S \ {s} : L[t] # L[s] /\ L[t] \in Live(g) /\ g[L[t]] = h[L[t]]
  BY <1>1, <1>2 DEF Laid, Apiece
<1>4. Apiece(L, S \ {s})
  BY DEF Laid, Apiece
<1>5. \A t \in S \ {s} : SiteRight(g, L, K, loops, t)
  BY <1>2, <1>3 DEF SiteRight, Is
<1>6. LastRight(g, L, S \ {s}, K)
  BY <1>3 DEF Laid, LastRight
<1>7. \A t \in K \ (S \ {s}) : g[L[t]] = Freed
  <2> SUFFICES ASSUME NEW t \in K, t \notin S \ {s} PROVE g[L[t]] = Freed
    OBVIOUS
  <2>1. L[t] \in Address
    OBVIOUS
  <2>2. L[t] \notin Live(g)
    BY <1>1 DEF Laid, Live
  <2> QED BY <2>1, <2>2 DEF Live
<1> QED BY <1>4, <1>5, <1>6, <1>7 DEF Laid

LEMMA SameSites ==
  ASSUME NEW h, NEW g, NEW S, NEW K, NEW L \in [Site -> Address], NEW loops,
         S \subseteq Site, K \subseteq Site, Laid(h, L, S, K, loops), SamePointers(h, g)
  PROVE  Laid(g, L, S, K, loops)
<1>1. /\ Live(g) = Live(h)
      /\ \A b \in Live(h) : /\ g[b].kind = h[b].kind /\ g[b].first = h[b].first
                            /\ g[b].last = h[b].last /\ g[b].next = h[b].next
                            /\ g[b].previous = h[b].previous
  BY DEF SamePointers
<1>2. \A t \in S : SiteRight(h, L, K, loops, t) /\ L[t] \in Live(h)
  BY DEF Laid, SiteRight, Is
<1>3. \A t \in S : SiteRight(g, L, K, loops, t)
  BY <1>1, <1>2 DEF SiteRight, Is
<1>4. LastRight(g, L, S, K)
  BY <1>1, <1>2 DEF Laid, LastRight
<1>5. \A t \in K \ S : g[L[t]] = Freed
  BY <1>1 DEF Laid, Live
<1> QED BY <1>3, <1>4, <1>5 DEF Laid

\* Sites of some of the networks.
OfRole(S, R) == {s \in S : s[1] \in R}

LEMMA DropRoles ==
  ASSUME NEW h, NEW S, NEW K, NEW L, NEW loops, NEW R,
         K \subseteq Site, Laid(h, L, S, K, loops)
  PROVE  Laid(h, L, OfRole(S, R), OfRole(K, R), loops)
<1>1. \A s \in Site \cup S : /\ Child(s)[1] = s[1] /\ Onward(s)[1] = s[1] /\ Back(s)[1] = s[1]
                    /\ Up(s)[1] = s[1]
  BY DEF Child, Onward, Back, Up
<1> DEFINE Z == OfRole(S, R)
           J == OfRole(K, R)
<1>2. /\ Z \subseteq S /\ J \subseteq K
      /\ \A s \in Z : s[1] \in R
      /\ \A s \in J : s[1] \in R
      /\ \A s \in S : s[1] \in R => s \in Z
      /\ \A s \in K : s[1] \in R => s \in J
  BY DEF OfRole
<1> HIDE DEF Z, J
<1>3. Apiece(L, Z)
  BY <1>2 DEF Laid, Apiece
<1>4. ASSUME NEW s \in Z PROVE SiteRight(h, L, J, loops, s)
  <2>1. SiteRight(h, L, K, loops, s) /\ s[1] \in R
    BY <1>2 DEF Laid
  <2>2. Child(s) \in J <=> Child(s) \in K
    BY <1>1, <1>2, <2>1
  <2>3. Onward(s) \in J <=> Onward(s) \in K
    BY <1>1, <1>2, <2>1
  <2>4. s \in J <=> s \in K
    BY <1>2, <2>1
  <2>5. \A t \in K : Up(t) = s => t \in J
    BY <1>1, <1>2, <2>1
  <2> QED BY <2>1, <2>2, <2>3, <2>4, <2>5 DEF SiteRight
<1>5. LastRight(h, L, Z, J)
  <2> SUFFICES ASSUME NEW t \in J, Index(t) > 0, Up(t) \in Z, Onward(t) \notin J
               PROVE  h[L[Up(t)]].last = L[t]
    BY DEF LastRight
  <2>1. t \in K /\ Up(t) \in S /\ Onward(t) \notin K
    BY <1>1, <1>2
  <2> QED BY <2>1 DEF Laid, LastRight
<1>6. \A t \in J : Index(t) > 1 => Back(t) \in J
  BY <1>1, <1>2 DEF Laid
<1>7. \A t \in J \ Z : h[L[t]] = Freed
  BY <1>2 DEF Laid
<1> QED BY <1>3, <1>4, <1>5, <1>6, <1>7 DEF Laid, Z, J

\* In complete lists it makes no difference what is done with a list of one node.
LEMMA NoLoops ==
  ASSUME NEW h, NEW S, NEW K, NEW L, NEW one, NEW other,
         Laid(h, L, S, K, one), \A s \in K : Index(s) = 1 => Onward(s) \in K
  PROVE  Laid(h, L, S, K, other)
<1>1. ASSUME NEW s \in S PROVE SiteRight(h, L, K, other, s)
  <2>1. SiteRight(h, L, K, one, s)
    BY DEF Laid
  <2>2. h[L[s]].next = IF Onward(s) \in K THEN L[Onward(s)]
                       ELSE IF other = "own" /\ s \in K /\ Index(s) = 1 THEN L[s] ELSE NULL
    BY <2>1 DEF SiteRight
  <2> QED BY <2>1, <2>2 DEF SiteRight
<1> QED BY <1>1 DEF Laid

-----------------------------------------------------------------------------
(* The trees, and beside them the models that were lost.                     *)

Image(L, S) == {L[s] : s \in S}

\* Nodes with pointers among themselves, of the right kinds.
Closed(h, lost) ==
  \A a \in lost :
    /\ a \in Live(h)
    /\ \A b \in {h[a].next, h[a].previous} : b = NULL \/ (b \in lost /\ h[b].kind = h[a].kind)
    /\ \A b \in {h[a].first, h[a].last} :
         b = NULL \/ (b \in lost /\ h[b].kind = BelowKind[h[a].kind])

Trees(h, L, lost, S, K, loops) ==
  /\ h \in Heaps /\ S \subseteq Site /\ K \subseteq Site
  /\ L \in [Site -> Address] /\ Laid(h, L, S, K, loops)
  /\ Live(h) = lost \cup Image(L, S) /\ lost \cap Image(L, S) = {}
  /\ Closed(h, lost)

LEMMA ClosedStays ==
  ASSUME NEW h, NEW g, NEW lost, Closed(h, lost),
         \A a \in lost : /\ a \in Live(g) /\ g[a].kind = h[a].kind /\ g[a].first = h[a].first
                         /\ g[a].last = h[a].last /\ g[a].next = h[a].next
                         /\ g[a].previous = h[a].previous
  PROVE  Closed(g, lost)
BY DEF Closed

LEMMA TreesAdd ==
  ASSUME shape \in Shapes, NEW h, NEW g, NEW L, NEW M, NEW lost, NEW S, NEW K, NEW loops,
         NEW s, NEW a, NEW T, Trees(h, L, lost, S, K, loops), Open(S, K, s), With(S, s, T),
         Placed(L, M, s, a), Fresh(h, g, a, KindOf(s))
  PROVE  Trees(g, M, lost, T, K, loops)
<1>0. T = S \cup {s}
  BY DEF With
<1>1. /\ S \subseteq Site /\ K \subseteq Site /\ L \in [Site -> Address]
      /\ Laid(h, L, S, K, loops) /\ Closed(h, lost)
      /\ Live(h) = lost \cup Image(L, S) /\ lost \cap Image(L, S) = {}
  BY DEF Trees
<1>2. /\ g \in Heaps /\ Live(g) = Live(h) \cup {a} /\ a \notin Live(h)
      /\ \A b \in Live(h) : g[b] = h[b]
  BY DEF Fresh
<1>3. Laid(g, M, S \cup {s}, K, loops)
  BY <1>1, AddSite
<1>4. M \in [Site -> Address] /\ s \in Site /\ M[s] = a /\ \A t \in S : M[t] = L[t]
  BY <1>1 DEF Placed, Open
<1>5. Image(M, S \cup {s}) = Image(L, S) \cup {a}
  BY <1>4 DEF Image
<1>6. Closed(g, lost)
  BY <1>1, <1>2, ClosedStays
<1> QED BY <1>0, <1>1, <1>2, <1>3, <1>4, <1>5, <1>6 DEF Trees

LEMMA TreesLink ==
  ASSUME shape \in Shapes, NEW h, NEW g, NEW L, NEW lost, NEW S, NEW K, NEW J, NEW loops,
         NEW s, NEW parent, NEW node, Trees(h, L, lost, S, K, loops), Ready(S, K, s),
         With(K, s, J), g \in Heaps, Puts(L, Up(s), parent), Puts(L, s, node),
         Hung(h, g, parent, node, loops)
  PROVE  Trees(g, L, lost, S, J, loops)
<1> DEFINE before == IF h[parent].last # NULL THEN h[parent].last
                     ELSE IF loops = "own" THEN node ELSE NULL
<1>0. /\ s \in S /\ K \subseteq S
      /\ Index(s) > 1 => Back(s) \in K
      /\ J = K \cup {s} /\ parent = L[Up(s)] /\ node = L[s]
      /\ Attached(h, g, parent, node, before)
  BY DEF Ready, With, Puts, Hung
<1>1. /\ S \subseteq Site /\ K \subseteq Site /\ L \in [Site -> Address]
      /\ Laid(h, L, S, K, loops) /\ Closed(h, lost) /\ h \in Heaps
      /\ Live(h) = lost \cup Image(L, S) /\ lost \cap Image(L, S) = {}
  BY DEF Trees
<1>2. NULL \notin Live(h)
  BY <1>1, LiveNodes
<1>3. /\ Laid(g, L, S, J, loops)
      /\ Up(s) \in S /\ h[parent].last = Before(L, s)
  BY <1>1, <1>2, LinkSite
<1>40. \A t \in S : L[t] \in Image(L, S)
  BY DEF Image
<1>41. before \in {NULL, node} \/ (Index(s) > 1 /\ before = L[Back(s)])
  <2>1. CASE Index(s) > 1
    <3>1. h[parent].last = L[Back(s)]
      BY <1>3, <2>1 DEF Before
    <3>2. L[Back(s)] \in Address
      BY <1>0, <1>1, <2>1
    <3>3. L[Back(s)] # NULL
      BY <3>2 DEF Address, NULL
    <3> QED BY <2>1, <3>1, <3>3
  <2>2. CASE ~(Index(s) > 1)
    BY <1>3, <2>2 DEF Before
  <2> QED BY <2>1, <2>2
<1>5. parent \in Image(L, S) /\ node \in Image(L, S) /\ before \in Image(L, S) \cup {NULL}
  BY <1>0, <1>3, <1>40, <1>41
<1>6. NULL \notin lost
  BY <1>1, <1>2
<1> HIDE DEF before
<1>7. Closed(g, lost)
  <2>1. \A a \in lost : /\ a \in Live(g) /\ g[a].kind = h[a].kind /\ g[a].first = h[a].first
                        /\ g[a].last = h[a].last /\ g[a].next = h[a].next
                        /\ g[a].previous = h[a].previous
    BY <1>0, <1>1, <1>5, <1>6 DEF Attached
  <2> QED BY <1>1, <2>1, ClosedStays
<1> QED BY <1>0, <1>1, <1>3, <1>7 DEF Trees, Attached

LEMMA TreesFree ==
  ASSUME NEW h, NEW g, NEW L, NEW lost, NEW S, NEW K, NEW loops,
         NEW s, NEW T, NEW a, Trees(h, L, lost, S, K, loops), s \in S, Without(S, s, T),
         Puts(L, s, a), Gone(h, g, a)
  PROVE  Trees(g, L, lost, T, K, loops)
<1>0. T = S \ {s} /\ Gone(h, g, L[s])
  BY DEF Without, Puts
<1>1. /\ S \subseteq Site /\ K \subseteq Site /\ L \in [Site -> Address]
      /\ Laid(h, L, S, K, loops) /\ Closed(h, lost)
      /\ Live(h) = lost \cup Image(L, S) /\ lost \cap Image(L, S) = {}
  BY DEF Trees
<1>2. Laid(g, L, S \ {s}, K, loops)
  BY <1>0, <1>1, FreeSite
<1>3. g \in Heaps /\ Live(g) = Live(h) \ {L[s]} /\ \A b \in Live(g) : g[b] = h[b]
  BY <1>0 DEF Gone
<1>4. L[s] \in Image(L, S) /\ Image(L, S \ {s}) = Image(L, S) \ {L[s]}
  BY <1>1 DEF Image, Laid, Apiece
<1>5. Closed(g, lost)
  BY <1>1, <1>3, <1>4, ClosedStays
<1> QED BY <1>0, <1>1, <1>2, <1>3, <1>4, <1>5 DEF Trees

LEMMA TreesSame ==
  ASSUME NEW h, NEW g, NEW L, NEW lost, NEW S, NEW K, NEW loops,
         Trees(h, L, lost, S, K, loops), g \in Heaps, SamePointers(h, g)
  PROVE  Trees(g, L, lost, S, K, loops)
<1>1. /\ S \subseteq Site /\ K \subseteq Site /\ L \in [Site -> Address]
      /\ Laid(h, L, S, K, loops) /\ Closed(h, lost)
      /\ Live(h) = lost \cup Image(L, S) /\ lost \cap Image(L, S) = {}
  BY DEF Trees
<1>2. Laid(g, L, S, K, loops)
  BY <1>1, SameSites
<1>3. Closed(g, lost)
  BY <1>1, ClosedStays DEF SamePointers
<1> QED BY <1>1, <1>2, <1>3 DEF Trees, SamePointers

\* T and J are what S and K have of the networks R, and the others are lost.
Splits(L, R, lost, S, K, more, T, J) ==
  more = lost \cup Image(L, OfRole(S, Role \ R)) /\ T = OfRole(S, R) /\ J = OfRole(K, R)

\* A network that nobody knows any more is lost, with all that it points to.
LEMMA TreesLose ==
  ASSUME shape \in Shapes, NEW h, NEW L, NEW lost, NEW S, NEW K, NEW R,
         NEW more, NEW T, NEW J, Trees(h, L, lost, S, K, "none"), K \subseteq S,
         Splits(L, R, lost, S, K, more, T, J)
  PROVE  Trees(h, L, more, T, J, "none")
<1> DEFINE Z == OfRole(S, R)
           Y == OfRole(S, Role \ R)
<1>1. /\ S \subseteq Site /\ K \subseteq Site /\ L \in [Site -> Address] /\ h \in Heaps
      /\ Laid(h, L, S, K, "none") /\ Closed(h, lost)
      /\ Live(h) = lost \cup Image(L, S) /\ lost \cap Image(L, S) = {}
  BY DEF Trees
<1>2. Laid(h, L, Z, OfRole(K, R), "none")
  BY <1>1, DropRoles
<1>3. \A s \in S : s[1] \in Role
  BY <1>1, SiteParts
<1>4. S = Z \cup Y /\ Z \cap Y = {}
  BY <1>3 DEF OfRole
<1>40. \A s, t \in S : L[s] = L[t] => s = t
  BY <1>1 DEF Laid, Apiece
<1>50. Image(L, S) = Image(L, Z) \cup Image(L, Y)
  <2> HIDE DEF Z, Y
  <2> QED BY <1>4 DEF Image
<1>51. Image(L, Z) \cap Image(L, Y) = {}
  <2> HIDE DEF Z, Y
  <2> SUFFICES ASSUME NEW a \in Image(L, Z), a \in Image(L, Y) PROVE FALSE
    OBVIOUS
  <2>1. PICK s \in Z, t \in Y : a = L[s] /\ a = L[t]
    BY DEF Image
  <2> QED BY <2>1, <1>4, <1>40
<1>5. Image(L, S) = Image(L, Z) \cup Image(L, Y) /\ Image(L, Z) \cap Image(L, Y) = {}
  BY <1>50, <1>51
<1>6. Closed(h, lost \cup Image(L, Y))
  <2> SUFFICES ASSUME NEW a \in lost \cup Image(L, Y)
      PROVE /\ a \in Live(h)
            /\ \A b \in {h[a].next, h[a].previous} :
                 b = NULL \/ (b \in lost \cup Image(L, Y) /\ h[b].kind = h[a].kind)
            /\ \A b \in {h[a].first, h[a].last} :
                 b = NULL \/ (b \in lost \cup Image(L, Y) /\ h[b].kind = BelowKind[h[a].kind])
    BY DEF Closed
  <2>1. CASE a \in lost
    BY <2>1, <1>1 DEF Closed
  <2>2. CASE a \in Image(L, Y)
    <3>1. PICK s \in Y : a = L[s]
      BY <2>2 DEF Image
    <3>2. s \in S /\ s \in Site /\ SiteRight(h, L, K, "none", s)
      BY <1>1, <3>1, <1>4 DEF Laid
    <3>3. /\ Child(s)[1] = s[1] /\ Onward(s)[1] = s[1] /\ Back(s)[1] = s[1]
      BY DEF Child, Onward, Back
    <3>4. \A t \in K : t[1] = s[1] => t \in Y /\ L[t] \in Image(L, Y) /\ Is(h, L[t], KindOf(t))
      BY <1>1, <3>1 DEF OfRole, Image, Laid, SiteRight
    <3>5. h[a].kind = KindOf(s) /\ a \in Live(h)
      BY <3>1, <3>2 DEF SiteRight, Is
    <3>6. h[a].next = NULL \/ (h[a].next \in Image(L, Y) /\ h[h[a].next].kind = h[a].kind)
      <4>1. CASE Onward(s) \in K
        <5>1. h[a].next = L[Onward(s)] /\ KindOf(Onward(s)) = KindOf(s)
          BY <1>1, <3>1, <3>2, <4>1, OnwardIs DEF SiteRight
        <5> QED BY <5>1, <4>1, <3>3, <3>4, <3>5 DEF Is
      <4>2. CASE Onward(s) \notin K
        BY <4>2, <3>1, <3>2 DEF SiteRight
      <4> QED BY <4>1, <4>2
    <3>7. h[a].previous = NULL \/ (h[a].previous \in Image(L, Y) /\ h[h[a].previous].kind = h[a].kind)
      <4>1. CASE s \in K /\ Index(s) > 1
        <5>1. h[a].previous = L[Back(s)] /\ KindOf(Back(s)) = KindOf(s) /\ Back(s) \in K
          BY <1>1, <3>1, <3>2, <4>1, BackIs DEF SiteRight, Laid
        <5> QED BY <5>1, <3>3, <3>4, <3>5 DEF Is
      <4>2. CASE ~(s \in K /\ Index(s) > 1)
        BY <4>2, <3>1, <3>2, <2>2 DEF SiteRight
      <4> QED BY <4>1, <4>2
    <3>8. h[a].first = NULL \/ (h[a].first \in Image(L, Y) /\ h[h[a].first].kind = BelowKind[h[a].kind])
      <4>1. CASE Child(s) \in K
        <5>1. h[a].first = L[Child(s)] /\ KindOf(Child(s)) = BelowKind[KindOf(s)]
          BY <1>1, <3>1, <3>2, <4>1, ChildIs DEF SiteRight
        <5> QED BY <5>1, <4>1, <3>3, <3>4, <3>5 DEF Is
      <4>2. CASE Child(s) \notin K
        BY <4>2, <3>1, <3>2 DEF SiteRight
      <4> QED BY <4>1, <4>2
    <3>9. h[a].last = NULL \/ (h[a].last \in Image(L, Y) /\ h[h[a].last].kind = BelowKind[h[a].kind])
      <4>1. CASE Child(s) \in K
        <5>1. PICK t \in K : Index(t) > 0 /\ Up(t) = s /\ h[a].last = L[t]
          BY <3>1, <3>2, <4>1 DEF SiteRight
        <5>2. t[1] = s[1] /\ KindOf(t) = BelowKind[KindOf(s)]
          BY <1>1, <5>1, UpIs
        <5> QED BY <5>1, <5>2, <3>4, <3>5 DEF Is
      <4>2. CASE Child(s) \notin K
        BY <4>2, <3>1, <3>2 DEF SiteRight
      <4> QED BY <4>1, <4>2
    <3> QED BY <3>5, <3>6, <3>7, <3>8, <3>9
  <2> QED BY <2>1, <2>2
<1> HIDE DEF Z, Y
<1>7. OfRole(K, R) \subseteq Site /\ Z \subseteq Site
  BY <1>1 DEF OfRole, Z
<1>8. T = Z /\ J = OfRole(K, R) /\ more = lost \cup Image(L, Y)
  BY DEF Splits, Z, Y
<1> QED BY <1>1, <1>2, <1>4, <1>5, <1>6, <1>7, <1>8 DEF Trees

\* Every pointer of a tree is to a node that was freed or is of the right kind.
LEMMA TreesAreTyped ==
  ASSUME shape \in Shapes, NEW L, NEW lost, NEW S, NEW K, NEW loops,
         Trees(heap, L, lost, S, K, loops)
  PROVE  ListsTypeOK
<1>1. /\ S \subseteq Site /\ K \subseteq Site /\ L \in [Site -> Address] /\ heap \in Heaps
      /\ Laid(heap, L, S, K, loops) /\ Closed(heap, lost)
      /\ Live(heap) = lost \cup Image(L, S)
  BY DEF Trees
<1>2. Allocated = Live(heap)
  BY DEF Allocated, Live
<1>3. \A t \in K : heap[L[t]] = Freed \/ heap[L[t]].kind = KindOf(t)
  BY DEF Laid, SiteRight, Is, Trees
<1> SUFFICES ASSUME NEW a \in Live(heap)
             PROVE  /\ \A b \in {heap[a].next, heap[a].previous} : IsKind(b, heap[a].kind)
                    /\ \A b \in {heap[a].first, heap[a].last} : IsKind(b, BelowKind[heap[a].kind])
  BY <1>2 DEF ListsTypeOK
<1>4. CASE a \in lost
  BY <1>1, <1>4 DEF Closed, IsKind
<1>5. CASE a \in Image(L, S)
  <2>1. PICK s \in S : a = L[s]
    BY <1>5 DEF Image
  <2>2. s \in Site /\ SiteRight(heap, L, K, loops, s) /\ heap[a].kind = KindOf(s)
    BY <1>1, <2>1 DEF Laid, SiteRight, Is
  <2>3. IsKind(heap[a].next, heap[a].kind)
    <3>1. CASE Onward(s) \in K
      <4>1. heap[a].next = L[Onward(s)] /\ KindOf(Onward(s)) = KindOf(s)
        BY <1>1, <2>1, <2>2, <3>1, OnwardIs DEF SiteRight
      <4> QED BY <4>1, <3>1, <1>3, <2>2 DEF IsKind
    <3>2. CASE Onward(s) \notin K
      BY <3>2, <2>1, <2>2 DEF SiteRight, IsKind
    <3> QED BY <3>1, <3>2
  <2>4. IsKind(heap[a].previous, heap[a].kind)
    <3>1. CASE s \in K /\ Index(s) > 1
      <4>1. heap[a].previous = L[Back(s)] /\ KindOf(Back(s)) = KindOf(s) /\ Back(s) \in K
        BY <1>1, <2>1, <2>2, <3>1, BackIs DEF SiteRight, Laid
      <4> QED BY <4>1, <1>3, <2>2 DEF IsKind
    <3>2. CASE ~(s \in K /\ Index(s) > 1)
      BY <3>2, <2>1, <2>2 DEF SiteRight, IsKind
    <3> QED BY <3>1, <3>2
  <2>5. IsKind(heap[a].first, BelowKind[heap[a].kind])
    <3>1. CASE Child(s) \in K
      <4>1. heap[a].first = L[Child(s)] /\ KindOf(Child(s)) = BelowKind[KindOf(s)]
        BY <1>1, <2>1, <2>2, <3>1, ChildIs DEF SiteRight
      <4> QED BY <4>1, <3>1, <1>3, <2>2 DEF IsKind
    <3>2. CASE Child(s) \notin K
      BY <3>2, <2>1, <2>2 DEF SiteRight, IsKind
    <3> QED BY <3>1, <3>2
  <2>6. IsKind(heap[a].last, BelowKind[heap[a].kind])
    <3>1. CASE Child(s) \in K
      <4>1. PICK t \in K : Index(t) > 0 /\ Up(t) = s /\ heap[a].last = L[t]
        BY <2>1, <2>2, <3>1 DEF SiteRight
      <4>2. KindOf(t) = BelowKind[KindOf(s)]
        BY <1>1, <4>1, UpIs
      <4> QED BY <4>1, <4>2, <1>3, <2>2 DEF IsKind
    <3>2. CASE Child(s) \notin K
      BY <3>2, <2>1, <2>2 DEF SiteRight, IsKind
    <3> QED BY <3>1, <3>2
  <2> QED BY <2>3, <2>4, <2>5, <2>6
<1> QED BY <1>1, <1>4, <1>5

-----------------------------------------------------------------------------
(* The sites that there are while a network is built, copied or freed.       *)

\* All of the networks of R, and those of one that come no later than weight k of
\* neuron j of layer i.
Complete(R) == {s \in Site : s[1] \in R}
Upto(r, i, j, k) ==
  {s \in Site : s[1] = r /\ (s[2] < i \/ (s[2] = i /\ (s[3] < j \/ (s[3] = j /\ s[4] <= k))))}
\* What is left of the global network when weight k of neuron j of layer i is freed next.
Rest(i, j, k) ==
  {s \in Site : s[1] = "global" /\
     (s[2] = 0 \/ s[2] > i \/ (s[2] = i /\ (s[3] = 0 \/ s[3] > j \/ (s[3] = j /\ (s[4] = 0 \/ s[4] >= k)))))}
\* Those of them that have a parent.
Linked(S) == {s \in S : Index(s) > 0}

\* Where a network that grows has got to, in numbers.
OnPlace(i, j, k) ==
  /\ i \in Nat /\ j \in Nat /\ k \in Nat /\ i <= Len(shape) /\ j <= NeuronsIn(i)
  /\ k <= IF j = 0 THEN 0 ELSE WeightsIn(i)
FullNeuron(i, j, k) == j # 0 => k = WeightsIn(i)
FullLayer(i, j, k) == i # 0 => j = NeuronsIn(i) /\ FullNeuron(i, j, k)

LEMMA GrownUnion == ASSUME NEW S, NEW T, Grown(S), Grown(T) PROVE Grown(S \cup T)
BY DEF Grown

LEMMA GrownComplete == ASSUME shape \in Shapes, NEW R PROVE Grown(Complete(R))
BY UpIs DEF Grown, Complete

LEMMA GrownUpto ==
  ASSUME shape \in Shapes, NEW r, NEW i \in Nat, NEW j \in Nat, NEW k \in Nat
  PROVE  Grown(Upto(r, i, j, k))
<1> SUFFICES ASSUME NEW s \in Upto(r, i, j, k), Index(s) > 0 PROVE Up(s) \in Upto(r, i, j, k)
  BY DEF Grown, Upto
<1>1. s \in Site /\ Up(s) \in Site /\ s[1] = r
  BY UpIs DEF Upto
<1>2. /\ s[2] \in Nat /\ s[3] \in Nat /\ s[4] \in Nat
      /\ s[2] < i \/ (s[2] = i /\ (s[3] < j \/ (s[3] = j /\ s[4] <= k)))
  BY <1>1, SiteParts DEF Upto
<1> DEFINE u == Up(s)
<1>3. /\ u[1] = r
      /\ (s[4] > 0 => u[2] = s[2] /\ u[3] = s[3] /\ u[4] = 0)
      /\ (s[4] = 0 /\ s[3] > 0 => u[2] = s[2] /\ u[3] = 0 /\ u[4] = 0)
      /\ (s[4] = 0 /\ s[3] = 0 => u[2] = 0 /\ u[3] = 0 /\ u[4] = 0)
  BY <1>1, <1>2 DEF Up
<1>4. s[4] = 0 /\ s[3] = 0 => s[2] > 0
  BY <1>2 DEF Index
<1> HIDE DEF u
<1>5. u[2] < i \/ (u[2] = i /\ (u[3] < j \/ (u[3] = j /\ u[4] <= k)))
  BY <1>2, <1>3, <1>4
<1> QED BY <1>1, <1>3, <1>5 DEF Upto, u

LEMMA BackUpto ==
  ASSUME shape \in Shapes, NEW r, NEW i \in Nat, NEW j \in Nat, NEW k \in Nat,
         NEW s \in Upto(r, i, j, k), Index(s) > 1
  PROVE  Back(s) \in Linked(Upto(r, i, j, k))
<1>1. s \in Site /\ Back(s) \in Site /\ s[1] = r
  BY BackIs DEF Upto
<1>2. /\ s[2] \in Nat /\ s[3] \in Nat /\ s[4] \in Nat
      /\ s[2] < i \/ (s[2] = i /\ (s[3] < j \/ (s[3] = j /\ s[4] <= k)))
  BY <1>1, SiteParts DEF Upto
<1> DEFINE u == Back(s)
<1>3. /\ u[1] = r
      /\ (s[4] > 0 => u[2] = s[2] /\ u[3] = s[3] /\ u[4] = s[4] - 1)
      /\ (s[4] = 0 /\ s[3] > 0 => u[2] = s[2] /\ u[3] = s[3] - 1 /\ u[4] = 0)
      /\ (s[4] = 0 /\ s[3] = 0 => u[2] = s[2] - 1 /\ u[3] = 0 /\ u[4] = 0)
  BY <1>1, <1>2 DEF Back
<1>4. /\ (s[4] > 0 => s[4] > 1) /\ (s[4] = 0 /\ s[3] > 0 => s[3] > 1)
      /\ (s[4] = 0 /\ s[3] = 0 => s[2] > 1)
  BY <1>2 DEF Index
<1> HIDE DEF u
<1>5. u[2] < i \/ (u[2] = i /\ (u[3] < j \/ (u[3] = j /\ u[4] <= k)))
  BY <1>2, <1>3, <1>4
<1>6. Index(u) > 0
  BY <1>2, <1>3, <1>4 DEF Index
<1> QED BY <1>1, <1>3, <1>5, <1>6 DEF Upto, u, Linked

LEMMA BackComplete ==
  ASSUME shape \in Shapes, NEW R, NEW s \in Complete(R), Index(s) > 1
  PROVE  Back(s) \in Linked(Complete(R))
<1>1. s \in Site /\ Back(s) \in Site /\ Back(s)[1] \in R /\ Onward(Back(s)) = s
  BY BackIs DEF Complete
<1>2. Index(Back(s)) > 0
  BY <1>1, OnwardIs
<1> QED BY <1>1, <1>2 DEF Linked, Complete

\* In a complete network every list has a second node.
LEMMA NoSingleSites ==
  ASSUME shape \in Shapes, NEW R, NEW s \in Complete(R), Index(s) = 1
  PROVE  Onward(s) \in Linked(Complete(R))
<1> DEFINE r == s[1]
           l == s[2]
           n == s[3]
           w == s[4]
<1>1. /\ s = <<r, l, n, w>> /\ r \in Role /\ l \in Nat /\ n \in Nat /\ w \in Nat
      /\ l <= Len(shape) /\ n <= NeuronsIn(l) /\ w <= (IF n = 0 THEN 0 ELSE WeightsIn(l))
      /\ s \in Site /\ r \in R
  BY SiteParts DEF Complete
<1>2. NeuronsIn(0) = 0 /\ (n > 0 => l > 0) /\ (w > 0 => n > 0)
  BY <1>1 DEF NeuronsIn
<1>3. l > 0 => /\ NeuronsIn(l) \in Nat /\ NeuronsIn(l) > 1
               /\ WeightsIn(l) \in Nat /\ (WeightsIn(l) = 0 \/ WeightsIn(l) > 1)
  BY <1>1, SiteSizes
<1>4. Onward(s) \in Site
  <2>1. CASE w > 0
    <3>1. Onward(s) = <<r, l, n, 2>> /\ w = 1 /\ n > 0 /\ WeightsIn(l) > 1
      BY <2>1, <1>1, <1>2, <1>3 DEF Onward, Index
    <3> QED BY <3>1, <1>1, <1>2, <1>3, SiteIs
  <2>2. CASE w = 0 /\ n > 0
    <3>1. Onward(s) = <<r, l, 2, 0>>
      BY <2>2, <1>1 DEF Onward, Index
    <3> QED BY <3>1, <2>2, <1>1, <1>2, <1>3, SiteIs
  <2>3. CASE w = 0 /\ n = 0
    <3>1. Onward(s) = <<r, 2, 0, 0>>
      BY <2>3, <1>1 DEF Onward, Index
    <3>2. NeuronsIn(2) \in Nat /\ 2 <= Len(shape)
      BY SiteSizes
    <3> QED BY <3>1, <3>2, <1>1, SiteIs
  <2> QED BY <2>1, <2>2, <2>3, <1>1
<1>5. Index(Onward(s)) = 2 /\ Onward(s)[1] = r
  BY <1>1, <1>4, OnwardIs
<1> QED BY <1>1, <1>4, <1>5 DEF Linked, Complete

LEMMA UptoRoot ==
  ASSUME shape \in Shapes, NEW r \in Role
  PROVE  Upto(r, 0, 0, 0) = {<<r, 0, 0, 0>>} /\ <<r, 0, 0, 0>> \in Site
<1>1. <<r, 0, 0, 0>> \in Site
  BY SiteIs, SiteSizes
<1>2. ASSUME NEW s \in Upto(r, 0, 0, 0) PROVE s = <<r, 0, 0, 0>>
  <2>1. s \in Site /\ s[1] = r /\ s[2] \in Nat /\ s[3] \in Nat /\ s[4] \in Nat
        /\ s = <<s[1], s[2], s[3], s[4]>>
    BY <1>2, SiteParts DEF Upto
  <2>2. s[2] < 0 \/ (s[2] = 0 /\ (s[3] < 0 \/ (s[3] = 0 /\ s[4] <= 0)))
    BY <1>2 DEF Upto
  <2> QED BY <2>1, <2>2
<1>3. <<r, 0, 0, 0>> \in Upto(r, 0, 0, 0)
  BY <1>1 DEF Upto
<1> QED BY <1>1, <1>2, <1>3

\* The next layer, neuron and weight of a network that grows.
LEMMA UptoLayer ==
  ASSUME shape \in Shapes, NEW r \in Role, NEW i, NEW j, NEW k,
         OnPlace(i, j, k), FullLayer(i, j, k), i < Len(shape)
  PROVE  LET s == <<r, i + 1, 0, 0>>
         IN /\ s \in Site /\ s \notin Upto(r, i, j, k) /\ OnPlace(i + 1, 0, 0)
            /\ Upto(r, i + 1, 0, 0) = Upto(r, i, j, k) \cup {s}
<1> DEFINE s == <<r, i + 1, 0, 0>>
<1>1. /\ i \in Nat /\ j \in Nat /\ k \in Nat /\ i <= Len(shape) /\ j <= NeuronsIn(i)
      /\ (i # 0 => j = NeuronsIn(i)) /\ NeuronsIn(0) = 0
      /\ Len(shape) \in Nat
  BY SiteSizes DEF OnPlace, FullLayer
<1>2. NeuronsIn(i + 1) \in Nat
  BY <1>1, SiteSizes
<1>3. s \in Site /\ OnPlace(i + 1, 0, 0)
  BY <1>1, <1>2, SiteIs DEF OnPlace
<1>4. s \notin Upto(r, i, j, k)
  BY <1>1 DEF Upto
<1>5. ASSUME NEW t \in Site, t[1] = r
      PROVE  t \in Upto(r, i + 1, 0, 0) <=> t \in Upto(r, i, j, k) \/ t = s
  <2>1. /\ t = <<r, t[2], t[3], t[4]>> /\ t[2] \in Nat /\ t[3] \in Nat /\ t[4] \in Nat
        /\ t[3] <= NeuronsIn(t[2]) /\ t[4] <= (IF t[3] = 0 THEN 0 ELSE WeightsIn(t[2]))
    BY <1>5, SiteParts
  <2>2. t \in Upto(r, i + 1, 0, 0) <=> t[2] <= i \/ (t[2] = i + 1 /\ t[3] = 0 /\ t[4] = 0)
    BY <1>1, <1>5, <2>1 DEF Upto
  <2>3. t \in Upto(r, i, j, k) <=> t[2] < i \/ (t[2] = i /\ (t[3] < j \/ (t[3] = j /\ t[4] <= k)))
    BY <1>5 DEF Upto
  <2>4. t[2] = i => t[3] < j \/ (t[3] = j /\ t[4] <= k)
    <3> HAVE t[2] = i
    <3>1. CASE i = 0
      BY <3>1, <1>1, <2>1
    <3>2. CASE i # 0
      <4>1. j = NeuronsIn(i) /\ j > 0 /\ k = WeightsIn(i)
        BY <3>2, <1>1, SiteSizes DEF FullLayer, FullNeuron
      <4>2. k \in Nat
        BY <1>1
      <4>3. t[3] <= j /\ t[4] <= (IF t[3] = 0 THEN 0 ELSE k)
        BY <4>1, <2>1
      <4> QED BY <4>1, <4>2, <4>3, <1>1, <2>1
    <3> QED BY <3>1, <3>2
  <2>5. t = s <=> t[2] = i + 1 /\ t[3] = 0 /\ t[4] = 0
    BY <2>1
  <2> HIDE DEF s
  <2> QED BY <1>1, <2>1, <2>2, <2>3, <2>4, <2>5
<1>6. s[1] = r
  OBVIOUS
<1>7. \A t : t \in Upto(r, i + 1, 0, 0) \cup Upto(r, i, j, k) => t \in Site /\ t[1] = r
  BY DEF Upto
<1> HIDE DEF s
<1>8. Upto(r, i + 1, 0, 0) = Upto(r, i, j, k) \cup {s}
  BY <1>3, <1>5, <1>6, <1>7
<1> QED BY <1>3, <1>4, <1>8 DEF s

LEMMA UptoNeuron ==
  ASSUME shape \in Shapes, NEW r \in Role, NEW i, NEW j, NEW k,
         OnPlace(i, j, k), FullNeuron(i, j, k), i # 0, j < NeuronsIn(i)
  PROVE  LET s == <<r, i, j + 1, 0>>
         IN /\ s \in Site /\ s \notin Upto(r, i, j, k) /\ OnPlace(i, j + 1, 0)
            /\ Upto(r, i, j + 1, 0) = Upto(r, i, j, k) \cup {s}
<1> DEFINE s == <<r, i, j + 1, 0>>
<1>1. /\ i \in Nat /\ j \in Nat /\ k \in Nat /\ i <= Len(shape) /\ j < NeuronsIn(i)
      /\ NeuronsIn(i) \in Nat /\ WeightsIn(i) \in Nat
      /\ (j # 0 => k = WeightsIn(i)) /\ (j = 0 => k = 0)
      /\ Len(shape) \in Nat
  BY SiteSizes DEF OnPlace, FullNeuron
<1>3. s \in Site /\ OnPlace(i, j + 1, 0)
  BY <1>1, SiteIs DEF OnPlace
<1>4. s \notin Upto(r, i, j, k)
  BY <1>1 DEF Upto
<1>5. ASSUME NEW t \in Site, t[1] = r
      PROVE  t \in Upto(r, i, j + 1, 0) <=> t \in Upto(r, i, j, k) \/ t = s
  <2>1. /\ t = <<r, t[2], t[3], t[4]>> /\ t[2] \in Nat /\ t[3] \in Nat /\ t[4] \in Nat
        /\ t[3] <= NeuronsIn(t[2]) /\ t[4] <= (IF t[3] = 0 THEN 0 ELSE WeightsIn(t[2]))
    BY <1>5, SiteParts
  <2>2. t \in Upto(r, i, j + 1, 0) <=>
          t[2] < i \/ (t[2] = i /\ (t[3] <= j \/ (t[3] = j + 1 /\ t[4] = 0)))
    BY <1>1, <1>5, <2>1 DEF Upto
  <2>3. t \in Upto(r, i, j, k) <=> t[2] < i \/ (t[2] = i /\ (t[3] < j \/ (t[3] = j /\ t[4] <= k)))
    BY <1>5 DEF Upto
  <2>4. t[2] = i /\ t[3] = j => t[4] <= k
    BY <1>1, <2>1
  <2>5. t = s <=> t[2] = i /\ t[3] = j + 1 /\ t[4] = 0
    BY <2>1
  <2> HIDE DEF s
  <2> QED BY <1>1, <2>1, <2>2, <2>3, <2>4, <2>5
<1>6. s[1] = r
  OBVIOUS
<1>7. \A t : t \in Upto(r, i, j + 1, 0) \cup Upto(r, i, j, k) => t \in Site /\ t[1] = r
  BY DEF Upto
<1> HIDE DEF s
<1>8. Upto(r, i, j + 1, 0) = Upto(r, i, j, k) \cup {s}
  BY <1>3, <1>5, <1>6, <1>7
<1> QED BY <1>3, <1>4, <1>8 DEF s

LEMMA UptoWeight ==
  ASSUME shape \in Shapes, NEW r \in Role, NEW i, NEW j, NEW k,
         OnPlace(i, j, k), j # 0, k < WeightsIn(i)
  PROVE  LET s == <<r, i, j, k + 1>>
         IN /\ s \in Site /\ s \notin Upto(r, i, j, k) /\ OnPlace(i, j, k + 1)
            /\ Upto(r, i, j, k + 1) = Upto(r, i, j, k) \cup {s}
<1> DEFINE s == <<r, i, j, k + 1>>
<1>1. /\ i \in Nat /\ j \in Nat /\ k \in Nat /\ i <= Len(shape) /\ j <= NeuronsIn(i)
      /\ NeuronsIn(i) \in Nat /\ WeightsIn(i) \in Nat
      /\ Len(shape) \in Nat
  <2>1. NeuronsIn(0) = 0
    BY DEF NeuronsIn
  <2> QED BY <2>1, SiteSizes DEF OnPlace
<1>3. s \in Site /\ OnPlace(i, j, k + 1)
  BY <1>1, SiteIs DEF OnPlace
<1>4. s \notin Upto(r, i, j, k)
  BY <1>1 DEF Upto
<1>5. ASSUME NEW t \in Site, t[1] = r
      PROVE  t \in Upto(r, i, j, k + 1) <=> t \in Upto(r, i, j, k) \/ t = s
  <2>1. t = <<r, t[2], t[3], t[4]>> /\ t[2] \in Nat /\ t[3] \in Nat /\ t[4] \in Nat
    BY <1>5, SiteParts
  <2>2. t \in Upto(r, i, j, k + 1) <=>
          t[2] < i \/ (t[2] = i /\ (t[3] < j \/ (t[3] = j /\ t[4] <= k + 1)))
    BY <1>5 DEF Upto
  <2>3. t \in Upto(r, i, j, k) <=> t[2] < i \/ (t[2] = i /\ (t[3] < j \/ (t[3] = j /\ t[4] <= k)))
    BY <1>5 DEF Upto
  <2>5. t = s <=> t[2] = i /\ t[3] = j /\ t[4] = k + 1
    BY <2>1
  <2> HIDE DEF s
  <2> QED BY <1>1, <2>1, <2>2, <2>3, <2>5
<1>6. s[1] = r
  OBVIOUS
<1>7. \A t : t \in Upto(r, i, j, k + 1) \cup Upto(r, i, j, k) => t \in Site /\ t[1] = r
  BY DEF Upto
<1> HIDE DEF s
<1>8. Upto(r, i, j, k + 1) = Upto(r, i, j, k) \cup {s}
  BY <1>3, <1>5, <1>6, <1>7
<1> QED BY <1>3, <1>4, <1>8 DEF s

\* A network whose last layer is full is complete.
LEMMA UptoAll ==
  ASSUME shape \in Shapes, NEW r \in Role, NEW i, NEW j, NEW k,
         OnPlace(i, j, k), FullLayer(i, j, k), i = Len(shape)
  PROVE  Upto(r, i, j, k) = Complete({r})
<1>1. /\ i \in Nat /\ i > 1 /\ j = NeuronsIn(i) /\ j > 0 /\ k = WeightsIn(i) /\ j \in Nat /\ k \in Nat
  BY SiteSizes DEF OnPlace, FullLayer, FullNeuron
<1>2. ASSUME NEW t \in Site, t[1] = r PROVE t \in Upto(r, i, j, k)
  <2>1. /\ t[2] \in Nat /\ t[3] \in Nat /\ t[4] \in Nat /\ t[2] <= i
        /\ t[3] <= NeuronsIn(t[2]) /\ t[4] <= (IF t[3] = 0 THEN 0 ELSE WeightsIn(t[2]))
    BY <1>2, SiteParts
  <2>2. t[2] < i \/ (t[2] = i /\ (t[3] < j \/ (t[3] = j /\ t[4] <= k)))
    BY <1>1, <2>1
  <2> QED BY <1>2, <2>2 DEF Upto
<1> QED BY <1>2 DEF Upto, Complete


\* What is left of a network that is freed, from all of it to its root.
LEMMA RestStart == ASSUME shape \in Shapes PROVE Rest(1, 1, 1) = Complete({"global"})
<1>1. ASSUME NEW s \in Site, s[1] = "global" PROVE s \in Rest(1, 1, 1)
  <2>1. s[2] \in Nat /\ s[3] \in Nat /\ s[4] \in Nat
    BY SiteParts
  <2> QED BY <1>1, <2>1 DEF Rest
<1> QED BY <1>1 DEF Rest, Complete

LEMMA RestWeight ==
  ASSUME shape \in Shapes, NEW i \in 1..Len(shape), NEW j \in 1..NeuronsIn(i),
         NEW k \in 1..WeightsIn(i)
  PROVE  LET s == <<"global", i, j, k>>
         IN s \in Rest(i, j, k) /\ Rest(i, j, k + 1) = Rest(i, j, k) \ {s}
<1> DEFINE s == <<"global", i, j, k>>
<1>0. Len(shape) \in Nat /\ NeuronsIn(i) \in Nat /\ WeightsIn(i) \in Nat /\ "global" \in Role
  BY SiteSizes DEF Role
<1>1. i \in Nat /\ j \in Nat /\ k \in Nat /\ s \in Site
  BY <1>0, SiteIs
<1>2. s \in Rest(i, j, k)
  BY <1>1 DEF Rest
<1>3. ASSUME NEW t \in Site, t[1] = "global"
      PROVE  t \in Rest(i, j, k + 1) <=> t \in Rest(i, j, k) /\ t # s
  <2>1. t = <<"global", t[2], t[3], t[4]>> /\ t[2] \in Nat /\ t[3] \in Nat /\ t[4] \in Nat
    BY <1>3, SiteParts
  <2>2. t = s <=> t[2] = i /\ t[3] = j /\ t[4] = k
    BY <2>1
  <2>3. t \in Rest(i, j, k) <=>
          t[2] = 0 \/ t[2] > i \/ (t[2] = i /\ (t[3] = 0 \/ t[3] > j \/ (t[3] = j /\ (t[4] = 0 \/ t[4] >= k))))
    BY <1>3 DEF Rest
  <2>4. t \in Rest(i, j, k + 1) <=>
          t[2] = 0 \/ t[2] > i \/ (t[2] = i /\ (t[3] = 0 \/ t[3] > j \/ (t[3] = j /\ (t[4] = 0 \/ t[4] >= k + 1))))
    BY <1>3 DEF Rest
  <2> HIDE DEF s
  <2> QED BY <1>1, <2>1, <2>2, <2>3, <2>4
<1>4. \A t : t \in Rest(i, j, k) \cup Rest(i, j, k + 1) => t \in Site /\ t[1] = "global"
  BY DEF Rest
<1> HIDE DEF s
<1>5. Rest(i, j, k + 1) = Rest(i, j, k) \ {s}
  BY <1>3, <1>4
<1> QED BY <1>2, <1>5 DEF s

LEMMA RestNeuron ==
  ASSUME shape \in Shapes, NEW i \in 1..Len(shape), NEW j \in 1..NeuronsIn(i)
  PROVE  LET s == <<"global", i, j, 0>>
             k == WeightsIn(i) + 1
         IN s \in Rest(i, j, k) /\ Rest(i, j + 1, 1) = Rest(i, j, k) \ {s}
<1> DEFINE s == <<"global", i, j, 0>>
           k == WeightsIn(i) + 1
<1>0. Len(shape) \in Nat /\ NeuronsIn(i) \in Nat /\ WeightsIn(i) \in Nat /\ "global" \in Role
  BY SiteSizes DEF Role
<1>1. i \in Nat /\ j \in Nat /\ WeightsIn(i) \in Nat /\ k \in Nat /\ k > WeightsIn(i) /\ s \in Site
  BY <1>0, SiteIs
<1>2. s \in Rest(i, j, k)
  BY <1>1 DEF Rest
<1>3. ASSUME NEW t \in Site, t[1] = "global"
      PROVE  t \in Rest(i, j + 1, 1) <=> t \in Rest(i, j, k) /\ t # s
  <2>1. /\ t = <<"global", t[2], t[3], t[4]>> /\ t[2] \in Nat /\ t[3] \in Nat /\ t[4] \in Nat
        /\ t[4] <= (IF t[3] = 0 THEN 0 ELSE WeightsIn(t[2]))
    BY <1>3, SiteParts
  <2>2. t = s <=> t[2] = i /\ t[3] = j /\ t[4] = 0
    BY <2>1
  <2>3. t \in Rest(i, j, k) <=>
          t[2] = 0 \/ t[2] > i \/ (t[2] = i /\ (t[3] = 0 \/ t[3] > j \/ (t[3] = j /\ (t[4] = 0 \/ t[4] >= k))))
    BY <1>3 DEF Rest
  <2>4. t \in Rest(i, j + 1, 1) <=>
          t[2] = 0 \/ t[2] > i \/ (t[2] = i /\ (t[3] = 0 \/ t[3] > j + 1 \/ (t[3] = j + 1 /\ (t[4] = 0 \/ t[4] >= 1))))
    BY <1>3 DEF Rest
  <2>5. t[2] = i => t[4] < k
    BY <1>1, <2>1
  <2> HIDE DEF s, k
  <2> QED BY <1>1, <2>1, <2>2, <2>3, <2>4, <2>5
<1>4. \A t : t \in Rest(i, j, k) \cup Rest(i, j + 1, 1) => t \in Site /\ t[1] = "global"
  BY DEF Rest
<1> HIDE DEF s, k
<1>5. Rest(i, j + 1, 1) = Rest(i, j, k) \ {s}
  BY <1>3, <1>4
<1> QED BY <1>2, <1>5 DEF s, k

LEMMA RestLayer ==
  ASSUME shape \in Shapes, NEW i \in 1..Len(shape)
  PROVE  LET s == <<"global", i, 0, 0>>
             j == NeuronsIn(i) + 1
         IN s \in Rest(i, j, 1) /\ Rest(i + 1, 1, 1) = Rest(i, j, 1) \ {s}
<1> DEFINE s == <<"global", i, 0, 0>>
           j == NeuronsIn(i) + 1
<1>1. i \in Nat /\ NeuronsIn(i) \in Nat /\ j \in Nat /\ j > NeuronsIn(i) /\ j > 0 /\ s \in Site
  BY SiteIs, SiteSizes DEF Role
<1>2. s \in Rest(i, j, 1)
  BY <1>1 DEF Rest
<1>3. ASSUME NEW t \in Site, t[1] = "global"
      PROVE  t \in Rest(i + 1, 1, 1) <=> t \in Rest(i, j, 1) /\ t # s
  <2>1. /\ t = <<"global", t[2], t[3], t[4]>> /\ t[2] \in Nat /\ t[3] \in Nat /\ t[4] \in Nat
        /\ t[4] <= (IF t[3] = 0 THEN 0 ELSE WeightsIn(t[2])) /\ t[3] <= NeuronsIn(t[2])
    BY <1>3, SiteParts
  <2>2. t = s <=> t[2] = i /\ t[3] = 0 /\ t[4] = 0
    BY <2>1
  <2>3. t \in Rest(i, j, 1) <=>
          t[2] = 0 \/ t[2] > i \/ (t[2] = i /\ (t[3] = 0 \/ t[3] > j \/ (t[3] = j /\ (t[4] = 0 \/ t[4] >= 1))))
    BY <1>3 DEF Rest
  <2>4. t \in Rest(i + 1, 1, 1) <=>
          t[2] = 0 \/ t[2] > i + 1 \/ (t[2] = i + 1 /\ (t[3] = 0 \/ t[3] > 1 \/ (t[3] = 1 /\ (t[4] = 0 \/ t[4] >= 1))))
    BY <1>3 DEF Rest
  <2>5. t[2] = i => t[3] < j
    BY <1>1, <2>1
  <2>6. t[3] = 0 => t[4] = 0
    BY <2>1
  <2> HIDE DEF s, j
  <2> QED BY <1>1, <2>1, <2>2, <2>3, <2>4, <2>5, <2>6
<1>4. \A t : t \in Rest(i, j, 1) \cup Rest(i + 1, 1, 1) => t \in Site /\ t[1] = "global"
  BY DEF Rest
<1> HIDE DEF s, j
<1>5. Rest(i + 1, 1, 1) = Rest(i, j, 1) \ {s}
  BY <1>3, <1>4
<1> QED BY <1>2, <1>5 DEF s, j

LEMMA RestEnd ==
  ASSUME shape \in Shapes
  PROVE  Rest(Len(shape) + 1, 1, 1) = {<<"global", 0, 0, 0>>}
<1> DEFINE s == <<"global", 0, 0, 0>>
<1>1. Len(shape) \in Nat /\ NeuronsIn(0) = 0 /\ s \in Site
  BY SiteIs, SiteSizes DEF Role
<1>2. s \in Rest(Len(shape) + 1, 1, 1)
  BY <1>1 DEF Rest
<1>3. ASSUME NEW t \in Rest(Len(shape) + 1, 1, 1) PROVE t = s
  <2>1. t \in Site /\ t[1] = "global"
    BY <1>3 DEF Rest
  <2>2. /\ t = <<"global", t[2], t[3], t[4]>> /\ t[2] \in Nat /\ t[3] \in Nat /\ t[4] \in Nat
        /\ t[2] <= Len(shape) /\ t[3] <= NeuronsIn(t[2])
        /\ t[4] <= (IF t[3] = 0 THEN 0 ELSE WeightsIn(t[2]))
    BY <2>1, SiteParts
  <2>3. t[2] = 0 \/ t[2] >= Len(shape) + 1
    BY <1>1, <1>3, <2>2 DEF Rest
  <2> QED BY <1>1, <2>2, <2>3
<1> QED BY <1>2, <1>3


-----------------------------------------------------------------------------
(* What is in the heap while nothing runs, while a network is built, while   *)
(* the global one is freed, and while the sum is copied.                     *)

\* The address of a site, NULL for a place that no network has.
At(L, s) == IF s \in Site THEN L[s] ELSE NULL

\* The networks that the program knows, by their roots.
Roots(gl, co, cl, L, R) ==
  /\ gl = IF "global" \in R THEN L[<<"global", 0, 0, 0>>] ELSE NULL
  /\ co = IF "control" \in R THEN L[<<"control", 0, 0, 0>>] ELSE NULL
  /\ cl = IF "client" \in R THEN L[<<"client", 0, 0, 0>>] ELSE NULL

\* The models that were lost in n rounds, one in each.
Size == Cardinality(Complete({"control"}))
Lost(lost, n) == IF n = 0 THEN lost = {} ELSE IsFiniteSet(lost) /\ Cardinality(lost) = n * Size

\* The biases and weights of a complete network.
Content(h, L, r) ==
  [i \in 1..Len(shape) |-> [j \in 1..NeuronsIn(i) |->
     <<h[L[<<r, i, j, 0>>]].value, [k \in 1..WeightsIn(i) |-> h[L[<<r, i, j, k>>]].value]>>]]

\* Between two calls, and at each point of a build, a free and a copy.
RestingAt(h, gl, co, cl, v, n, L, R, lost) ==
  /\ Trees(h, L, lost, Complete(R), Linked(Complete(R)), "none")
  /\ Roots(gl, co, cl, L, R) /\ Lost(lost, n)
  /\ n > 0 => {"global", "control"} \subseteq R /\ v = Content(h, L, "global")

GrowingAt(h, gl, co, cl, d, v, n, L, R, lost, r) ==
  LET S == Complete(R) \cup Upto(r, d.layers, d.neurons, d.weights)
  IN /\ r \notin R /\ OnPlace(d.layers, d.neurons, d.weights)
     /\ Trees(h, L, lost, S, Linked(S), "none")
     /\ Roots(gl, co, cl, L, R \cup {r}) /\ d.network = L[<<r, 0, 0, 0>>]
     /\ Lost(lost, n)
     /\ n > 0 => {"global", "control"} \subseteq R /\ v = Content(h, L, "global")

LeavingAt(h, co, d, v, n, L, lost, i, j, k) ==
  /\ Trees(h, L, lost, Complete({"control"}) \cup Rest(i, j, k),
           Linked(Complete({"control", "global"})), "none")
  /\ co = L[<<"control", 0, 0, 0>>] /\ d.network = L[<<"global", 0, 0, 0>>]
  /\ Lost(lost, n + 1) /\ v = Content(h, L, "control")
  /\ i \in 1..Len(shape) + 1 /\ d.layer = At(L, <<"global", i, 0, 0>>)
  /\ IF d.descended
     THEN /\ i <= Len(shape) /\ j \in 1..NeuronsIn(i) + 1 /\ k \in 1..WeightsIn(i) + 1
          /\ j > NeuronsIn(i) => k = 1
          /\ d.neuron = At(L, <<"global", i, j, 0>>) /\ d.weight = At(L, <<"global", i, j, k>>)
     ELSE j = 1 /\ k = 1

\* Of what was copied, the nodes that no list holds yet.
Loose(d, i, j) == {s \in {<<"global", i, 0, 0>>} : d.layer # NULL}
                  \cup {s \in {<<"global", i, j, 0>>} : d.neuron # NULL}
Twin(s) == <<"control", s[2], s[3], s[4]>>
Copied(d, i, j, k) == IF d.network = NULL THEN {} ELSE Upto("global", i, j, k)

\* The sum and what has been copied of it, C.
Spread(h, co, v, n, L, lost, C, S, K) ==
  /\ Trees(h, L, lost, S, K, "own") /\ S = Complete({"control"}) \cup C
  /\ \A s \in C : s \in Site /\ s[1] = "global" /\ h[L[s]].value = h[L[Twin(s)]].value
  /\ co = L[<<"control", 0, 0, 0>>] /\ Lost(lost, n) /\ v = Content(h, L, "control")
\* The nodes that are copied and the copies that are not linked yet.
Cursors(d, L, i, j, k) ==
  /\ d.network = NULL => i = 0
  /\ d.network # NULL => d.network = L[<<"global", 0, 0, 0>>]
  /\ IF d.layer = NULL
     THEN /\ FullLayer(i, j, k)
          /\ d.network # NULL => d.currentlayer = At(L, <<"control", i + 1, 0, 0>>)
     ELSE /\ i # 0 /\ d.layer = L[<<"global", i, 0, 0>>]
          /\ d.currentlayer = L[<<"control", i, 0, 0>>]
  /\ IF d.neuron = NULL
     THEN d.layer # NULL => /\ FullNeuron(i, j, k)
                            /\ d.currentneuron = At(L, <<"control", i, j + 1, 0>>)
     ELSE /\ j # 0 /\ d.neuron = L[<<"global", i, j, 0>>]
          /\ d.currentneuron = L[<<"control", i, j, 0>>]
          /\ d.currentweight = At(L, <<"control", i, j, k + 1>>)

SpreadingAt(h, co, d, v, n, L, lost, i, j, k) ==
  LET S == Complete({"control"}) \cup Copied(d, i, j, k)
  IN /\ OnPlace(i, j, k) /\ Cursors(d, L, i, j, k)
     /\ Spread(h, co, v, n + 1, L, lost, Copied(d, i, j, k), S, Linked(S) \ Loose(d, i, j))

Resting(h, gl, co, cl, v, n) ==
  \E L \in [Site -> Address], R \in SUBSET Role, lost \in SUBSET Address :
    RestingAt(h, gl, co, cl, v, n, L, R, lost)
Growing(h, gl, co, cl, d, v, n) ==
  \E L \in [Site -> Address], R \in SUBSET Role, lost \in SUBSET Address, r \in Role :
    GrowingAt(h, gl, co, cl, d, v, n, L, R, lost, r)
Leaving(h, co, d, v, n) ==
  \E L \in [Site -> Address], lost \in SUBSET Address, i, j, k \in Nat :
    LeavingAt(h, co, d, v, n, L, lost, i, j, k)
Spreading(h, co, d, v, n) ==
  \E L \in [Site -> Address], lost \in SUBSET Address, i, j, k \in Nat :
    SpreadingAt(h, co, d, v, n, L, lost, i, j, k)

\* There is a placement like that for the function that runs.
WholeLists(h, gl, co, cl, d, v, n) ==
  /\ d = Idle => Resting(h, gl, co, cl, v, n)
  /\ d.proc = "build" => Growing(h, gl, co, cl, d, v, n)
  /\ d.proc = "free" => Leaving(h, co, d, v, n)
  /\ d.proc = "copy" => cl = NULL /\ Spreading(h, co, d, v, n)
WholeInv == WholeLists(heap, global, control, client, doing, average, round)

\* The shape is the one that was configured.
LEMMA ShapeStays ==
  ASSUME shape' = shape,
         WholeLists(heap', global', control', client', doing', average', round')
  PROVE  WholeInv'
<1>1. \A l : NeuronsIn(l)' = NeuronsIn(l)
  BY DEF NeuronsIn
<1>2. \A l : WeightsIn(l)' = WeightsIn(l)
  BY DEF WeightsIn
<1>3. Site' = Site
  BY <1>1, <1>2 DEF Site
<1>4. \A R : Complete(R)' = Complete(R)
  BY <1>3 DEF Complete
<1>5. \A r, i, j, k : Upto(r, i, j, k)' = Upto(r, i, j, k)
  BY <1>3 DEF Upto
<1>6. \A i, j, k : Rest(i, j, k)' = Rest(i, j, k)
  BY <1>3 DEF Rest
<1>7. \A h, L, lost, S, K, loops :
        Trees(h, L, lost, S, K, loops)' <=> Trees(h, L, lost, S, K, loops)
  BY <1>3 DEF Trees
<1>8. \A lost, n : Lost(lost, n)' <=> Lost(lost, n)
  BY <1>4 DEF Lost, Size
<1>9. \A h, L, r : Content(h, L, r)' = Content(h, L, r)
  BY <1>1, <1>2 DEF Content
<1>10. \A L, s : At(L, s)' = At(L, s)
  BY <1>3 DEF At
<1>11. \A i, j, k : /\ OnPlace(i, j, k)' <=> OnPlace(i, j, k)
                    /\ FullNeuron(i, j, k)' <=> FullNeuron(i, j, k)
                    /\ FullLayer(i, j, k)' <=> FullLayer(i, j, k)
  BY <1>1, <1>2 DEF OnPlace, FullNeuron, FullLayer
<1>12. ASSUME NEW L, NEW R, NEW lost
       PROVE  RestingAt(heap', global', control', client', average', round', L, R, lost)
              => RestingAt(heap, global, control, client, average, round, L, R, lost)'
  BY <1>4, <1>7, <1>8, <1>9 DEF RestingAt
<1>13. ASSUME NEW L, NEW R, NEW lost, NEW r
       PROVE  GrowingAt(heap', global', control', client', doing', average', round', L, R, lost, r)
              => GrowingAt(heap, global, control, client, doing, average, round, L, R, lost, r)'
  BY <1>4, <1>5, <1>7, <1>8, <1>9, <1>11 DEF GrowingAt
<1>14. ASSUME NEW L, NEW lost, NEW i, NEW j, NEW k
       PROVE  LeavingAt(heap', control', doing', average', round', L, lost, i, j, k)
              => LeavingAt(heap, control, doing, average, round, L, lost, i, j, k)'
  BY <1>1, <1>2, <1>4, <1>6, <1>7, <1>8, <1>9, <1>10 DEF LeavingAt
<1>15. ASSUME NEW L, NEW lost, NEW i, NEW j, NEW k
       PROVE  SpreadingAt(heap', control', doing', average', round', L, lost, i, j, k)
              => SpreadingAt(heap, control, doing, average, round, L, lost, i, j, k)'
  <2>1. Copied(doing', i, j, k) = Copied(doing, i, j, k)'
    BY <1>5 DEF Copied
  <2>2. ASSUME NEW C, NEW S, NEW K
        PROVE  Spread(heap', control', average', round' + 1, L, lost, C, S, K)
               => Spread(heap, control, average, round + 1, L, lost, C, S, K)'
    BY <1>3, <1>4, <1>7, <1>8, <1>9 DEF Spread
  <2>3. Cursors(doing', L, i, j, k) => Cursors(doing, L, i, j, k)'
    BY <1>10, <1>11 DEF Cursors
  <2>4. Loose(doing', i, j) = Loose(doing, i, j)'
    BY DEF Loose
  <2> QED BY <2>1, <2>2, <2>3, <2>4, <1>4, <1>11 DEF SpreadingAt
<1>16. Resting(heap', global', control', client', average', round')
       => Resting(heap, global, control, client, average, round)'
  BY <1>3, <1>12 DEF Resting
<1>17. Growing(heap', global', control', client', doing', average', round')
       => Growing(heap, global, control, client, doing, average, round)'
  BY <1>3, <1>13 DEF Growing
<1>18. Leaving(heap', control', doing', average', round')
       => Leaving(heap, control, doing, average, round)'
  BY <1>3, <1>14 DEF Leaving
<1>19. Spreading(heap', control', doing', average', round')
       => Spreading(heap, control, doing, average, round)'
  BY <1>3, <1>15 DEF Spreading
<1> QED BY <1>16, <1>17, <1>18, <1>19 DEF WholeInv, WholeLists


-----------------------------------------------------------------------------
(* What the pointers of a complete network say, and what a step does to it.  *)

\* Where the network is complete, a pointer is the address of the next site.
LEMMA PointersOf ==
  ASSUME shape \in Shapes, NEW h, NEW L, NEW S, NEW K, NEW loops, K \subseteq Site,
         Laid(h, L, S, K, loops), NEW s \in S, s \in Site, Linked(Complete({s[1]})) \subseteq K
  PROVE  /\ h[L[s]].first = At(L, Child(s)) /\ h[L[s]].next = At(L, Onward(s))
         /\ Is(h, L[s], KindOf(s))
<1>1. SiteRight(h, L, K, loops, s)
  BY DEF Laid
<1>2. Child(s) \in K <=> Child(s) \in Site
  <2>1. ASSUME Child(s) \in Site PROVE Child(s) \in K
    <3>1. Index(Child(s)) = 1 /\ Child(s)[1] = s[1]
      BY <2>1, ChildIs
    <3> QED BY <2>1, <3>1 DEF Linked, Complete
  <2> QED BY <2>1
<1>3. Onward(s) \in K <=> Onward(s) \in Site
  <2>1. ASSUME Onward(s) \in Site PROVE Onward(s) \in K
    <3>1. Index(Onward(s)) = Index(s) + 1 /\ Index(s) > 0 /\ Onward(s)[1] = s[1]
      BY <2>1, OnwardIs
    <3>2. Index(s) \in Nat
      BY SiteParts DEF Index
    <3> QED BY <2>1, <3>1, <3>2 DEF Linked, Complete
  <2> QED BY <2>1
<1>4. Index(s) = 1 => Onward(s) \in Site
  BY NoSingleSites DEF Linked, Complete
<1> QED BY <1>1, <1>2, <1>3, <1>4 DEF SiteRight, At

\* The nodes of S have kept their values.
Kept(h, g, L, M, S) == \A t \in S : g[M[t]].value = h[L[t]].value
\* What Link and LinkCopy do, and what an allocation does.
Links(h, g, parent, a, loops) ==
  g = IF loops = "own" THEN LinkCopy(h, parent, a) ELSE Link(h, parent, a)
Allocates(h, g, a, kind, value) ==
  /\ a \in Address /\ h[a] = Freed /\ value \in Nat /\ g = [h EXCEPT ![a] = NewNode(kind, value)]

\* A node is linked to its parent, by Link while a network is built and by LinkCopy
\* while the sum is copied.
LEMMA LinkedSite ==
  ASSUME shape \in Shapes, NEW h, NEW g, NEW L, NEW lost, NEW S, NEW K, NEW J, NEW loops,
         NEW s, NEW p, NEW a, Trees(h, L, lost, S, K, loops), Ready(S, K, s), With(K, s, J),
         Puts(L, Up(s), p), Puts(L, s, a), Links(h, g, p, a, loops)
  PROVE  /\ Trees(g, L, lost, S, J, loops)
         /\ Kept(h, g, L, L, S)
<1>0. /\ Grown(S) /\ K \subseteq S /\ s \in S /\ s \notin K /\ Index(s) > 0
      /\ Index(s) > 1 => Back(s) \in K
      /\ g = IF loops = "own" THEN LinkCopy(h, p, a) ELSE Link(h, p, a)
      /\ p = L[Up(s)] /\ a = L[s]
  BY DEF Ready, Links, Puts
<1> DEFINE before == IF h[p].last # NULL THEN h[p].last ELSE IF loops = "own" THEN a ELSE NULL
<1>1. /\ S \subseteq Site /\ K \subseteq Site /\ L \in [Site -> Address] /\ h \in Heaps
      /\ Laid(h, L, S, K, loops)
      /\ Live(h) = lost \cup Image(L, S)
  BY DEF Trees
<1>2. /\ Up(s) \in S /\ Onward(s) \notin K /\ h[p].last = Before(L, s)
  <2>1. /\ Up(s) \in S /\ Onward(s) \notin K /\ h[L[Up(s)]].last = Before(L, s)
        /\ Index(s) = 1 => Child(Up(s)) = s
    BY <1>0, <1>1, LastOfParent
  <2> QED BY <1>0, <2>1
<1>3. s \in Site /\ Up(s) # s
  BY <1>0, <1>1, UpIs
<1>4. \A t \in S : L[t] \in Live(h) /\ L[t] # NULL
  BY <1>1 DEF Image, Address, NULL
<1>5. p # a
  BY <1>0, <1>1, <1>2, <1>3 DEF Laid, Apiece
<1>6. h[p].last # NULL => h[p].last \in Live(h) \ {a}
  <2> SUFFICES ASSUME h[p].last # NULL PROVE h[p].last \in Live(h) \ {a}
    OBVIOUS
  <2>1. Index(s) > 1 /\ h[p].last = L[Back(s)]
    BY <1>2 DEF Before
  <2>2. Back(s) \in S /\ Back(s) # s
    BY <1>0, <1>3, <2>1, BackIs
  <2> QED BY <1>0, <1>1, <1>4, <2>1, <2>2 DEF Laid, Apiece
<1>7. h[a].next = NULL
  BY <1>0, <1>1, <1>2 DEF Laid, SiteRight
<1>8. h[p].first = NULL <=> h[p].last = NULL
  <2>1. SiteRight(h, L, K, loops, Up(s))
    BY <1>1, <1>2 DEF Laid
  <2>2. \A t \in K : L[t] # NULL
    BY <1>0, <1>4
  <2> QED BY <1>0, <2>1, <2>2 DEF SiteRight
<1>9. g \in Heaps /\ Attached(h, g, p, a, before)
  <2>1. p \in Live(h) /\ a \in Live(h)
    BY <1>0, <1>2, <1>4
  <2>2. CASE loops = "own"
    <3>1. g = LinkCopy(h, p, a)
      BY <1>0, <2>2
    <3>2. before = IF h[p].last = NULL THEN a ELSE h[p].last
      BY <2>2
    <3> QED BY <1>1, <1>5, <1>6, <1>8, <2>1, <3>1, <3>2, LinkCopyAttaches
  <2>3. CASE loops # "own"
    <3>1. g = Link(h, p, a)
      BY <1>0, <2>3
    <3>2. before = h[p].last
      BY <2>3
    <3> QED BY <1>1, <1>5, <1>6, <1>7, <2>1, <3>1, <3>2, LinkAttaches
  <2> QED BY <2>2, <2>3
<1>10. Kept(h, g, L, L, S)
  BY <1>4, <1>9 DEF Attached, Kept
<1>11. Trees(g, L, lost, S, J, loops)
  <2>1. Hung(h, g, p, a, loops)
    BY <1>9 DEF Hung
  <2> QED BY <1>9, <2>1, TreesLink
<1> QED BY <1>10, <1>11

\* A node is allocated for a site.
LEMMA NewSite ==
  ASSUME shape \in Shapes, NEW h, NEW g, NEW L, NEW M, NEW lost, NEW S, NEW K, NEW loops,
         NEW s, NEW a, NEW value, NEW T, Trees(h, L, lost, S, K, loops), Open(S, K, s),
         With(S, s, T), Allocates(h, g, a, KindOf(s), value), Placed(L, M, s, a)
  PROVE  /\ Trees(g, M, lost, T, K, loops)
         /\ g[a].value = value /\ Kept(h, g, L, M, S)
<1>0. /\ Grown(S) /\ K \subseteq S /\ s \in Site /\ s \notin S
      /\ a \in Address /\ h[a] = Freed /\ value \in Nat
      /\ g = [h EXCEPT ![a] = NewNode(KindOf(s), value)]
  BY DEF Open, Allocates
<1>1. h \in Heaps /\ L \in [Site -> Address] /\ Image(L, S) \subseteq Live(h)
  BY DEF Trees
<1>2. KindOf(s) \in NodeKind
  BY DEF KindOf, NodeKind
<1>3. Fresh(h, g, a, KindOf(s))
  BY <1>0, <1>1, <1>2, NewNodeIsFresh
<1>4. g[a].value = value
  BY <1>0, <1>1 DEF NewNode, Heaps
<1>5. M[s] = a /\ \A t \in S : M[t] = L[t]
  BY <1>0 DEF Placed, Grown
<1>7. Trees(g, M, lost, T, K, loops)
  BY <1>0, <1>3, TreesAdd
<1>6. Kept(h, g, L, M, S)
  BY <1>1, <1>3, <1>5 DEF Fresh, Image, Kept
<1> QED BY <1>4, <1>5, <1>6, <1>7

\* The sites of the biases and weights.
LEMMA CompleteSites ==
  ASSUME shape \in Shapes, NEW r \in Role, NEW i \in 1..Len(shape)
  PROVE  /\ <<r, 0, 0, 0>> \in Complete({r}) /\ <<r, i, 0, 0>> \in Complete({r})
         /\ \A j \in 1..NeuronsIn(i) :
              /\ <<r, i, j, 0>> \in Complete({r})
              /\ \A k \in 1..WeightsIn(i) : <<r, i, j, k>> \in Complete({r})
<1>1. Len(shape) \in Nat /\ NeuronsIn(0) = 0 /\ NeuronsIn(i) \in Nat /\ WeightsIn(i) \in Nat
  BY SiteSizes
<1>2. <<r, 0, 0, 0>> \in Site /\ <<r, i, 0, 0>> \in Site
  BY <1>1, SiteIs
<1>3. ASSUME NEW j \in 1..NeuronsIn(i)
      PROVE  /\ <<r, i, j, 0>> \in Site
             /\ \A k \in 1..WeightsIn(i) : <<r, i, j, k>> \in Site
  <2>1. j \in Nat /\ j # 0 /\ j <= NeuronsIn(i)
    BY <1>1
  <2>2. <<r, i, j, 0>> \in Site
    BY <1>1, <2>1, SiteIs
  <2>3. ASSUME NEW k \in 1..WeightsIn(i) PROVE <<r, i, j, k>> \in Site
    BY <1>1, <2>1, SiteIs
  <2> QED BY <2>2, <2>3
<1> QED BY <1>2, <1>3 DEF Complete

\* The same values at the same sites are the same biases and weights.
SameValues(h, g, L, M, q, r) ==
  \A s \in Complete({r}) : g[M[<<q, s[2], s[3], s[4]>>]].value = h[L[s]].value

LEMMA SameContent ==
  ASSUME shape \in Shapes, NEW h, NEW g, NEW L, NEW M, NEW q, NEW r \in Role,
         SameValues(h, g, L, M, q, r)
  PROVE  Content(g, M, q) = Content(h, L, r)
<1>1. ASSUME NEW i \in 1..Len(shape), NEW j \in 1..NeuronsIn(i)
      PROVE  /\ g[M[<<q, i, j, 0>>]].value = h[L[<<r, i, j, 0>>]].value
             /\ \A k \in 1..WeightsIn(i) : g[M[<<q, i, j, k>>]].value = h[L[<<r, i, j, k>>]].value
  BY CompleteSites DEF SameValues
<1> QED BY <1>1 DEF Content


LEMMA LinkedAnd ==
  ASSUME NEW S, NEW s
  PROVE  /\ Linked(S) \subseteq S
         /\ Linked(S \cup {s}) = IF Index(s) > 0 THEN Linked(S) \cup {s} ELSE Linked(S)
BY DEF Linked

LEMMA CompleteAnd ==
  ASSUME NEW R, NEW r
  PROVE  Complete(R \cup {r}) = Complete(R) \cup Complete({r})
BY DEF Complete

\* The root of a network that has been begun.
LEMMA RootsThere ==
  ASSUME shape \in Shapes, NEW r \in Role
  PROVE  /\ <<r, 0, 0, 0>> \in Site /\ \A R : r \in R => <<r, 0, 0, 0>> \in Complete(R)
         /\ \A i, j, k \in Nat : <<r, 0, 0, 0>> \in Upto(r, i, j, k)
<1>1. <<r, 0, 0, 0>> \in Site
  BY SiteIs, SiteSizes
<1>2. ASSUME NEW i \in Nat, NEW j \in Nat, NEW k \in Nat PROVE <<r, 0, 0, 0>> \in Upto(r, i, j, k)
  <2>1. 0 < i \/ (0 = i /\ (0 < j \/ (0 = j /\ 0 <= k)))
    OBVIOUS
  <2> QED BY <1>1, <2>1 DEF Upto
<1> QED BY <1>1, <1>2 DEF Complete

\* The roots that the program knows stay where they are.
LEMMA RootsStay ==
  ASSUME NEW gl, NEW co, NEW cl, NEW L, NEW M, NEW R, Roots(gl, co, cl, L, R),
         \A r \in R : M[<<r, 0, 0, 0>>] = L[<<r, 0, 0, 0>>]
  PROVE  Roots(gl, co, cl, M, R)
BY DEF Roots

\* s is the site that comes after those up to weight w of neuron m of layer l.
Comes(r, l, m, w, i, j, k, s) ==
  /\ s \in Site /\ s[1] = r /\ Index(s) > 0 /\ OnPlace(i, j, k) /\ s \notin Upto(r, l, m, w)
  /\ Upto(r, i, j, k) = Upto(r, l, m, w) \cup {s}

LEMMA LayerComes ==
  ASSUME shape \in Shapes, NEW r \in Role, NEW i, NEW j, NEW k,
         OnPlace(i, j, k), FullLayer(i, j, k), i < Len(shape)
  PROVE  LET s == <<r, i + 1, 0, 0>>
         IN Comes(r, i, j, k, i + 1, 0, 0, s) /\ KindOf(s) = "layer" /\ Up(s) = <<r, 0, 0, 0>>
<1> DEFINE s == <<r, i + 1, 0, 0>>
<1>1. i \in Nat
  BY DEF OnPlace
<1>2. s[1] = r /\ Index(s) > 0 /\ KindOf(s) = "layer" /\ Up(s) = <<r, 0, 0, 0>>
  BY <1>1 DEF Index, KindOf, Up
<1> QED BY <1>2, UptoLayer DEF Comes

LEMMA NeuronComes ==
  ASSUME shape \in Shapes, NEW r \in Role, NEW i, NEW j, NEW k,
         OnPlace(i, j, k), FullNeuron(i, j, k), i # 0, j < NeuronsIn(i)
  PROVE  LET s == <<r, i, j + 1, 0>>
         IN Comes(r, i, j, k, i, j + 1, 0, s) /\ KindOf(s) = "neuron" /\ Up(s) = <<r, i, 0, 0>>
<1> DEFINE s == <<r, i, j + 1, 0>>
<1>1. i \in Nat /\ j \in Nat
  BY DEF OnPlace
<1>2. s[1] = r /\ Index(s) > 0 /\ KindOf(s) = "neuron" /\ Up(s) = <<r, i, 0, 0>>
  BY <1>1 DEF Index, KindOf, Up
<1> QED BY <1>2, UptoNeuron DEF Comes

LEMMA WeightComes ==
  ASSUME shape \in Shapes, NEW r \in Role, NEW i, NEW j, NEW k,
         OnPlace(i, j, k), j # 0, k < WeightsIn(i)
  PROVE  LET s == <<r, i, j, k + 1>>
         IN Comes(r, i, j, k, i, j, k + 1, s) /\ KindOf(s) = "weight" /\ Up(s) = <<r, i, j, 0>>
<1> DEFINE s == <<r, i, j, k + 1>>
<1>1. i \in Nat /\ j \in Nat /\ k \in Nat
  BY DEF OnPlace
<1>2. s[1] = r /\ Index(s) > 0 /\ KindOf(s) = "weight" /\ Up(s) = <<r, i, j, 0>>
  BY <1>1 DEF Index, KindOf, Up
<1> QED BY <1>2, UptoWeight DEF Comes

\* The network that is built gets its next node.
LEMMA GrowsBy ==
  ASSUME shape \in Shapes, NEW h, NEW gl, NEW co, NEW cl, NEW d, NEW v, NEW n,
         NEW L, NEW M, NEW R \in SUBSET Role, NEW lost, NEW r \in Role,
         GrowingAt(h, gl, co, cl, d, v, n, L, R, lost, r),
         NEW s, NEW p, NEW a, NEW f, NEW g, NEW i, NEW j, NEW k,
         Comes(r, d.layers, d.neurons, d.weights, i, j, k, s),
         Allocates(h, f, a, KindOf(s), 0), Links(f, g, p, a, "none"),
         Puts(L, Up(s), p), Placed(L, M, s, a),
         NEW e, e.layers = i, e.neurons = j, e.weights = k, e.network = d.network
  PROVE  GrowingAt(g, gl, co, cl, e, v, n, M, R, lost, r)
<1> DEFINE U == Upto(r, d.layers, d.neurons, d.weights)
           S == Complete(R) \cup U
           K == Linked(S)
           V == Upto(r, i, j, k)
<1>0. /\ s \in Site /\ s[1] = r /\ Index(s) > 0 /\ OnPlace(i, j, k) /\ s \notin U
      /\ V = U \cup {s}
  BY DEF Comes
<1> USE <1>0
<1>1. /\ r \notin R /\ OnPlace(d.layers, d.neurons, d.weights)
      /\ Trees(h, L, lost, S, K, "none")
      /\ Roots(gl, co, cl, L, R \cup {r}) /\ d.network = L[<<r, 0, 0, 0>>]
      /\ Lost(lost, n)
      /\ n > 0 => {"global", "control"} \subseteq R /\ v = Content(h, L, "global")
  BY DEF GrowingAt
<1>2. i \in Nat /\ j \in Nat /\ k \in Nat
  BY DEF OnPlace
<1>3. d.layers \in Nat /\ d.neurons \in Nat /\ d.weights \in Nat
  BY <1>1 DEF OnPlace
<1> DEFINE T == S \cup {s}
           J == K \cup {s}
<1>4. Grown(S) /\ Grown(Complete(R) \cup V) /\ V = U \cup {s}
  BY <1>2, <1>3, GrownUpto, GrownComplete, GrownUnion
<1>5. /\ K \subseteq S /\ S \subseteq Site /\ Linked(S \cup {s}) = K \cup {s}
  BY <1>4, LinkedAnd DEF Grown
<1>6. s \notin S
  BY <1>1 DEF Complete
<1>7. Up(s) \in U
  <2>1. Up(s) \in V
    BY <1>2, <1>4, GrownUpto DEF Grown
  <2>2. Up(s) # s
    BY UpIs
  <2> QED BY <1>4, <2>1, <2>2
<1>8. Index(s) > 1 => Back(s) \in K
  <2> HAVE Index(s) > 1
  <2>1. Back(s) \in Linked(V)
    BY <1>2, <1>4, BackUpto
  <2>2. Back(s) # s
    BY BackIs
  <2> QED BY <1>4, <2>1, <2>2 DEF Linked
<1>9. /\ M[s] = a /\ \A t \in S : M[t] = L[t]
      /\ Trees(f, M, lost, T, K, "none")
      /\ Kept(h, f, L, M, S)
  <2>1. Trees(h, L, lost, S, K, "none") /\ Open(S, K, s)
    BY <1>1, <1>4, <1>5, <1>6 DEF Open
  <2>3. With(S, s, T)
    BY DEF With
  <2> HIDE DEF S, K, T
  <2>4. Trees(f, M, lost, T, K, "none") /\ Kept(h, f, L, M, S)
    BY <2>1, <2>3, NewSite
  <2> QED BY <2>1, <2>4 DEF Placed, Open, Grown
<1>11. Complete(R) \cup V = S \cup {s} /\ Up(s) \in S
  BY <1>4, <1>7
<1> HIDE DEF S, K, U, V
<1>10. Puts(M, Up(s), p) /\ Puts(M, s, a)
  BY <1>9, <1>11 DEF Puts
<1>12. Trees(g, M, lost, T, J, "none") /\ Kept(f, g, M, M, T)
  <2>1. Ready(T, K, s) /\ With(K, s, J)
    <3>1. Grown(T) /\ K \subseteq T /\ s \in T \ K
      BY <1>4, <1>5, <1>6, <1>11
    <3> QED BY <3>1, <1>8 DEF Ready, With
  <2> HIDE DEF T, J
  <2> QED BY <1>9, <1>10, <2>1, LinkedSite
<1>13. Kept(h, g, L, M, S)
  BY <1>9, <1>12 DEF Kept, T
<1>14. \A q \in R \cup {r} : <<q, 0, 0, 0>> \in S
  BY <1>3, RootsThere DEF S, U
<1>15. Roots(gl, co, cl, M, R \cup {r}) /\ d.network = M[<<r, 0, 0, 0>>]
  BY <1>1, <1>9, <1>14, RootsStay
<1>16. n > 0 => {"global", "control"} \subseteq R /\ v = Content(g, M, "global")
  <2> HAVE n > 0
  <2>1. Complete({"global"}) \subseteq S /\ {"global", "control"} \subseteq R /\ "global" \in Role
    BY <1>1 DEF S, Complete
  <2>2. \A t \in Complete({"global"}) : t = <<"global", t[2], t[3], t[4]>>
    BY SiteParts DEF Complete
  <2>3. SameValues(h, g, L, M, "global", "global")
    BY <1>13, <2>1, <2>2 DEF SameValues, Kept
  <2>4. Content(g, M, "global") = Content(h, L, "global")
    BY <2>1, <2>3, SameContent
  <2> QED BY <1>1, <2>1, <2>4
<1>17. GrowingAt(g, gl, co, cl, e, v, n, M, R, lost, r)
  <2>1. Complete(R) \cup Upto(r, e.layers, e.neurons, e.weights) = S \cup {s}
    BY <1>11 DEF V
  <2>2. Linked(S \cup {s}) = K \cup {s}
    BY <1>5
  <2> QED BY <1>1, <1>12, <1>15, <1>16, <2>1, <2>2 DEF GrowingAt
<1> QED BY <1>17


\* What runs now, in which the networks are as they are.
LEMMA WholeNow ==
  ASSUME shape' = shape,
         \/ doing' = Idle /\ Resting(heap', global', control', client', average', round')
         \/ doing'.proc = "build"
            /\ Growing(heap', global', control', client', doing', average', round')
         \/ doing'.proc = "free" /\ Leaving(heap', control', doing', average', round')
         \/ doing'.proc = "copy" /\ client' = NULL
            /\ Spreading(heap', control', doing', average', round')
  PROVE  WholeInv'
<1>1. Idle.proc = "idle"
  BY DEF Idle
<1>2. WholeLists(heap', global', control', client', doing', average', round')
  BY <1>1 DEF WholeLists
<1> QED BY <1>2, ShapeStays

LEMMA PlacedThere ==
  ASSUME NEW L \in [Site -> Address], NEW s \in Site, NEW a \in Address
  PROVE  \E M \in [Site -> Address] : Placed(L, M, s, a)
<1> DEFINE M == [L EXCEPT ![s] = a]
<1>1. M \in [Site -> Address] /\ Placed(L, M, s, a)
  BY DEF Placed
<1> QED BY <1>1

\* malloc and the nodes it gives.
LEMMA MallocAllocates ==
  ASSUME ListsInv, Room, NEW kind, NEW value \in Nat
  PROVE  /\ Malloc \in Address
         /\ Allocates(heap, [heap EXCEPT ![Malloc] = NewNode(kind, value)], Malloc, kind, value)
BY FreshNode DEF Allocates, ListsInv, TypeInv

\* The last nodes of the network that is built.
Ends(h, L, d, r) ==
  /\ d.layers # 0 => h[d.network].last = L[<<r, d.layers, 0, 0>>]
  /\ d.layers # 0 /\ d.neurons # 0
     => h[h[d.network].last].last = L[<<r, d.layers, d.neurons, 0>>]
LEMMA GrowingLast ==
  ASSUME shape \in Shapes, NEW h, NEW gl, NEW co, NEW cl, NEW d, NEW v, NEW n,
         NEW L, NEW R \in SUBSET Role, NEW lost, NEW r \in Role,
         GrowingAt(h, gl, co, cl, d, v, n, L, R, lost, r)
  PROVE  Ends(h, L, d, r)
<1> DEFINE i == d.layers
           j == d.neurons
           k == d.weights
           S == Complete(R) \cup Upto(r, i, j, k)
           K == Linked(S)
           o == <<r, 0, 0, 0>>
           l == <<r, i, 0, 0>>
           m == <<r, i, j, 0>>
<1>1. /\ r \notin R /\ OnPlace(i, j, k) /\ LastRight(h, L, S, K) /\ d.network = L[o]
  BY DEF GrowingAt, Trees, Laid
<1>2. i \in Nat /\ j \in Nat /\ k \in Nat /\ i <= Len(shape) /\ j <= NeuronsIn(i) /\ Len(shape) \in Nat
  BY <1>1, SiteSizes DEF OnPlace
<1>3. o \in S
  BY <1>2, RootsThere
<1>4. ASSUME i # 0 PROVE l \in K /\ l \in S /\ Index(l) > 0 /\ Up(l) = o /\ Onward(l) \notin K
  <2>1. l \in Site
    BY <1>2, <1>4, SiteIs, SiteSizes
  <2>2. Index(l) > 0 /\ Up(l) = o /\ Onward(l) = <<r, i + 1, 0, 0>>
    BY <1>2, <1>4 DEF Index, Up, Onward
  <2>3. l \in Upto(r, i, j, k)
    BY <1>2, <2>1 DEF Upto
  <2>4. Onward(l) \notin S
    BY <1>1, <1>2, <2>2 DEF Upto, Complete
  <2> QED BY <2>2, <2>3, <2>4 DEF Linked
<1>5. ASSUME i # 0, j # 0 PROVE m \in K /\ Index(m) > 0 /\ Up(m) = l /\ Onward(m) \notin K
  <2>1. m \in Site
    <3>1. 0 <= IF j = 0 THEN 0 ELSE WeightsIn(i)
      BY <1>2, <1>5, SiteSizes
    <3> QED BY <1>2, <1>5, <3>1, SiteIs
  <2>2. Index(m) > 0 /\ Up(m) = l /\ Onward(m) = <<r, i, j + 1, 0>>
    BY <1>2, <1>5 DEF Index, Up, Onward
  <2>3. m \in Upto(r, i, j, k)
    BY <1>2, <2>1 DEF Upto
  <2>4. Onward(m) \notin S
    BY <1>1, <1>2, <2>2 DEF Upto, Complete
  <2> QED BY <2>2, <2>3, <2>4 DEF Linked
<1> HIDE DEF S, K
<1>6. i # 0 => h[L[o]].last = L[l]
  BY <1>1, <1>3, <1>4 DEF LastRight
<1>7. i # 0 /\ j # 0 => h[L[l]].last = L[m]
  BY <1>1, <1>4, <1>5 DEF LastRight
<1> QED BY <1>1, <1>6, <1>7 DEF Ends


\* The counters after a node has been built.
LEMMA BuildsOn ==
  ASSUME ListsInv, WholeInv, doing.proc = "build", UNCHANGED <<shape, global, control, client, average, round>>,
         NEW L \in [Site -> Address], NEW R \in SUBSET Role, NEW lost \in SUBSET Address,
         NEW r \in Role,
         GrowingAt(heap, global, control, client, doing, average, round, L, R, lost, r),
         NEW s, NEW p, NEW kind, NEW i, NEW j, NEW k, Room,
         Comes(r, doing.layers, doing.neurons, doing.weights, i, j, k, s), KindOf(s) = kind,
         Puts(L, Up(s), p),
         heap' = Link([heap EXCEPT ![Malloc] = NewNode(kind, 0)], p, Malloc),
         doing'.proc = "build", doing'.network = doing.network,
         doing'.layers = i, doing'.neurons = j, doing'.weights = k
  PROVE  WholeInv'
<1>1. shape \in Shapes /\ s \in Site
  BY DEF ListsInv, TypeInv, Comes
<1>2. Malloc \in Address /\ Allocates(heap, [heap EXCEPT ![Malloc] = NewNode(kind, 0)], Malloc, kind, 0)
  BY MallocAllocates
<1>3. PICK M \in [Site -> Address] : Placed(L, M, s, Malloc)
  BY <1>1, <1>2, PlacedThere
<1> DEFINE f == [heap EXCEPT ![Malloc] = NewNode(kind, 0)]
           a == Malloc
<1>4. Links(f, heap', p, a, "none")
  BY DEF Links
<1>5. Allocates(heap, f, a, KindOf(s), 0) /\ Placed(L, M, s, a)
  BY <1>2, <1>3
<1> HIDE DEF f, a
<1>6. GrowingAt(heap', global, control, client, doing', average, round, M, R, lost, r)
  BY <1>1, <1>4, <1>5, GrowsBy
<1>7. Growing(heap', global, control, client, doing', average, round)
  BY <1>6 DEF Growing
<1> QED BY <1>7, WholeNow

LEMMA BuildLayerWhole == ASSUME ListsInv, WholeInv, BuildLayer PROVE WholeInv'
<1>1. /\ doing.proc = "build" /\ LayerIsFull /\ doing.layers < Len(shape) /\ Room
      /\ heap' = Link([heap EXCEPT ![Malloc] = NewNode("layer", 0)], doing.network, Malloc)
      /\ doing' = [doing EXCEPT !.layers = @ + 1, !.neurons = 0, !.weights = 0]
      /\ UNCHANGED <<shape, global, control, client, average, round>>
  BY DEF BuildLayer, Grow
<1>2. doing \in Builds /\ shape \in Shapes
  BY <1>1, WhatIsDone DEF ListsInv, TypeInv
<1>3. PICK L \in [Site -> Address], R \in SUBSET Role, lost \in SUBSET Address, r \in Role :
        GrowingAt(heap, global, control, client, doing, average, round, L, R, lost, r)
  BY <1>1 DEF WholeInv, WholeLists, Growing
<1> DEFINE i == doing.layers
           j == doing.neurons
           k == doing.weights
           s == <<r, i + 1, 0, 0>>
           q == i + 1
<1>4. OnPlace(i, j, k) /\ doing.network = L[<<r, 0, 0, 0>>]
  BY <1>3 DEF GrowingAt
<1>5. FullLayer(i, j, k)
  BY <1>1 DEF LayerIsFull, FullLayer, NeuronIsFull, FullNeuron, NeuronsIn
<1>6. Comes(r, i, j, k, q, 0, 0, s) /\ KindOf(s) = "layer" /\ Up(s) = <<r, 0, 0, 0>>
  BY <1>1, <1>2, <1>4, <1>5, LayerComes
<1>7. Puts(L, Up(s), doing.network)
  BY <1>4, <1>6 DEF Puts
<1>8. /\ doing'.proc = "build" /\ doing'.network = doing.network
      /\ doing'.layers = q /\ doing'.neurons = 0 /\ doing'.weights = 0
  BY <1>1, <1>2 DEF Builds
<1> HIDE DEF s, q
<1> QED BY <1>1, <1>3, <1>6, <1>7, <1>8, BuildsOn


LEMMA BuildNeuronWhole == ASSUME ListsInv, WholeInv, BuildNeuron PROVE WholeInv'
<1>1. /\ doing.proc = "build" /\ NeuronIsFull /\ doing.layers > 0
      /\ doing.neurons < shape[doing.layers] /\ Room
      /\ heap' = Link([heap EXCEPT ![Malloc] = NewNode("neuron", 0)], heap[doing.network].last, Malloc)
      /\ doing' = [doing EXCEPT !.neurons = @ + 1, !.weights = 0]
      /\ UNCHANGED <<shape, global, control, client, average, round>>
  BY DEF BuildNeuron, Grow
<1>2. doing \in Builds /\ shape \in Shapes
  BY <1>1, WhatIsDone DEF ListsInv, TypeInv
<1>3. PICK L \in [Site -> Address], R \in SUBSET Role, lost \in SUBSET Address, r \in Role :
        GrowingAt(heap, global, control, client, doing, average, round, L, R, lost, r)
  BY <1>1 DEF WholeInv, WholeLists, Growing
<1> DEFINE i == doing.layers
           j == doing.neurons
           k == doing.weights
           s == <<r, i, j + 1, 0>>
           q == j + 1
           p == heap[doing.network].last
<1>4. OnPlace(i, j, k) /\ i # 0
  BY <1>1, <1>2, <1>3 DEF GrowingAt, Builds
<1>5. FullNeuron(i, j, k) /\ j < NeuronsIn(i)
  BY <1>1, <1>4 DEF NeuronIsFull, FullNeuron, NeuronsIn
<1>6. Comes(r, i, j, k, i, q, 0, s) /\ KindOf(s) = "neuron" /\ Up(s) = <<r, i, 0, 0>>
  BY <1>2, <1>4, <1>5, NeuronComes
<1>7. Puts(L, Up(s), p)
  <2>1. p = L[<<r, i, 0, 0>>]
    <3>1. Ends(heap, L, doing, r)
      BY <1>2, <1>3, GrowingLast
    <3> QED BY <3>1, <1>4 DEF Ends
  <2> QED BY <1>6, <2>1 DEF Puts
<1>8. /\ doing'.proc = "build" /\ doing'.network = doing.network
      /\ doing'.layers = i /\ doing'.neurons = q /\ doing'.weights = 0
  BY <1>1, <1>2 DEF Builds
<1>9. heap' = Link([heap EXCEPT ![Malloc] = NewNode("neuron", 0)], p, Malloc)
  BY <1>1
<1> HIDE DEF s, q, p
<1> QED BY <1>1, <1>3, <1>6, <1>7, <1>8, <1>9, BuildsOn

LEMMA BuildWeightWhole == ASSUME ListsInv, WholeInv, BuildWeight PROVE WholeInv'
<1>1. /\ doing.proc = "build" /\ ~NeuronIsFull /\ Room
      /\ heap' = Link([heap EXCEPT ![Malloc] = NewNode("weight", 0)],
                      heap[heap[doing.network].last].last, Malloc)
      /\ doing' = [doing EXCEPT !.weights = @ + 1]
      /\ UNCHANGED <<shape, global, control, client, average, round>>
  BY DEF BuildWeight, Grow
<1>2. doing \in Builds /\ shape \in Shapes
  BY <1>1, WhatIsDone DEF ListsInv, TypeInv
<1>3. PICK L \in [Site -> Address], R \in SUBSET Role, lost \in SUBSET Address, r \in Role :
        GrowingAt(heap, global, control, client, doing, average, round, L, R, lost, r)
  BY <1>1 DEF WholeInv, WholeLists, Growing
<1> DEFINE i == doing.layers
           j == doing.neurons
           k == doing.weights
           s == <<r, i, j, k + 1>>
           q == k + 1
           p == heap[heap[doing.network].last].last
<1>4. OnPlace(i, j, k) /\ j # 0 /\ k # WeightsIn(i)
  BY <1>1, <1>3 DEF GrowingAt, NeuronIsFull
<1>5. i # 0 /\ k < WeightsIn(i)
  <2>1. i \in Nat /\ j \in Nat /\ k \in Nat /\ i <= Len(shape) /\ j <= NeuronsIn(i) /\ k <= WeightsIn(i)
    BY <1>4 DEF OnPlace
  <2>2. i # 0
    BY <2>1, <1>4 DEF NeuronsIn
  <2>3. WeightsIn(i) \in Nat
    BY <1>2, <2>1, <2>2, SiteSizes
  <2> QED BY <2>1, <2>2, <2>3, <1>4
<1>6. Comes(r, i, j, k, i, j, q, s) /\ KindOf(s) = "weight" /\ Up(s) = <<r, i, j, 0>>
  BY <1>2, <1>4, <1>5, WeightComes
<1>7. Puts(L, Up(s), p)
  <2>1. p = L[<<r, i, j, 0>>]
    <3>1. Ends(heap, L, doing, r)
      BY <1>2, <1>3, GrowingLast
    <3> QED BY <3>1, <1>4, <1>5 DEF Ends
  <2> QED BY <1>6, <2>1 DEF Puts
<1>8. /\ doing'.proc = "build" /\ doing'.network = doing.network
      /\ doing'.layers = i /\ doing'.neurons = j /\ doing'.weights = q
  BY <1>1, <1>2 DEF Builds
<1>9. heap' = Link([heap EXCEPT ![Malloc] = NewNode("weight", 0)], p, Malloc)
  BY <1>1
<1> HIDE DEF s, q, p
<1> QED BY <1>1, <1>3, <1>6, <1>7, <1>8, <1>9, BuildsOn

\* The network has all its nodes.
LEMMA BuiltWhole == ASSUME ListsInv, WholeInv, Built PROVE WholeInv'
<1>1. /\ doing.proc = "build" /\ LayerIsFull /\ doing.layers = Len(shape) /\ doing' = Idle
      /\ UNCHANGED <<shape, heap, global, control, client, average, round>>
  BY DEF Built
<1>2. doing \in Builds /\ shape \in Shapes
  BY <1>1, WhatIsDone DEF ListsInv, TypeInv
<1>3. PICK L \in [Site -> Address], R \in SUBSET Role, lost \in SUBSET Address, r \in Role :
        GrowingAt(heap, global, control, client, doing, average, round, L, R, lost, r)
  BY <1>1 DEF WholeInv, WholeLists, Growing
<1> DEFINE U == Upto(r, doing.layers, doing.neurons, doing.weights)
           Q == R \cup {r}
<1>4. /\ OnPlace(doing.layers, doing.neurons, doing.weights)
      /\ Trees(heap, L, lost, Complete(R) \cup U, Linked(Complete(R) \cup U), "none")
      /\ Roots(global, control, client, L, Q) /\ Lost(lost, round)
      /\ round > 0 => {"global", "control"} \subseteq R /\ average = Content(heap, L, "global")
  BY <1>3 DEF GrowingAt
<1>5. FullLayer(doing.layers, doing.neurons, doing.weights)
  BY <1>1 DEF LayerIsFull, FullLayer, NeuronIsFull, FullNeuron, NeuronsIn
<1>6. U = Complete({r})
  BY <1>1, <1>2, <1>4, <1>5, UptoAll
<1>7. Complete(R) \cup U = Complete(Q)
  BY <1>6, CompleteAnd
<1>8. RestingAt(heap, global, control, client, average, round, L, Q, lost)
  <2> HIDE DEF U
  <2> QED BY <1>4, <1>7 DEF RestingAt
<1>9. Resting(heap', global', control', client', average', round')
  BY <1>1, <1>8 DEF Resting
<1> QED BY <1>1, <1>9, WholeNow


-----------------------------------------------------------------------------
(* A network is begun.                                                       *)

\* The roots with one more.
RootsAnd(gl, co, cl, r, a, gm, cp, cm) ==
  /\ gm = IF r = "global" THEN a ELSE gl
  /\ cp = IF r = "control" THEN a ELSE co
  /\ cm = IF r = "client" THEN a ELSE cl

LEMMA NetworkBegun ==
  ASSUME shape \in Shapes, NEW h, NEW gl, NEW co, NEW cl, NEW v, NEW n,
         NEW L, NEW M, NEW R \in SUBSET Role, NEW lost, NEW r \in Role,
         RestingAt(h, gl, co, cl, v, n, L, R, lost), r \notin R,
         NEW s, s = <<r, 0, 0, 0>>, NEW a, NEW g, Allocates(h, g, a, "network", 0),
         Placed(L, M, s, a), NEW gm, NEW cp, NEW cm, RootsAnd(gl, co, cl, r, a, gm, cp, cm),
         NEW e, e.layers = 0, e.neurons = 0, e.weights = 0, e.network = a
  PROVE  GrowingAt(g, gm, cp, cm, e, v, n, M, R, lost, r)
<1> DEFINE S == Complete(R)
           K == Linked(S)
           T == S \cup {s}
<1>1. /\ Trees(h, L, lost, S, K, "none") /\ Roots(gl, co, cl, L, R) /\ Lost(lost, n)
      /\ n > 0 => {"global", "control"} \subseteq R /\ v = Content(h, L, "global")
  BY DEF RestingAt
<1>2. s \in Site /\ Upto(r, 0, 0, 0) = {s} /\ KindOf(s) = "network" /\ Index(s) = 0 /\ s[1] = r
  BY UptoRoot DEF KindOf, Index
<1>3. Grown(S) /\ s \notin S /\ K \subseteq S
  BY <1>2, GrownComplete DEF Complete, Linked
<1>4. Open(S, K, s) /\ With(S, s, T)
  <2>1. s \in Site \ S
    BY <1>2, <1>3
  <2> HIDE DEF S, K
  <2> QED BY <1>3, <2>1 DEF Open, With
<1>5. Linked(T) = K
  <2> HIDE DEF S
  <2> QED BY <1>2 DEF Linked
<1>6. OnPlace(0, 0, 0)
  BY SiteSizes DEF OnPlace
<1>7. \A q \in R : <<q, 0, 0, 0>> \in S
  BY RootsThere
<1> HIDE DEF S, K, T
<1>8. Trees(g, M, lost, T, K, "none") /\ Kept(h, g, L, M, S)
  <2>1. Allocates(h, g, a, KindOf(s), 0)
    BY <1>2
  <2> QED BY <2>1, <1>1, <1>4, NewSite
<1>9. M[s] = a /\ \A t \in S : M[t] = L[t]
  BY <1>4 DEF Placed, Open, Grown
<1>10. Roots(gm, cp, cm, M, R \cup {r})
  <2>1. Roots(gl, co, cl, M, R)
    BY <1>1, <1>7, <1>9, RootsStay
  <2> QED BY <2>1, <1>9 DEF Roots, RootsAnd
<1>11. n > 0 => {"global", "control"} \subseteq R /\ v = Content(g, M, "global")
  <2> HAVE n > 0
  <2>1. Complete({"global"}) \subseteq S /\ {"global", "control"} \subseteq R /\ "global" \in Role
    BY <1>1 DEF S, Complete
  <2>2. \A t \in Complete({"global"}) : t = <<"global", t[2], t[3], t[4]>>
    BY SiteParts DEF Complete
  <2>3. SameValues(h, g, L, M, "global", "global")
    BY <1>8, <2>1, <2>2 DEF SameValues, Kept
  <2>4. Content(g, M, "global") = Content(h, L, "global")
    BY <2>1, <2>3, SameContent
  <2> QED BY <1>1, <2>1, <2>4
<1>12. Complete(R) \cup Upto(r, e.layers, e.neurons, e.weights) = T
  BY <1>2 DEF S, T
<1> QED BY <1>1, <1>5, <1>6, <1>8, <1>9, <1>10, <1>11, <1>12 DEF GrowingAt

LEMMA Begins ==
  ASSUME ListsInv, WholeInv, Serving, Room, UNCHANGED <<shape, average, round>>,
         heap' = [heap EXCEPT ![Malloc] = NewNode("network", 0)],
         doing' = [proc |-> "build", network |-> Malloc, layers |-> 0, neurons |-> 0,
                   weights |-> 0],
         NEW r \in Role, RootsAnd(global, control, client, r, Malloc, global', control', client'),
         \/ r = "global" /\ global = NULL
         \/ r = "control" /\ control = NULL
         \/ r = "client" /\ client = NULL
  PROVE  WholeInv'
<1>1. shape \in Shapes
  BY DEF ListsInv, TypeInv
<1>2. PICK L \in [Site -> Address], R \in SUBSET Role, lost \in SUBSET Address :
        RestingAt(heap, global, control, client, average, round, L, R, lost)
  BY DEF WholeInv, WholeLists, Resting, Serving
<1> DEFINE s == <<r, 0, 0, 0>>
           a == Malloc
<1>3. s \in Site
  BY <1>1, UptoRoot
<1>4. r \notin R
  <2>1. L[s] \in Address
    BY <1>3
  <2>2. L[s] # NULL
    BY <2>1 DEF Address, NULL
  <2> QED BY <1>2, <2>2 DEF RestingAt, Roots
<1>5. a \in Address /\ Allocates(heap, heap', a, "network", 0)
  BY MallocAllocates
<1>6. PICK M \in [Site -> Address] : Placed(L, M, s, a)
  BY <1>3, <1>5, PlacedThere
<1>7. /\ doing'.proc = "build" /\ doing'.network = a
      /\ doing'.layers = 0 /\ doing'.neurons = 0 /\ doing'.weights = 0
  OBVIOUS
<1>8. s = <<r, 0, 0, 0>>
  OBVIOUS
<1>9. RootsAnd(global, control, client, r, a, global', control', client')
  OBVIOUS
<1> HIDE DEF s, a
<1>10. GrowingAt(heap', global', control', client', doing', average, round, M, R, lost, r)
  BY <1>1, <1>2, <1>4, <1>5, <1>6, <1>7, <1>8, <1>9, NetworkBegun
<1>11. Growing(heap', global', control', client', doing', average', round')
  BY <1>10 DEF Growing
<1> QED BY <1>7, <1>11, WholeNow

LEMMA CreateNetworkWhole == ASSUME ListsInv, WholeInv, CreateNetwork PROVE WholeInv'
<1>1. CASE global = NULL
  <2>1. RootsAnd(global, control, client, "global", Malloc, global', control', client')
    BY <1>1 DEF CreateNetwork, RootsAnd
  <2>2. "global" \in Role
    BY DEF Role
  <2> QED BY <1>1, <2>1, <2>2, Begins DEF CreateNetwork
<1>2. CASE global # NULL
  <2>1. RootsAnd(global, control, client, "control", Malloc, global', control', client')
    BY <1>2 DEF CreateNetwork, RootsAnd
  <2>2. "control" \in Role
    BY DEF Role
  <2> QED BY <1>2, <2>1, <2>2, Begins DEF CreateNetwork
<1> QED BY <1>1, <1>2

LEMMA ReceiveModelWhole == ASSUME ListsInv, WholeInv, ReceiveModel PROVE WholeInv'
<1>1. RootsAnd(global, control, client, "client", Malloc, global', control', client')
  BY DEF ReceiveModel, RootsAnd
<1>2. "client" \in Role
  BY DEF Role
<1> QED BY <1>1, <1>2, Begins DEF ReceiveModel


\* The walk along the next pointers, with the most steps it takes.
IsWalk(h, from) ==
  from = [most \in 0..HeapSize |-> [b \in 0..HeapSize |->
            IF b = NULL \/ most = 0 THEN <<>>
            ELSE <<b>> \o (IF h[b] = Freed THEN <<>> ELSE from[most - 1][h[b].next])]]

LEMMA WalkExists ==
  ASSUME NEW h \in Heaps
  PROVE  \E from : IsWalk(h, from)
<1> USE HeapAssumption
<1> DEFINE B == 0..HeapSize
           V == [B -> Seq(B)]
           none == [b \in B |-> <<>>]
           more(g) == [b \in B |-> IF b = NULL THEN <<>>
                                   ELSE <<b>> \o (IF h[b] = Freed THEN <<>> ELSE g[h[b].next])]
           onward == [x \in (1..HeapSize) \X V |-> more(x[2])]
<1>1. none \in V
  OBVIOUS
<1>2. \A b \in B : b # NULL /\ h[b] # Freed => h[b].next \in B
  BY DEF Heaps, HeapNode, Address, Pointer, NULL
<1>3. \A g \in V : more(g) \in V
  <2> TAKE g \in V
  <2> DEFINE rest(b) == IF h[b] = Freed THEN <<>> ELSE g[h[b].next]
  <2>1. \A b \in B : b # NULL => rest(b) \in Seq(B)
    <3> SUFFICES ASSUME NEW b \in B, b # NULL PROVE rest(b) \in Seq(B)
      OBVIOUS
    <3>1. CASE h[b] = Freed
      BY <3>1
    <3>2. CASE h[b] # Freed
      <4>1. h[b].next \in B
        BY <1>2, <3>2
      <4>2. g[h[b].next] \in Seq(B)
        BY <4>1
      <4> QED BY <3>2, <4>2
    <3> QED BY <3>1, <3>2
  <2> HIDE DEF rest
  <2>2. \A b \in B : b # NULL => <<b>> \o rest(b) \in Seq(B)
    <3> SUFFICES ASSUME NEW b \in B, b # NULL PROVE <<b>> \o rest(b) \in Seq(B)
      OBVIOUS
    <3>1. <<b>> \in Seq(B) /\ rest(b) \in Seq(B)
      BY <2>1
    <3> HIDE DEF B
    <3> QED BY <3>1
  <2>3. more(g) = [b \in B |-> IF b = NULL THEN <<>> ELSE <<b>> \o rest(b)]
    BY DEF rest
  <2> DEFINE all(b) == IF b = NULL THEN <<>> ELSE <<b>> \o rest(b)
  <2>5. \A b \in B : all(b) \in Seq(B)
    <3> SUFFICES ASSUME NEW b \in B PROVE all(b) \in Seq(B)
      OBVIOUS
    <3>1. <<>> \in Seq(B)
      OBVIOUS
    <3> QED BY <2>2, <3>1
  <2>4. [b \in B |-> all(b)] \in [B -> Seq(B)]
    <3> HIDE DEF all
    <3> QED BY <2>5
  <2> QED BY <2>3, <2>4, Zenon
<1>4. onward \in [(1..HeapSize) \X V -> V]
  BY <1>3
<1>51. \A x \in (1..HeapSize) \X V : onward[x] = more(x[2])
  OBVIOUS
<1> HIDE DEF V, onward, none, more
<1>5. PICK F \in Recursions(V, none, HeapSize, onward) : TRUE
  <2>1. Recursions(V, none, HeapSize, onward) # {}
    BY <1>1, <1>4, RecursionExists
  <2> QED BY <2>1
<1>6. /\ F \in [0..HeapSize -> V] /\ F[0] = none
      /\ \A k \in 1..HeapSize : F[k] = onward[<<k, F[k - 1]>>]
  BY <1>5 DEF Recursions
<1>7. \A k \in 1..HeapSize : F[k] = more(F[k - 1])
  <2> TAKE k \in 1..HeapSize
  <2>1. k - 1 \in 0..HeapSize
    OBVIOUS
  <2>2. F[k - 1] \in V
    BY <1>6, <2>1
  <2>3. <<k, F[k - 1]>> \in (1..HeapSize) \X V
    BY <2>2
  <2> QED BY <2>3, <1>51, <1>6
<1> DEFINE body(most) == [b \in 0..HeapSize |->
                IF b = NULL \/ most = 0 THEN <<>>
                ELSE <<b>> \o (IF h[b] = Freed THEN <<>> ELSE F[most - 1][h[b].next])]
<1>8. \A most \in 0..HeapSize : F[most] = body(most)
  <2> TAKE most \in 0..HeapSize
  <2>1. CASE most = 0
    BY <2>1, <1>6 DEF none
  <2>2. CASE most # 0
    <3>1. most \in 1..HeapSize
      BY <2>2
    <3> QED BY <2>2, <3>1, <1>7 DEF more
  <2> QED BY <2>1, <2>2
<1> HIDE DEF body
<1>9. F = [most \in 0..HeapSize |-> body(most)]
  BY <1>6, <1>8
<1>10. IsWalk(h, F)
  BY <1>9 DEF IsWalk, body
<1> QED BY <1>10

LEMMA ListFromIs ==
  ASSUME NEW h \in Heaps
  PROVE  \E from : IsWalk(h, from) /\ \A a : ListFrom(h, a) = from[HeapSize][a]
<1> DEFINE from == CHOOSE from : IsWalk(h, from)
<1>1. IsWalk(h, from)
  BY WalkExists
<1>2. \A a : ListFrom(h, a) = from[HeapSize][a]
  BY DEF ListFrom, IsWalk
<1> QED BY <1>1, <1>2


\* One more in front.
LEMMA Prepended ==
  ASSUME NEW m \in Nat, NEW b, NEW s, NEW t, NEW u,
         s = [i \in 1..m |-> t[i]], u = [i \in 1..(m + 1) |-> IF i = 1 THEN b ELSE t[i - 1]]
  PROVE  <<b>> \o s = u
<1> DEFINE B == {b} \cup {t[i] : i \in 1..m}
<1>1. s \in Seq(B) /\ Len(s) = m /\ \A i \in 1..m : s[i] = t[i]
  <2>1. s \in [1..m -> B]
    OBVIOUS
  <2> QED BY <2>1
<1>2. <<b>> \in Seq(B) /\ Len(<<b>>) = 1 /\ <<b>>[1] = b
  OBVIOUS
<1> HIDE DEF B
<1>3. /\ Len(<<b>> \o s) = 1 + m /\ DOMAIN (<<b>> \o s) = 1..(1 + m)
      /\ <<b>> \o s \in Seq(B)
      /\ \A i \in 1..(1 + m) : (<<b>> \o s)[i] = IF i <= 1 THEN <<b>>[i] ELSE s[i - 1]
  BY <1>1, <1>2
<1>4. \A i \in 1..(m + 1) : (<<b>> \o s)[i] = u[i]
  <2> TAKE i \in 1..(m + 1)
  <2>1. CASE i = 1
    BY <2>1, <1>2, <1>3
  <2>2. CASE i # 1
    <3>1. i - 1 \in 1..m
      BY <2>2
    <3> QED BY <2>2, <3>1, <1>1, <1>3
  <2> QED BY <2>1, <2>2
<1>5. <<b>> \o s = [i \in 1..(1 + m) |-> (<<b>> \o s)[i]]
  BY <1>3
<1> QED BY <1>4, <1>5

\* A chain of nodes, and the last one has no successor.
Chain(h, q, n) ==
  \A i \in 1..n : q[i] \in Live(h) /\ h[q[i]].next = IF i < n THEN q[i + 1] ELSE NULL

LEMMA ListFromChain ==
  ASSUME NEW h \in Heaps, NEW n \in 0..HeapSize, NEW q \in [1..n -> Address], Chain(h, q, n),
         NEW a, a = IF n = 0 THEN NULL ELSE q[1]
  PROVE  ListFrom(h, a) = q
<1> USE HeapAssumption
<1>1. PICK from : IsWalk(h, from) /\ \A b : ListFrom(h, b) = from[HeapSize][b]
  BY ListFromIs
<1>2. ASSUME NEW m \in 0..HeapSize, NEW c \in 0..HeapSize
      PROVE  from[m][c] = IF c = NULL \/ m = 0 THEN <<>>
                          ELSE <<c>> \o (IF h[c] = Freed THEN <<>> ELSE from[m - 1][h[c].next])
  <2> DEFINE B == 0..HeapSize
             e(most, b) == IF b = NULL \/ most = 0 THEN <<>>
                           ELSE <<b>> \o (IF h[b] = Freed THEN <<>> ELSE from[most - 1][h[b].next])
  <2>1. from = [most \in B |-> [b \in B |-> e(most, b)]]
    BY <1>1 DEF IsWalk
  <2>2. m \in B /\ c \in B
    OBVIOUS
  <2> HIDE DEF B, e
  <2>3. from[m] = [b \in B |-> e(m, b)]
    BY <2>1, <2>2
  <2>4. from[m][c] = e(m, c)
    BY <2>2, <2>3
  <2> QED BY <2>4 DEF e
<1> DEFINE head(t) == IF t = 0 THEN NULL ELSE q[n - t + 1]
           rest(t) == [i \in 1..t |-> q[n - t + i]]
           S == {t \in 0..n : \A most \in t..HeapSize : from[most][head(t)] = rest(t)}
<1>3. 0 \in S
  <2>1. \A most \in 0..HeapSize : from[most][NULL] = <<>>
    <3> TAKE most \in 0..HeapSize
    <3>1. NULL \in 0..HeapSize
      BY DEF NULL
    <3> QED BY <3>1, <1>2
  <2>2. rest(0) = <<>>
    OBVIOUS
  <2>3. head(0) = NULL /\ 0 \in 0..n
    OBVIOUS
  <2> HIDE DEF head, rest
  <2> QED BY <2>1, <2>2, <2>3
<1>4. ASSUME NEW t \in 1..n, t - 1 \in S PROVE t \in S
  <2> DEFINE b == q[n - t + 1]
  <2>0. head(t) = b /\ t \in 0..n /\ t - 1 \in 0..n
    OBVIOUS
  <2>00. \A most \in (t - 1)..HeapSize : from[most][head(t - 1)] = rest(t - 1)
    BY <1>4
  <2> SUFFICES ASSUME NEW most \in t..HeapSize PROVE from[most][b] = rest(t)
    <3> HIDE DEF head, rest, b
    <3> QED BY <2>0
  <2>1. n - t + 1 \in 1..n /\ b \in Address /\ b \in Live(h)
    BY DEF Chain
  <2>2. b \in 0..HeapSize /\ b # NULL /\ h[b] # Freed
    BY <2>1 DEF Address, NULL, Live
  <2>3. h[b].next = head(t - 1)
    <3>1. h[b].next = IF n - t + 1 < n THEN q[n - t + 1 + 1] ELSE NULL
      BY <2>1 DEF Chain
    <3>2. CASE t = 1
      BY <3>1, <3>2
    <3>3. CASE t # 1
      <4>1. n - t + 1 < n /\ n - t + 1 + 1 = n - (t - 1) + 1 /\ t - 1 # 0
        BY <3>3
      <4> QED BY <3>1, <4>1
    <3> QED BY <3>2, <3>3
  <2>4. from[most - 1][h[b].next] = rest(t - 1)
    <3>1. most - 1 \in (t - 1)..HeapSize
      OBVIOUS
    <3> HIDE DEF head, rest
    <3> QED BY <3>1, <2>3, <2>00
  <2>5. from[most][b] = <<b>> \o rest(t - 1)
    <3>1. most \in 0..HeapSize /\ most # 0
      OBVIOUS
    <3> HIDE DEF b, rest
    <3> QED BY <3>1, <2>2, <2>4, <1>2
  <2>6. <<b>> \o rest(t - 1) = rest(t)
    <3> DEFINE m == t - 1
               g == [i \in 1..m |-> q[n - m + i]]
    <3>1. rest(t) = [i \in 1..(m + 1) |-> IF i = 1 THEN b ELSE g[i - 1]]
      <4>1. \A i \in 1..t : q[n - t + i] = IF i = 1 THEN b ELSE g[i - 1]
        <5> TAKE i \in 1..t
        <5>1. CASE i = 1
          BY <5>1
        <5>2. CASE i # 1
          <6>1. i - 1 \in 1..m /\ n - m + (i - 1) = n - t + i
            BY <5>2
          <6> QED BY <5>2, <6>1
        <5> QED BY <5>1, <5>2
      <4>2. m + 1 = t
        OBVIOUS
      <4> HIDE DEF g, b, m
      <4> QED BY <4>1, <4>2
    <3>2. rest(t - 1) = [i \in 1..m |-> g[i]] /\ m \in Nat
      OBVIOUS
    <3> HIDE DEF rest, b, g, m
    <3> QED BY <3>1, <3>2, Prepended
  <2> QED BY <2>5, <2>6
<1>5. n \in S
  <2>0. \A t \in 1..n : t - 1 \in S => t \in S
    <3> HIDE DEF S
    <3> QED BY <1>4
  <2> HIDE DEF S
  <2>1. 0..n \subseteq S
    <3>1. n \in Nat
      OBVIOUS
    <3> QED BY <1>3, <2>0, <3>1, BoundedInduction
  <2>2. n \in 0..n
    OBVIOUS
  <2> QED BY <2>1, <2>2
<1>6. from[HeapSize][head(n)] = rest(n)
  BY <1>5
<1>7. head(n) = a /\ rest(n) = q
  OBVIOUS
<1> QED BY <1>1, <1>6, <1>7


-----------------------------------------------------------------------------
(* The lists, the content and the nodes of a network that is complete.       *)

\* The nodes in the list of a site, and the ith of them.
Degree(s) == IF s[2] = 0 THEN Len(shape) ELSE IF s[3] = 0 THEN NeuronsIn(s[2])
            ELSE IF s[4] = 0 THEN WeightsIn(s[2]) ELSE 0
Nth(s, i) == IF s[2] = 0 THEN <<s[1], i, 0, 0>> ELSE IF s[3] = 0 THEN <<s[1], s[2], i, 0>>
             ELSE <<s[1], s[2], s[3], i>>

LEMMA NthIs ==
  ASSUME shape \in Shapes, NEW s \in Site
  PROVE  /\ Degree(s) \in Nat
         /\ \A i \in 1..Degree(s) :
              /\ Nth(s, i) \in Site /\ Nth(s, i)[1] = s[1]
              /\ Up(Nth(s, i)) = s /\ Index(Nth(s, i)) = i
              /\ Onward(Nth(s, i)) = Nth(s, i + 1)
         /\ Degree(s) > 0 => Nth(s, Degree(s) + 1) \notin Site
         /\ Degree(s) > 0 => Child(s) = Nth(s, 1)
         /\ Degree(s) = 0 => Child(s) \notin Site
<1> DEFINE r == s[1]
           l == s[2]
           n == s[3]
           w == s[4]
<1>1. /\ s = <<r, l, n, w>> /\ r \in Role /\ l \in Nat /\ n \in Nat /\ w \in Nat
      /\ l <= Len(shape) /\ n <= NeuronsIn(l) /\ w <= (IF n = 0 THEN 0 ELSE WeightsIn(l))
  BY SiteParts
<1>2. /\ NeuronsIn(0) = 0 /\ Len(shape) \in Nat
      /\ l > 0 => NeuronsIn(l) \in Nat /\ WeightsIn(l) \in Nat
  BY <1>1, SiteSizes
<1>3. CASE l = 0
  <2>1. n = 0 /\ w = 0 /\ Degree(s) = Len(shape)
    BY <1>1, <1>2, <1>3 DEF Degree
  <2>2. \A i : Nth(s, i) = <<r, i, 0, 0>>
    BY <1>3 DEF Nth
  <2>3. \A i \in 1..Len(shape) :
          <<r, i, 0, 0>> \in Site /\ Up(<<r, i, 0, 0>>) = <<r, 0, 0, 0>>
          /\ Index(<<r, i, 0, 0>>) = i /\ Onward(<<r, i, 0, 0>>) = <<r, i + 1, 0, 0>>
    <3> TAKE i \in 1..Len(shape)
    <3>1. i \in Nat /\ i > 0 /\ i <= Len(shape) /\ NeuronsIn(i) \in Nat
      BY <1>2, SiteSizes
    <3> QED BY <1>1, <1>2, <3>1, SiteIs DEF Up, Index, Onward
  <2>4. <<r, Len(shape) + 1, 0, 0>> \notin Site
    BY <1>2, SiteIs
  <2>5. Child(s) = <<r, 1, 0, 0>>
    BY <1>3 DEF Child
  <2>6. s = <<r, 0, 0, 0>>
    BY <1>1, <1>2, <1>3, <2>1
  <2>7. \A i \in 1..Degree(s) :
          /\ Nth(s, i) \in Site /\ Nth(s, i)[1] = r /\ Up(Nth(s, i)) = s
          /\ Index(Nth(s, i)) = i /\ Onward(Nth(s, i)) = Nth(s, i + 1)
    <3> TAKE i \in 1..Degree(s)
    <3>1. Nth(s, i) = <<r, i, 0, 0>> /\ Nth(s, i + 1) = <<r, i + 1, 0, 0>>
      BY <2>2
    <3>2. <<r, i, 0, 0>>[1] = r
      OBVIOUS
    <3> QED BY <2>1, <2>3, <2>6, <3>1, <3>2
  <2>8. Degree(s) \in Nat /\ Nth(s, Degree(s) + 1) \notin Site /\ Child(s) = Nth(s, 1)
    BY <1>1, <1>2, <1>3, <2>1, <2>2, <2>4, <2>5
  <2> QED BY <2>7, <2>8
<1>4. CASE l > 0 /\ n = 0
  <2>1. w = 0 /\ Degree(s) = NeuronsIn(l)
    BY <1>1, <1>2, <1>4 DEF Degree
  <2>2. \A i : Nth(s, i) = <<r, l, i, 0>>
    BY <1>4 DEF Nth
  <2>3. \A i \in 1..NeuronsIn(l) :
          <<r, l, i, 0>> \in Site /\ Up(<<r, l, i, 0>>) = <<r, l, 0, 0>>
          /\ Index(<<r, l, i, 0>>) = i /\ Onward(<<r, l, i, 0>>) = <<r, l, i + 1, 0>>
    <3> TAKE i \in 1..NeuronsIn(l)
    <3>1. i \in Nat /\ i > 0 /\ i <= NeuronsIn(l)
      BY <1>2, <1>4
    <3> QED BY <1>1, <1>2, <1>4, <3>1, SiteIs DEF Up, Index, Onward
  <2>4. <<r, l, NeuronsIn(l) + 1, 0>> \notin Site
    BY <1>2, <1>4, SiteIs
  <2>5. Child(s) = <<r, l, 1, 0>>
    BY <1>4 DEF Child
  <2>6. s = <<r, l, 0, 0>>
    BY <1>1, <1>2, <1>4, <2>1
  <2>7. \A i \in 1..Degree(s) :
          /\ Nth(s, i) \in Site /\ Nth(s, i)[1] = r /\ Up(Nth(s, i)) = s
          /\ Index(Nth(s, i)) = i /\ Onward(Nth(s, i)) = Nth(s, i + 1)
    <3> TAKE i \in 1..Degree(s)
    <3>1. Nth(s, i) = <<r, l, i, 0>> /\ Nth(s, i + 1) = <<r, l, i + 1, 0>>
      BY <2>2
    <3>2. <<r, l, i, 0>>[1] = r
      OBVIOUS
    <3> QED BY <2>1, <2>3, <2>6, <3>1, <3>2
  <2>8. Degree(s) \in Nat /\ Nth(s, Degree(s) + 1) \notin Site /\ Child(s) = Nth(s, 1)
    BY <1>1, <1>2, <1>4, <2>1, <2>2, <2>4, <2>5
  <2> QED BY <2>7, <2>8
<1>5. CASE l > 0 /\ n > 0 /\ w = 0
  <2>1. Degree(s) = WeightsIn(l)
    BY <1>1, <1>2, <1>5 DEF Degree
  <2>2. \A i : Nth(s, i) = <<r, l, n, i>>
    BY <1>5 DEF Nth
  <2>3. \A i \in 1..WeightsIn(l) :
          <<r, l, n, i>> \in Site /\ Up(<<r, l, n, i>>) = <<r, l, n, 0>>
          /\ Index(<<r, l, n, i>>) = i /\ Onward(<<r, l, n, i>>) = <<r, l, n, i + 1>>
    <3> TAKE i \in 1..WeightsIn(l)
    <3>1. i \in Nat /\ i > 0 /\ i <= WeightsIn(l)
      BY <1>2, <1>5
    <3> QED BY <1>1, <1>2, <1>5, <3>1, SiteIs DEF Up, Index, Onward
  <2>4. <<r, l, n, WeightsIn(l) + 1>> \notin Site
    BY <1>2, <1>5, SiteIs
  <2>5. Child(s) = <<r, l, n, 1>>
    BY <1>5 DEF Child
  <2>6. s = <<r, l, n, 0>>
    BY <1>1, <1>2, <1>5, <2>1
  <2>7. \A i \in 1..Degree(s) :
          /\ Nth(s, i) \in Site /\ Nth(s, i)[1] = r /\ Up(Nth(s, i)) = s
          /\ Index(Nth(s, i)) = i /\ Onward(Nth(s, i)) = Nth(s, i + 1)
    <3> TAKE i \in 1..Degree(s)
    <3>1. Nth(s, i) = <<r, l, n, i>> /\ Nth(s, i + 1) = <<r, l, n, i + 1>>
      BY <2>2
    <3>2. <<r, l, n, i>>[1] = r
      OBVIOUS
    <3> QED BY <2>1, <2>3, <2>6, <3>1, <3>2
  <2>8. Degree(s) \in Nat /\ Nth(s, Degree(s) + 1) \notin Site /\ Child(s) = Nth(s, 1)
    BY <1>1, <1>2, <1>5, <2>1, <2>2, <2>4, <2>5
  <2> QED BY <2>7, <2>8
<1>6. CASE l > 0 /\ n > 0 /\ w > 0
  <2>1. Degree(s) = 0
    BY <1>1, <1>6 DEF Degree
  <2>2. Nth(s, 1) = <<r, l, n, 1>> /\ Child(s) = <<r, 0, 0, 1>>
    BY <1>1, <1>6 DEF Nth, Child
  <2>3. <<r, 0, 0, 1>> \notin Site
    BY SiteIs
  <2> QED BY <2>1, <2>2, <2>3
<1> QED BY <1>1, <1>3, <1>4, <1>5, <1>6


\* The network r is among the sites, and linked.
Has(S, K, r) == Complete({r}) \subseteq S /\ Linked(Complete({r})) \subseteq K
\* The list of every node of the network r is that of its site.
Stands(h, L, r) ==
  \A s \in Complete({r}) :
    L[s] \in Live(h) /\ ListOf(h, L[s]) = [i \in 1..Degree(s) |-> L[Nth(s, i)]]

\* Distinct addresses are no more than there are.
LEMMA NoMoreThanAddresses ==
  ASSUME NEW n \in Nat, NEW q \in [1..n -> Address], \A i, j \in 1..n : q[i] = q[j] => i = j
  PROVE  n <= HeapSize
<1>1. q \in Injection(1..n, Address)
  BY DEF Injection, IsInjective
<1>2. IsFiniteSet(Address) /\ Cardinality(Address) = HeapSize
  BY HeapAssumption, FS_Interval DEF Address
<1>3. Cardinality(1..n) <= Cardinality(Address)
  BY <1>1, <1>2, FS_Injection
<1>4. Cardinality(1..n) = n
  BY FS_Interval
<1> QED BY <1>2, <1>3, <1>4

LEMMA NetworkStands ==
  ASSUME shape \in Shapes, NEW h, NEW L, NEW lost, NEW S, NEW K, NEW loops, NEW r,
         Trees(h, L, lost, S, K, loops), Has(S, K, r)
  PROVE  Stands(h, L, r)
<1>1. /\ S \subseteq Site /\ K \subseteq Site /\ L \in [Site -> Address] /\ h \in Heaps
      /\ Laid(h, L, S, K, loops) /\ Apiece(L, S)
  BY DEF Trees, Laid
<1>2. Complete({r}) \subseteq S /\ Linked(Complete({r})) \subseteq K
  BY DEF Has
<1> SUFFICES ASSUME NEW s \in Complete({r})
             PROVE  L[s] \in Live(h) /\ ListOf(h, L[s]) = [i \in 1..Degree(s) |-> L[Nth(s, i)]]
  BY DEF Stands
<1>3. s \in S /\ s \in Site /\ s[1] = r
  BY <1>2 DEF Complete
<1>4. \A t \in S : t[1] = r =>
        /\ h[L[t]].first = At(L, Child(t)) /\ h[L[t]].next = At(L, Onward(t)) /\ L[t] \in Live(h)
  <2> SUFFICES ASSUME NEW t \in S, t[1] = r
               PROVE  /\ h[L[t]].first = At(L, Child(t)) /\ h[L[t]].next = At(L, Onward(t))
                      /\ L[t] \in Live(h)
    OBVIOUS
  <2>1. t \in Site /\ Linked(Complete({t[1]})) \subseteq K
    BY <1>1, <1>2
  <2>2. /\ h[L[t]].first = At(L, Child(t)) /\ h[L[t]].next = At(L, Onward(t))
        /\ Is(h, L[t], KindOf(t))
    BY <1>1, <2>1, PointersOf
  <2> QED BY <2>2 DEF Is
<1> DEFINE n == Degree(s)
           q == [i \in 1..n |-> L[Nth(s, i)]]
           nth(i) == Nth(s, i)
<1>5. /\ n \in Nat
      /\ \A i \in 1..n : /\ nth(i) \in Site /\ nth(i)[1] = r /\ Index(nth(i)) = i
                         /\ Onward(nth(i)) = nth(i + 1)
      /\ n > 0 => nth(n + 1) \notin Site
      /\ n > 0 => Child(s) = nth(1)
      /\ n = 0 => Child(s) \notin Site
  BY <1>3, NthIs
<1>6. \A i \in 1..n : nth(i) \in S
  BY <1>2, <1>5 DEF Complete
<1> HIDE DEF nth
<1>7. q = [i \in 1..n |-> L[nth(i)]]
  BY DEF nth
<1> HIDE DEF q, n
<1>8. q \in [1..n -> Address] /\ \A i \in 1..n : q[i] = L[nth(i)]
  BY <1>1, <1>5, <1>7
<1>9. n <= HeapSize
  <2>1. \A i, j \in 1..n : q[i] = q[j] => i = j
    BY <1>1, <1>5, <1>6, <1>8 DEF Apiece
  <2> QED BY <2>1, <1>5, <1>8, NoMoreThanAddresses
<1>10. Chain(h, q, n)
  <2> SUFFICES ASSUME NEW i \in 1..n
               PROVE  q[i] \in Live(h) /\ h[q[i]].next = IF i < n THEN q[i + 1] ELSE NULL
    BY DEF Chain
  <2>1. q[i] = L[nth(i)] /\ h[L[nth(i)]].next = At(L, nth(i + 1)) /\ L[nth(i)] \in Live(h)
    BY <1>4, <1>5, <1>6, <1>8
  <2>2. CASE i < n
    <3>1. i + 1 \in 1..n
      BY <2>2, <1>5
    <3> QED BY <2>1, <2>2, <3>1, <1>5, <1>8 DEF At
  <2>3. CASE ~(i < n)
    <3>1. i = n /\ n > 0
      BY <2>3, <1>5
    <3> QED BY <2>1, <2>3, <3>1, <1>5 DEF At
  <2> QED BY <2>2, <2>3
<1>11. h[L[s]].first = IF n = 0 THEN NULL ELSE q[1]
  <2>0. h[L[s]].first = At(L, Child(s)) /\ L[s] \in Live(h)
    BY <1>3, <1>4
  <2>1. CASE n = 0
    <3>1. Child(s) \notin Site
      BY <2>1, <1>5
    <3> QED BY <2>0, <2>1, <3>1 DEF At
  <2>2. CASE n # 0
    <3>1. 1 \in 1..n
      BY <2>2, <1>5
    <3> QED BY <2>0, <2>2, <3>1, <1>5, <1>8 DEF At
  <2> QED BY <2>1, <2>2
<1>12. ListFrom(h, h[L[s]].first) = q
  <2>1. n \in 0..HeapSize
    BY <1>5, <1>9, HeapAssumption
  <2> QED BY <2>1, <1>1, <1>8, <1>10, <1>11, ListFromChain
<1>13. L[s] \in Live(h) /\ h[L[s]] # Freed
  BY <1>3, <1>4 DEF Live
<1>14. ListOf(h, L[s]) = q
  BY <1>12, <1>13 DEF ListOf
<1> QED BY <1>13, <1>14 DEF q, n


\* A site is one of the list of its parent.
LEMMA NthOfUp ==
  ASSUME shape \in Shapes, NEW s \in Site, Index(s) > 0
  PROVE  Index(s) \in 1..Degree(Up(s)) /\ Nth(Up(s), Index(s)) = s
<1> DEFINE r == s[1]
           l == s[2]
           n == s[3]
           w == s[4]
<1>1. /\ s = <<r, l, n, w>> /\ r \in Role /\ l \in Nat /\ n \in Nat /\ w \in Nat
      /\ l <= Len(shape) /\ n <= NeuronsIn(l) /\ w <= (IF n = 0 THEN 0 ELSE WeightsIn(l))
  BY SiteParts
<1>2. /\ NeuronsIn(0) = 0 /\ Len(shape) \in Nat
      /\ l > 0 => NeuronsIn(l) \in Nat /\ WeightsIn(l) \in Nat
  BY <1>1, SiteSizes
<1>3. CASE w > 0
  <2>1. n > 0 /\ l > 0
    BY <1>1, <1>2, <1>3
  <2>2. Up(s) = <<r, l, n, 0>> /\ Index(s) = w
    BY <1>3 DEF Up, Index
  <2> QED BY <1>1, <1>2, <1>3, <2>1, <2>2 DEF Nth, Degree
<1>4. CASE w = 0 /\ n > 0
  <2>1. l > 0
    BY <1>1, <1>2, <1>4
  <2>2. Up(s) = <<r, l, 0, 0>> /\ Index(s) = n
    BY <1>4 DEF Up, Index
  <2> QED BY <1>1, <1>2, <1>4, <2>1, <2>2 DEF Nth, Degree
<1>5. CASE w = 0 /\ n = 0
  <2>1. Up(s) = <<r, 0, 0, 0>> /\ Index(s) = l /\ l > 0
    BY <1>1, <1>5 DEF Up, Index
  <2> QED BY <1>1, <1>2, <1>5, <2>1 DEF Nth, Degree
<1> QED BY <1>1, <1>3, <1>4, <1>5

\* The sites of a network that are of a kind, and those below them.
OfKind(r, kind) == {s \in Complete({r}) : KindOf(s) = kind}

LEMMA BelowIs ==
  ASSUME shape \in Shapes, NEW h, NEW L, NEW r, Stands(h, L, r),
         NEW kind \in {"network", "layer", "neuron"}
  PROVE  Below(h, Image(L, OfKind(r, kind))) = Image(L, OfKind(r, BelowKind[kind]))
<1>1. ASSUME NEW s \in OfKind(r, kind), NEW a \in Elements(ListOf(h, L[s]))
      PROVE  a \in Image(L, OfKind(r, BelowKind[kind]))
  <2>1. s \in Site /\ s[1] = r /\ KindOf(s) = kind /\ s \in Complete({r})
    BY DEF OfKind, Complete
  <2>2. ListOf(h, L[s]) = [i \in 1..Degree(s) |-> L[Nth(s, i)]]
    BY <2>1 DEF Stands
  <2>3. PICK i \in 1..Degree(s) : a = L[Nth(s, i)]
    BY <2>2 DEF Elements
  <2>4. Nth(s, i) \in Site /\ Nth(s, i)[1] = r /\ Up(Nth(s, i)) = s /\ Index(Nth(s, i)) = i /\ i > 0
    BY <2>1, NthIs
  <2>5. KindOf(Nth(s, i)) = BelowKind[kind]
    BY <2>1, <2>4, UpIs
  <2> QED BY <2>3, <2>4, <2>5 DEF Image, OfKind, Complete
<1>2. ASSUME NEW t \in OfKind(r, BelowKind[kind])
      PROVE  \E s \in OfKind(r, kind) : L[t] \in Elements(ListOf(h, L[s]))
  <2>1. t \in Site /\ t[1] = r /\ KindOf(t) = BelowKind[kind]
    BY DEF OfKind, Complete
  <2>2. Index(t) > 0
    <3>1. KindOf(t) # "network"
      BY <2>1, Kinds
    <3> QED BY <2>1, <3>1, SiteParts DEF KindOf, Index
  <2>3. Up(t) \in Site /\ Up(t)[1] = r /\ KindOf(t) = BelowKind[KindOf(Up(t))]
    BY <2>1, <2>2, UpIs
  <2>4. KindOf(Up(t)) = kind
    <3>1. KindOf(Up(t)) \in {"network", "layer", "neuron", "weight"}
      BY DEF KindOf
    <3> QED BY <2>1, <2>3, <3>1, Kinds
  <2>5. Up(t) \in OfKind(r, kind) /\ Up(t) \in Complete({r})
    BY <2>3, <2>4 DEF OfKind, Complete
  <2>6. Index(t) \in 1..Degree(Up(t)) /\ Nth(Up(t), Index(t)) = t
    BY <2>1, <2>2, NthOfUp
  <2>7. ListOf(h, L[Up(t)]) = [i \in 1..Degree(Up(t)) |-> L[Nth(Up(t), i)]]
    BY <2>5 DEF Stands
  <2>8. L[t] \in Elements(ListOf(h, L[Up(t)]))
    BY <2>6, <2>7 DEF Elements
  <2> QED BY <2>5, <2>8
<1> QED BY <1>1, <1>2 DEF Below, Image

\* The nodes of a complete network are those of its sites.
LEMMA NodesAre ==
  ASSUME shape \in Shapes, NEW h, NEW L, NEW r \in Role, Stands(h, L, r)
  PROVE  NodesOf(h, L[<<r, 0, 0, 0>>]) = Image(L, Complete({r}))
<1>1. OfKind(r, "network") = {<<r, 0, 0, 0>>}
  <2>1. <<r, 0, 0, 0>> \in OfKind(r, "network")
    BY RootsThere, SiteIs DEF OfKind, KindOf, Complete
  <2>2. ASSUME NEW s \in OfKind(r, "network") PROVE s = <<r, 0, 0, 0>>
    BY SiteParts DEF OfKind, KindOf, Complete
  <2> QED BY <2>1, <2>2
<1>2. Image(L, OfKind(r, "network")) = {L[<<r, 0, 0, 0>>]}
  BY <1>1 DEF Image
<1>3. /\ Below(h, Image(L, OfKind(r, "network"))) = Image(L, OfKind(r, "layer"))
      /\ Below(h, Image(L, OfKind(r, "layer"))) = Image(L, OfKind(r, "neuron"))
      /\ Below(h, Image(L, OfKind(r, "neuron"))) = Image(L, OfKind(r, "weight"))
  <2>1. BelowKind["network"] = "layer" /\ BelowKind["layer"] = "neuron" /\ BelowKind["neuron"] = "weight"
    BY Kinds
  <2> QED BY <2>1, BelowIs
<1>4. Complete({r}) = OfKind(r, "network") \cup OfKind(r, "layer") \cup OfKind(r, "neuron")
                      \cup OfKind(r, "weight")
  BY DEF OfKind, KindOf
<1>5. Image(L, Complete({r})) = Image(L, OfKind(r, "network")) \cup Image(L, OfKind(r, "layer"))
                                \cup Image(L, OfKind(r, "neuron")) \cup Image(L, OfKind(r, "weight"))
  BY <1>4 DEF Image
<1> QED BY <1>2, <1>3, <1>5 DEF NodesOf

\* What a complete network holds.
LEMMA ContentIs ==
  ASSUME shape \in Shapes, NEW h, NEW L, NEW r \in Role, Stands(h, L, r)
  PROVE  ContentOf(h, L[<<r, 0, 0, 0>>]) = Content(h, L, r)
<1> DEFINE o == <<r, 0, 0, 0>>
           l(i) == <<r, i, 0, 0>>
           m(i, j) == <<r, i, j, 0>>
           w(i, j, k) == <<r, i, j, k>>
<1>1. ListOf(h, L[o]) = [i \in 1..Len(shape) |-> L[l(i)]]
  <2>1. o \in Complete({r}) /\ Degree(o) = Len(shape) /\ \A i : Nth(o, i) = l(i)
    BY RootsThere DEF Degree, Nth
  <2> QED BY <2>1 DEF Stands
<1>2. ASSUME NEW i \in 1..Len(shape)
      PROVE  ListOf(h, L[l(i)]) = [j \in 1..NeuronsIn(i) |-> L[m(i, j)]]
  <2>0. i # 0
    BY SiteSizes
  <2>1. l(i) \in Complete({r}) /\ Degree(l(i)) = NeuronsIn(i) /\ \A j : Nth(l(i), j) = m(i, j)
    BY <2>0, CompleteSites DEF Degree, Nth
  <2> QED BY <2>1 DEF Stands
<1>3. ASSUME NEW i \in 1..Len(shape), NEW j \in 1..NeuronsIn(i)
      PROVE  ListOf(h, L[m(i, j)]) = [k \in 1..WeightsIn(i) |-> L[w(i, j, k)]]
  <2>0. i # 0 /\ j # 0
    BY SiteSizes
  <2>1. m(i, j) \in Complete({r}) /\ Degree(m(i, j)) = WeightsIn(i)
        /\ \A k : Nth(m(i, j), k) = w(i, j, k)
    BY <2>0, CompleteSites DEF Degree, Nth
  <2> QED BY <2>1 DEF Stands
<1> HIDE DEF o, l, m, w
<1>4. ASSUME NEW i \in 1..Len(shape), NEW j \in 1..NeuronsIn(i)
      PROVE  ValuesOf(h, L[m(i, j)]) = [k \in 1..WeightsIn(i) |-> h[L[w(i, j, k)]].value]
  <2> DEFINE q == ListOf(h, L[m(i, j)])
  <2>1. DOMAIN q = 1..WeightsIn(i) /\ \A k \in 1..WeightsIn(i) : q[k] = L[w(i, j, k)]
    BY <1>3
  <2>2. ValuesOf(h, L[m(i, j)]) = [k \in DOMAIN q |-> h[q[k]].value]
    BY DEF ValuesOf
  <2> HIDE DEF q
  <2> QED BY <2>1, <2>2
<1>5. ASSUME NEW i \in 1..Len(shape)
      PROVE  [j \in DOMAIN ListOf(h, L[l(i)]) |->
                <<h[ListOf(h, L[l(i)])[j]].value, ValuesOf(h, ListOf(h, L[l(i)])[j])>>]
             = [j \in 1..NeuronsIn(i) |->
                <<h[L[m(i, j)]].value, [k \in 1..WeightsIn(i) |-> h[L[w(i, j, k)]].value]>>]
  <2> DEFINE q == ListOf(h, L[l(i)])
             value(j) == <<h[L[m(i, j)]].value, [k \in 1..WeightsIn(i) |-> h[L[w(i, j, k)]].value]>>
  <2>1. DOMAIN q = 1..NeuronsIn(i) /\ \A j \in 1..NeuronsIn(i) : q[j] = L[m(i, j)]
    BY <1>2
  <2>2. \A j \in 1..NeuronsIn(i) : <<h[q[j]].value, ValuesOf(h, q[j])>> = value(j)
    BY <1>4, <2>1
  <2> HIDE DEF q, value
  <2>3. [j \in DOMAIN q |-> <<h[q[j]].value, ValuesOf(h, q[j])>>] = [j \in 1..NeuronsIn(i) |-> value(j)]
    BY <2>1, <2>2
  <2> QED BY <2>3 DEF q, value
<1>6. ContentOf(h, L[o]) = [i \in 1..Len(shape) |-> [j \in 1..NeuronsIn(i) |->
        <<h[L[m(i, j)]].value, [k \in 1..WeightsIn(i) |-> h[L[w(i, j, k)]].value]>>]]
  <2> DEFINE q == ListOf(h, L[o])
             here(a) == [j \in DOMAIN ListOf(h, a) |->
                <<h[ListOf(h, a)[j]].value, ValuesOf(h, ListOf(h, a)[j])>>]
             there(i) == [j \in 1..NeuronsIn(i) |->
                <<h[L[m(i, j)]].value, [k \in 1..WeightsIn(i) |-> h[L[w(i, j, k)]].value]>>]
  <2>1. DOMAIN q = 1..Len(shape) /\ \A i \in 1..Len(shape) : q[i] = L[l(i)]
    BY <1>1
  <2>2. \A i \in 1..Len(shape) : here(L[l(i)]) = there(i)
    BY <1>5
  <2>3. ContentOf(h, L[o]) = [i \in DOMAIN q |-> here(q[i])]
    BY DEF ContentOf
  <2> HIDE DEF q, here, there
  <2>4. ContentOf(h, L[o]) = [i \in 1..Len(shape) |-> there(i)]
    BY <2>1, <2>2, <2>3
  <2> QED BY <2>4 DEF there
<1> QED BY <1>6 DEF o, m, w, Content


-----------------------------------------------------------------------------
(* How many nodes a network has.                                             *)

\* A map that is one to one says that two sets have as many elements.
LEMMA AsMany ==
  ASSUME NEW S, NEW T, IsFiniteSet(S), NEW f \in [S -> T],
         \A s, t \in S : f[s] = f[t] => s = t, \A t \in T : \E s \in S : f[s] = t
  PROVE  IsFiniteSet(T) /\ Cardinality(T) = Cardinality(S)
<1>1. f \in Bijection(S, T)
  BY DEF Bijection, Injection, Surjection, IsInjective
<1>2. ExistsBijection(S, T)
  BY <1>1 DEF ExistsBijection
<1> QED BY <1>2, FS_Bijection

\* The nodes of a complete network are as many as those of the sum.
LEMMA SizeOf ==
  ASSUME shape \in Shapes, NEW L \in [Site -> Address], NEW r \in Role,
         Apiece(L, Complete({r}))
  PROVE  /\ IsFiniteSet(Image(L, Complete({r}))) /\ Cardinality(Image(L, Complete({r}))) = Size
         /\ Size \in Nat
<1> DEFINE S == Complete({r})
           f == [s \in S |-> L[s]]
           g == [s \in S |-> <<"control", s[2], s[3], s[4]>>]
<1>0. S \subseteq Site /\ \A s, t \in S : L[s] = L[t] => s = t
  BY DEF Apiece, Complete
<1>1. IsFiniteSet(S)
  <2>1. IsFiniteSet(Address)
    BY HeapAssumption, FS_Interval DEF Address
  <2>2. f \in Injection(S, Address)
    BY <1>0 DEF Injection, IsInjective
  <2> HIDE DEF f, S
  <2> QED BY <2>1, <2>2, FS_Injection
<1>2. IsFiniteSet(Complete({"control"})) /\ Cardinality(Complete({"control"})) = Cardinality(S)
  <2>1. \A s \in S : s = <<r, s[2], s[3], s[4]>> /\ s[2] \in Nat /\ s[3] \in Nat /\ s[4] \in Nat
                     /\ <<r, s[2], s[3], s[4]>> \in Site
    BY SiteParts DEF Complete
  <2>2. "control" \in Role
    BY DEF Role
  <2>3. \A s \in S : g[s] \in Complete({"control"})
    <3> TAKE s \in S
    <3>1. <<"control", s[2], s[3], s[4]>> \in Site
      BY <2>1, <2>2, SiteIs
    <3> QED BY <3>1 DEF Complete
  <2>4. \A s, t \in S : g[s] = g[t] => s = t
    BY <2>1
  <2>5. \A t \in Complete({"control"}) : \E s \in S : g[s] = t
    <3> TAKE t \in Complete({"control"})
    <3>1. t \in Site /\ t = <<"control", t[2], t[3], t[4]>>
      BY SiteParts DEF Complete
    <3>2. <<r, t[2], t[3], t[4]>> \in Site
      BY <3>1, SiteIs
    <3>3. <<r, t[2], t[3], t[4]>> \in S
      BY <3>2 DEF Complete
    <3> WITNESS <<r, t[2], t[3], t[4]>> \in S
    <3> QED BY <3>1, <3>3
  <2>6. g \in [S -> Complete({"control"})]
    BY <2>3
  <2> HIDE DEF g, S
  <2> QED BY <1>1, <2>4, <2>5, <2>6, AsMany
<1>3. IsFiniteSet(Image(L, S)) /\ Cardinality(Image(L, S)) = Cardinality(S)
  <2>1. f \in [S -> Image(L, S)] /\ \A s, t \in S : f[s] = f[t] => s = t
    BY <1>0 DEF Image
  <2>2. \A t \in Image(L, S) : \E s \in S : f[s] = t
    BY DEF Image
  <2> HIDE DEF f, S
  <2> QED BY <1>1, <2>1, <2>2, AsMany
<1>4. Size \in Nat
  BY <1>2, FS_CardinalityType DEF Size
<1> QED BY <1>2, <1>3, <1>4 DEF Size

\* What is lost in one more round.
LEMMA LostMore ==
  ASSUME NEW n \in Nat, NEW lost, NEW more, Lost(lost, n), IsFiniteSet(more),
         Cardinality(more) = Size, Size \in Nat, lost \cap more = {}
  PROVE  Lost(lost \cup more, n + 1)
<1>1. IsFiniteSet(lost) /\ Cardinality(lost) = n * Size
  <2>1. CASE n = 0
    BY <2>1, FS_EmptySet DEF Lost
  <2>2. CASE n # 0
    BY <2>2 DEF Lost
  <2> QED BY <2>1, <2>2
<1>2. /\ IsFiniteSet(lost \cup more)
      /\ Cardinality(lost \cup more) = Cardinality(lost) + Cardinality(more) - Cardinality(lost \cap more)
  BY <1>1, FS_Union
<1>3. Cardinality(lost \cap more) = 0
  BY FS_EmptySet
<1>4. Cardinality(lost \cup more) = (n + 1) * Size
  BY <1>1, <1>2, <1>3
<1> QED BY <1>2, <1>4 DEF Lost


-----------------------------------------------------------------------------
(* The model is summed, and the global network is about to be freed.         *)

\* The networks that are complete.
LEMMA OfRoleComplete ==
  ASSUME NEW R, NEW Q, Q \subseteq R
  PROVE  /\ OfRole(Complete(R), Q) = Complete(Q)
         /\ OfRole(Linked(Complete(R)), Q) = Linked(Complete(Q))
BY DEF OfRole, Complete, Linked

LEMMA HasComplete ==
  ASSUME NEW R, NEW r \in R
  PROVE  Has(Complete(R), Linked(Complete(R)), r)
BY DEF Has, Complete, Linked

\* The client's model is lost.
LEMMA ClientIsLost ==
  ASSUME shape \in Shapes, NEW h, NEW L, NEW lost, NEW n \in Nat,
         Trees(h, L, lost, Complete(Role), Linked(Complete(Role)), "none"), Lost(lost, n)
  PROVE  \E more \in SUBSET Address :
           /\ Lost(more, n + 1)
           /\ Trees(h, L, more, Complete({"control", "global"}),
                    Linked(Complete({"control", "global"})), "none")
<1> DEFINE S == Complete(Role)
           Q == {"control", "global"}
           gone == Image(L, OfRole(S, Role \ Q))
           more == lost \cup gone
<1>1. Linked(S) \subseteq S /\ Q \subseteq Role
  BY DEF Linked, Role
<1>2. Splits(L, Q, lost, S, Linked(S), more, Complete(Q), Linked(Complete(Q)))
  <2> HIDE DEF Q
  <2> QED BY <1>1, OfRoleComplete DEF Splits
<1>3. Trees(h, L, more, Complete(Q), Linked(Complete(Q)), "none")
  <2>1. Trees(h, L, lost, S, Linked(S), "none")
    OBVIOUS
  <2> HIDE DEF Q, more, S
  <2> QED BY <2>1, <1>1, <1>2, TreesLose
<1>4. OfRole(S, Role \ Q) = Complete({"client"})
  BY DEF OfRole, Complete, Role
<1>5. /\ L \in [Site -> Address] /\ Apiece(L, S) /\ lost \cap Image(L, S) = {}
      /\ Complete({"client"}) \subseteq S
  BY DEF Trees, Laid, Complete, Role
<1>6. Apiece(L, Complete({"client"})) /\ gone = Image(L, Complete({"client"}))
      /\ gone \subseteq Image(L, S)
  BY <1>4, <1>5 DEF Apiece, Image
<1>7. IsFiniteSet(gone) /\ Cardinality(gone) = Size /\ Size \in Nat
  <2>1. "client" \in Role
    BY DEF Role
  <2> QED BY <2>1, <1>5, <1>6, SizeOf
<1>8. Lost(more, n + 1)
  <2>1. lost \cap gone = {}
    BY <1>5, <1>6
  <2> HIDE DEF gone
  <2> QED BY <2>1, <1>7, LostMore
<1>9. more \in SUBSET Address
  BY <1>3 DEF Trees, Live
<1> HIDE DEF more, Q
<1> QED BY <1>3, <1>8, <1>9 DEF Q

LEMMA AverageWhole == ASSUME ListsInv, WholeInv, Average PROVE WholeInv'
<1>1. /\ doing' = [proc |-> "free", network |-> global, layer |-> heap[global].first,
                   neuron |-> NULL, weight |-> NULL, descended |-> FALSE]
      /\ client # NULL /\ doing = Idle /\ average' = ContentOf(heap', control)
      /\ shape' = shape /\ control' = control /\ round' = round
  BY DEF Average, Serving
<1>2. shape \in Shapes /\ round \in Nat /\ heap' \in Heaps /\ SamePointers(heap, heap')
  BY AverageAssigns DEF ListsInv, TypeInv
<1>3. PICK L \in [Site -> Address], R \in SUBSET Role, lost \in SUBSET Address :
        RestingAt(heap, global, control, client, average, round, L, R, lost)
  BY <1>1 DEF WholeInv, WholeLists, Resting
<1>4. /\ Trees(heap, L, lost, Complete(R), Linked(Complete(R)), "none")
      /\ Roots(global, control, client, L, R) /\ Lost(lost, round)
  BY <1>3 DEF RestingAt
<1>5. R = Role
  <2>1. client # NULL /\ control # NULL /\ global # NULL
    BY <1>1 DEF ListsInv, RootInv
  <2>2. "client" \in R /\ "control" \in R /\ "global" \in R
    BY <1>4, <2>1 DEF Roots
  <2> QED BY <2>2 DEF Role
<1>6. Trees(heap', L, lost, Complete(Role), Linked(Complete(Role)), "none")
  BY <1>2, <1>4, <1>5, TreesSame
<1>7. PICK more \in SUBSET Address :
        /\ Lost(more, round + 1)
        /\ Trees(heap', L, more, Complete({"control", "global"}),
                 Linked(Complete({"control", "global"})), "none")
  BY <1>2, <1>4, <1>6, ClientIsLost
<1>8. control = L[<<"control", 0, 0, 0>>] /\ global = L[<<"global", 0, 0, 0>>]
  BY <1>4, <1>5 DEF Roots, Role
<1>9. average' = Content(heap', L, "control")
  <2>1. "control" \in Role
    BY DEF Role
  <2>2. Stands(heap', L, "control")
    BY <2>1, <1>2, <1>6, HasComplete, NetworkStands
  <2> QED BY <2>1, <2>2, <1>1, <1>2, <1>8, ContentIs
<1>10. heap[global].first = At(L, <<"global", 1, 0, 0>>)
  <2> DEFINE s == <<"global", 0, 0, 0>>
             S == Complete(Role)
  <2>1. s \in Site /\ s \in S /\ s[1] = "global" /\ Child(s) = <<"global", 1, 0, 0>>
    BY <1>2, RootsThere DEF Role, Child
  <2>2. Laid(heap, L, S, Linked(S), "none") /\ Linked(S) \subseteq Site
    BY <1>4, <1>5 DEF Trees
  <2>3. Linked(Complete({s[1]})) \subseteq Linked(S)
    BY <2>1 DEF Linked, Complete, Role
  <2>4. heap[L[s]].first = At(L, Child(s))
    <3> HIDE DEF s, S
    <3> QED BY <2>1, <2>2, <2>3, <1>2, PointersOf
  <2> QED BY <2>1, <2>4, <1>8
<1>11. LeavingAt(heap', control', doing', average', round', L, more, 1, 1, 1)
  <2>1. Complete({"control"}) \cup Rest(1, 1, 1) = Complete({"control", "global"})
    <3>1. Complete({"control", "global"}) = Complete({"control"}) \cup Complete({"global"})
      BY DEF Complete
    <3> QED BY <3>1, <1>2, RestStart
  <2>2. 1 \in 1..Len(shape) + 1
    BY <1>2, SiteSizes
  <2>3. /\ doing'.network = global /\ doing'.layer = heap[global].first
        /\ doing'.descended = FALSE
    BY <1>1
  <2> QED BY <2>1, <2>2, <2>3, <1>1, <1>7, <1>8, <1>9, <1>10 DEF LeavingAt
<1>12. Leaving(heap', control', doing', average', round')
  BY <1>11 DEF Leaving
<1> QED BY <1>1, <1>12, WholeNow


-----------------------------------------------------------------------------
(* The global network is freed, node by node.                                *)

\* What the pointers of its nodes say.
LEMMA LeavingPointers ==
  ASSUME shape \in Shapes, NEW h, NEW co, NEW d, NEW v, NEW n, NEW L, NEW lost,
         NEW i, NEW j, NEW k, LeavingAt(h, co, d, v, n, L, lost, i, j, k),
         NEW s \in Rest(i, j, k)
  PROVE  /\ s \in Site /\ L[s] \in Live(h) /\ h[L[s]] # Freed /\ L[s] # NULL
         /\ h[L[s]].first = At(L, Child(s)) /\ h[L[s]].next = At(L, Onward(s))
<1> DEFINE S == Complete({"control"}) \cup Rest(i, j, k)
           K == Linked(Complete({"control", "global"}))
<1>1. Trees(h, L, lost, S, K, "none")
  BY DEF LeavingAt
<1>2. Laid(h, L, S, K, "none") /\ K \subseteq Site /\ s \in S /\ s \in Site
  BY <1>1 DEF Trees, Rest
<1>3. s[1] = "global"
  BY DEF Rest
<1>4. Linked(Complete({s[1]})) \subseteq K
  BY <1>3 DEF Linked, Complete
<1> HIDE DEF S, K
<1>5. /\ h[L[s]].first = At(L, Child(s)) /\ h[L[s]].next = At(L, Onward(s))
      /\ Is(h, L[s], KindOf(s))
  BY <1>2, <1>4, PointersOf
<1>6. L[s] \in Live(h)
  BY <1>5 DEF Is
<1> QED BY <1>2, <1>5, <1>6 DEF Live, Address, NULL

\* What freeing the node of a site leaves.
Frees1(i, j, k, s, l, m, w) == s \in Rest(i, j, k) /\ Rest(l, m, w) = Rest(i, j, k) \ {s}
Left(h, v, L, lost, i, j, k) ==
  /\ Trees(h, L, lost, Complete({"control"}) \cup Rest(i, j, k),
           Linked(Complete({"control", "global"})), "none")
  /\ v = Content(h, L, "control")

LEMMA FreedRest ==
  ASSUME shape \in Shapes, NEW h, NEW co, NEW d, NEW v, NEW n, NEW L, NEW lost,
         NEW i, NEW j, NEW k, LeavingAt(h, co, d, v, n, L, lost, i, j, k),
         NEW s \in Rest(i, j, k), NEW S, S = Complete({"control"}) \cup Rest(i, j, k),
         NEW T, Without(S, s, T), NEW g, NEW a, Puts(L, s, a), Gone(h, g, a)
  PROVE  /\ Trees(g, L, lost, T, Linked(Complete({"control", "global"})), "none")
         /\ v = Content(g, L, "control")
<1> DEFINE K == Linked(Complete({"control", "global"}))
<1>1. Trees(h, L, lost, S, K, "none") /\ v = Content(h, L, "control")
  BY DEF LeavingAt
<1>2. s \in S /\ s \notin Complete({"control"}) /\ Complete({"control"}) \subseteq T
  BY DEF Without, Rest, Complete
<1>3. Trees(g, L, lost, T, K, "none")
  <2> HIDE DEF K
  <2> QED BY <1>1, <1>2, TreesFree
<1>4. SameValues(h, g, L, L, "control", "control")
  <2> SUFFICES ASSUME NEW t \in Complete({"control"})
               PROVE  g[L[<<"control", t[2], t[3], t[4]>>]].value = h[L[t]].value
    BY DEF SameValues
  <2>1. t = <<"control", t[2], t[3], t[4]>>
    BY SiteParts DEF Complete
  <2>2. t \in T /\ L[t] \in Live(g)
    BY <1>2, <1>3 DEF Trees, Image
  <2>3. g[L[t]] = h[L[t]]
    BY <2>2 DEF Gone
  <2> QED BY <2>1, <2>3
<1>5. v = Content(g, L, "control")
  <2>1. "control" \in Role
    BY DEF Role
  <2> QED BY <2>1, <1>1, <1>4, SameContent
<1> QED BY <1>3, <1>5

LEMMA LeavesBy ==
  ASSUME shape \in Shapes, NEW h, NEW co, NEW d, NEW v, NEW n, NEW L, NEW lost,
         NEW i, NEW j, NEW k, LeavingAt(h, co, d, v, n, L, lost, i, j, k),
         NEW s, NEW l, NEW m, NEW w, Frees1(i, j, k, s, l, m, w),
         NEW g, NEW a, Puts(L, s, a), Gone(h, g, a)
  PROVE  Left(g, v, L, lost, l, m, w)
<1> DEFINE S == Complete({"control"}) \cup Rest(i, j, k)
           T == Complete({"control"}) \cup Rest(l, m, w)
<1>1. s \in Rest(i, j, k) /\ Without(S, s, T)
  BY DEF Frees1, Without, Rest, Complete
<1>2. S = Complete({"control"}) \cup Rest(i, j, k)
  OBVIOUS
<1> HIDE DEF S, T
<1>3. /\ Trees(g, L, lost, T, Linked(Complete({"control", "global"})), "none")
      /\ v = Content(g, L, "control")
  BY <1>1, <1>2, FreedRest
<1> QED BY <1>3 DEF Left, T

\* The node that a cursor names, and none past the end of a list.
LEMMA AtIs ==
  ASSUME NEW L \in [Site -> Address], NEW s
  PROVE  At(L, s) # NULL <=> s \in Site
BY DEF At, Address, NULL

LEMMA GlobalSites ==
  ASSUME shape \in Shapes, NEW i \in Nat, NEW j \in Nat, NEW k \in Nat, i > 0
  PROVE  /\ <<"global", i, 0, 0>> \in Site <=> i <= Len(shape)
         /\ j > 0 => (<<"global", i, j, 0>> \in Site <=> i <= Len(shape) /\ j <= NeuronsIn(i))
         /\ j > 0 /\ k > 0 => (<<"global", i, j, k>> \in Site
                               <=> i <= Len(shape) /\ j <= NeuronsIn(i) /\ k <= WeightsIn(i))
<1>1. "global" \in Role /\ Len(shape) \in Nat
  BY SiteSizes DEF Role
<1>2. i <= Len(shape) => NeuronsIn(i) \in Nat /\ WeightsIn(i) \in Nat
  BY <1>1, SiteSizes
<1> QED BY <1>1, <1>2, SiteIs

LEMMA LeavesTo ==
  ASSUME shape \in Shapes, NEW h, NEW g, NEW co, NEW d, NEW e, NEW v, NEW n, NEW L, NEW lost,
         NEW i, NEW j, NEW k, LeavingAt(h, co, d, v, n, L, lost, i, j, k),
         NEW l, NEW m, NEW w, Left(g, v, L, lost, l, m, w), e.network = d.network,
         l \in 1..Len(shape) + 1, e.layer = At(L, <<"global", l, 0, 0>>),
         IF e.descended
         THEN /\ l <= Len(shape) /\ m \in 1..NeuronsIn(l) + 1 /\ w \in 1..WeightsIn(l) + 1
              /\ m > NeuronsIn(l) => w = 1
              /\ e.neuron = At(L, <<"global", l, m, 0>>) /\ e.weight = At(L, <<"global", l, m, w>>)
         ELSE m = 1 /\ w = 1
  PROVE  LeavingAt(g, co, e, v, n, L, lost, l, m, w)
BY DEF LeavingAt, Left


\* Where freeNeuralNetwork is.
LeavingFacts(L, lost, i, j, k) ==
  /\ LeavingAt(heap, control, doing, average, round, L, lost, i, j, k)
  /\ shape \in Shapes /\ doing \in Frees /\ heap \in Heaps
  /\ L \in [Site -> Address] /\ lost \in SUBSET Address
  /\ i \in Nat /\ j \in Nat /\ k \in Nat /\ i \in 1..Len(shape) + 1 /\ Len(shape) \in Nat
  /\ doing.layer = At(L, <<"global", i, 0, 0>>)
  /\ ~doing.descended => j = 1 /\ k = 1 /\ doing.neuron = NULL /\ doing.weight = NULL
  /\ doing.descended =>
       /\ i <= Len(shape) /\ NeuronsIn(i) \in Nat /\ WeightsIn(i) \in Nat
       /\ j \in 1..NeuronsIn(i) + 1 /\ k \in 1..WeightsIn(i) + 1
       /\ j > NeuronsIn(i) => k = 1
       /\ doing.neuron = At(L, <<"global", i, j, 0>>)
       /\ doing.weight = At(L, <<"global", i, j, k>>)

LEMMA InLeaving ==
  ASSUME ListsInv, WholeInv, doing.proc = "free"
  PROVE  \E L, lost, i, j, k : LeavingFacts(L, lost, i, j, k)
<1>1. shape \in Shapes /\ heap \in Heaps /\ doing \in Frees
  BY WhatIsDone DEF ListsInv, TypeInv
<1>2. PICK L \in [Site -> Address], lost \in SUBSET Address, i \in Nat, j \in Nat, k \in Nat :
        LeavingAt(heap, control, doing, average, round, L, lost, i, j, k)
  BY DEF WholeInv, WholeLists, Leaving
<1>3. i \in 1..Len(shape) + 1 /\ Len(shape) \in Nat
  BY <1>1, <1>2, SiteSizes DEF LeavingAt
<1>4. i <= Len(shape) => NeuronsIn(i) \in Nat /\ WeightsIn(i) \in Nat
  BY <1>1, <1>3, SiteSizes
<1>5. ~doing.descended => doing.neuron = NULL /\ doing.weight = NULL
  BY DEF ListsInv, FreeInv
<1>6. LeavingFacts(L, lost, i, j, k)
  BY <1>1, <1>2, <1>3, <1>4, <1>5 DEF LeavingFacts, LeavingAt
<1> QED BY <1>6

\* It is there afterwards.
LEMMA LeavingNow ==
  ASSUME UNCHANGED <<shape, control, average, round>>, doing'.proc = "free",
         NEW L, NEW lost, NEW i, NEW j, NEW k, LeavingFacts(L, lost, i, j, k),
         NEW l \in Nat, NEW m \in Nat, NEW w \in Nat,
         LeavingAt(heap', control, doing', average, round, L, lost, l, m, w)
  PROVE  WholeInv'
<1>1. Leaving(heap', control', doing', average', round')
  BY DEF Leaving, LeavingFacts
<1> QED BY <1>1, WholeNow

LEMMA EnterLayerWhole == ASSUME ListsInv, WholeInv, EnterLayer PROVE WholeInv'
<1>1. /\ doing.proc = "free" /\ doing.layer # NULL /\ ~doing.descended
      /\ doing' = [doing EXCEPT !.neuron = FirstOf(doing.layer),
                     !.weight = FirstOf(FirstOf(doing.layer)), !.descended = TRUE]
      /\ UNCHANGED <<shape, heap, control, average, round>>
  BY DEF EnterLayer
<1>2. PICK L, lost, i, j, k : LeavingFacts(L, lost, i, j, k)
  BY <1>1, InLeaving
<1> USE <1>2 DEF LeavingFacts
<1>3. j = 1 /\ k = 1
  BY <1>1
<1>4. i > 0 /\ i <= Len(shape)
  BY <1>1, AtIs, GlobalSites
<1>5. NeuronsIn(i) \in Nat /\ NeuronsIn(i) > 1 /\ WeightsIn(i) \in Nat
  BY <1>4, SiteSizes
<1> DEFINE x == <<"global", i, 0, 0>>
           y == <<"global", i, 1, 0>>
<1>6. x \in Site /\ y \in Site
  BY <1>4, <1>5, GlobalSites
<1>7. x \in Rest(i, j, k) /\ y \in Rest(i, j, k)
  BY <1>3, <1>6 DEF Rest
<1>8. Child(x) = y /\ Child(y) = <<"global", i, 1, 1>>
  BY <1>4 DEF Child
<1>9. /\ heap[L[x]] # Freed /\ L[x] # NULL /\ heap[L[x]].first = At(L, y)
      /\ heap[L[y]] # Freed /\ L[y] # NULL /\ heap[L[y]].first = At(L, <<"global", i, 1, 1>>)
  <2> HIDE DEF x, y, LeavingFacts
  <2>1. LeavingAt(heap, control, doing, average, round, L, lost, i, j, k) /\ shape \in Shapes
    BY DEF LeavingFacts
  <2> QED BY <1>7, <1>8, <2>1, LeavingPointers
<1>10. doing.layer = L[x] /\ At(L, y) = L[y]
  BY <1>6 DEF At
<1>11. FirstOf(doing.layer) = At(L, y) /\ FirstOf(FirstOf(doing.layer)) = At(L, <<"global", i, 1, 1>>)
  BY <1>9, <1>10 DEF FirstOf
<1>12. /\ doing'.proc = "free" /\ doing'.network = doing.network /\ doing'.layer = doing.layer
       /\ doing'.neuron = At(L, y) /\ doing'.weight = At(L, <<"global", i, 1, 1>>)
       /\ doing'.descended
  BY <1>1, <1>11 DEF Frees
<1>13. LeavingAt(heap', control, doing', average, round, L, lost, i, 1, 1)
  BY <1>1, <1>3, <1>4, <1>5, <1>12 DEF LeavingAt
<1> QED BY <1>1, <1>2, <1>12, <1>13, LeavingNow

LEMMA FreeWeightWhole == ASSUME ListsInv, WholeInv, FreeWeight PROVE WholeInv'
<1>1. /\ doing.proc = "free" /\ doing.weight # NULL
      /\ heap' = [heap EXCEPT ![doing.weight] = Freed]
      /\ doing' = [doing EXCEPT !.weight = After(doing.weight)]
      /\ UNCHANGED <<shape, control, average, round>>
  BY DEF FreeWeight, FreeNode
<1>2. PICK L, lost, i, j, k : LeavingFacts(L, lost, i, j, k)
  BY <1>1, InLeaving
<1> DEFINE s == <<"global", i, j, k>>
           q == k + 1
<1>3. /\ doing.descended /\ i > 0 /\ i <= Len(shape) /\ j \in 1..NeuronsIn(i)
      /\ k \in 1..WeightsIn(i) /\ s \in Site /\ doing.weight = L[s]
  <2> USE <1>2 DEF LeavingFacts
  <2>1. doing.descended
    BY <1>1
  <2>2. s \in Site
    BY <1>1, <2>1, AtIs
  <2>3. doing.weight = L[s]
    BY <2>1, <2>2 DEF At
  <2>4. i > 0 /\ j > 0 /\ k > 0
    BY <2>1
  <2>5. i <= Len(shape) /\ j <= NeuronsIn(i) /\ k <= WeightsIn(i)
    BY <2>2, <2>4, GlobalSites
  <2> QED BY <2>1, <2>2, <2>3, <2>4, <2>5
<1>4. i \in 1..Len(shape)
  BY <1>2, <1>3 DEF LeavingFacts
<1>5. Frees1(i, j, k, s, i, j, q)
  BY <1>2, <1>3, <1>4, RestWeight DEF LeavingFacts, Frees1
<1>6. Onward(s) = <<"global", i, j, q>>
  BY <1>3 DEF Onward
<1>7. /\ L[s] \in Live(heap) /\ heap[L[s]] # Freed /\ heap[L[s]].next = At(L, Onward(s))
  <2> HIDE DEF s, q
  <2> QED BY <1>2, <1>5, LeavingPointers DEF LeavingFacts, Frees1
<1>8. Gone(heap, heap', doing.weight)
  BY <1>1, <1>2, <1>3, <1>7, FreedIsGone DEF LeavingFacts
<1>9. Left(heap', average, L, lost, i, j, q)
  <2>1. Puts(L, s, doing.weight)
    BY <1>3 DEF Puts
  <2> HIDE DEF s, q
  <2> QED BY <1>2, <1>5, <1>8, <2>1, LeavesBy DEF LeavingFacts
<1>10. After(doing.weight) = At(L, <<"global", i, j, q>>)
  BY <1>3, <1>6, <1>7 DEF After
<1>11. /\ doing'.proc = "free" /\ doing'.network = doing.network /\ doing'.layer = doing.layer
       /\ doing'.neuron = doing.neuron /\ doing'.weight = At(L, <<"global", i, j, q>>)
       /\ doing'.descended
  BY <1>1, <1>2, <1>3, <1>10 DEF Frees, LeavingFacts
<1>12. /\ q \in Nat /\ i \in 1..Len(shape) + 1 /\ q \in 1..WeightsIn(i) + 1
       /\ j \in 1..NeuronsIn(i) + 1 /\ ~(j > NeuronsIn(i))
  BY <1>2, <1>3, <1>4 DEF LeavingFacts
<1>13. LeavingAt(heap', control, doing', average, round, L, lost, i, j, q)
  <2> HIDE DEF q
  <2>1. doing'.layer = At(L, <<"global", i, 0, 0>>) /\ doing'.neuron = At(L, <<"global", i, j, 0>>)
    BY <1>2, <1>3, <1>11 DEF LeavingFacts
  <2> QED BY <1>2, <1>3, <1>9, <1>11, <1>12, <2>1, LeavesTo DEF LeavingFacts
<1>14. j \in Nat /\ i \in Nat
  BY <1>2 DEF LeavingFacts
<1> HIDE DEF q
<1> QED BY <1>1, <1>2, <1>11, <1>12, <1>13, <1>14, LeavingNow


LEMMA FreeNeuronWhole == ASSUME ListsInv, WholeInv, FreeNeuron PROVE WholeInv'
<1>1. /\ doing.proc = "free" /\ doing.descended /\ doing.neuron # NULL /\ doing.weight = NULL
      /\ heap' = [heap EXCEPT ![doing.neuron] = Freed]
      /\ doing' = [doing EXCEPT !.neuron = After(doing.neuron),
                     !.weight = FirstOf(After(doing.neuron))]
      /\ UNCHANGED <<shape, control, average, round>>
  BY DEF FreeNeuron, FreeNode
<1>2. PICK L, lost, i, j, k : LeavingFacts(L, lost, i, j, k)
  BY <1>1, InLeaving
<1> DEFINE s == <<"global", i, j, 0>>
           q == j + 1
           t == <<"global", i, q, 0>>
<1>3. /\ i \in 1..Len(shape) /\ j \in 1..NeuronsIn(i) /\ s \in Site /\ doing.neuron = L[s]
      /\ k = WeightsIn(i) + 1
  <2> USE <1>2 DEF LeavingFacts
  <2>1. s \in Site
    BY <1>1, AtIs
  <2>2. doing.neuron = L[s]
    BY <1>1, <2>1 DEF At
  <2>3. i > 0 /\ j > 0 /\ k > 0
    BY <1>1
  <2>4. i <= Len(shape) /\ j <= NeuronsIn(i)
    BY <2>1, <2>3, GlobalSites
  <2>5. <<"global", i, j, k>> \notin Site
    BY <1>1, AtIs
  <2>6. ~(k <= WeightsIn(i))
    BY <2>3, <2>4, <2>5, GlobalSites
  <2> QED BY <1>1, <2>1, <2>2, <2>3, <2>4, <2>6
<1>4. Frees1(i, j, k, s, i, q, 1)
  BY <1>2, <1>3, RestNeuron DEF LeavingFacts, Frees1
<1>5. Onward(s) = t
  BY <1>3 DEF Onward
<1>6. /\ L[s] \in Live(heap) /\ heap[L[s]] # Freed /\ heap[L[s]].next = At(L, Onward(s))
  <2> HIDE DEF s
  <2> QED BY <1>2, <1>4, LeavingPointers DEF LeavingFacts, Frees1
<1>7. Gone(heap, heap', doing.neuron)
  BY <1>1, <1>2, <1>3, <1>6, FreedIsGone DEF LeavingFacts
<1>8. Left(heap', average, L, lost, i, q, 1)
  <2>1. Puts(L, s, doing.neuron)
    BY <1>3 DEF Puts
  <2> HIDE DEF s, q
  <2> QED BY <1>2, <1>4, <1>7, <2>1, LeavesBy DEF LeavingFacts
<1>9. After(doing.neuron) = At(L, t)
  BY <1>3, <1>5, <1>6 DEF After
<1>10. FirstOf(At(L, t)) = At(L, <<"global", i, q, 1>>)
  <2>1. CASE t \in Site
    <3>1. t \in Rest(i, j, k)
      BY <1>2, <1>3, <2>1 DEF Rest, LeavingFacts
    <3>2. /\ heap[L[t]] # Freed /\ L[t] # NULL /\ heap[L[t]].first = At(L, Child(t))
      <4> HIDE DEF t
      <4> QED BY <1>2, <3>1, LeavingPointers DEF LeavingFacts
    <3>3. Child(t) = <<"global", i, q, 1>>
      BY <1>2, <1>3 DEF Child, LeavingFacts
    <3> QED BY <2>1, <3>2, <3>3 DEF FirstOf, At
  <2>2. CASE t \notin Site
    <3>1. i > 0 /\ i <= Len(shape) /\ i \in Nat /\ q \in Nat /\ q > 0 /\ shape \in Shapes
      BY <1>2, <1>3 DEF LeavingFacts
    <3>2. <<"global", i, q, 1>> \notin Site
      <4> HIDE DEF q
      <4>1. t = <<"global", i, q, 0>>
        OBVIOUS
      <4>2. ~(q <= NeuronsIn(i))
        BY <2>2, <3>1, <4>1, GlobalSites
      <4> QED BY <4>2, SiteIs
    <3> QED BY <2>2, <3>2 DEF At, FirstOf
  <2> QED BY <2>1, <2>2
<1>11. /\ doing'.proc = "free" /\ doing'.network = doing.network /\ doing'.layer = doing.layer
       /\ doing'.neuron = At(L, t) /\ doing'.weight = At(L, <<"global", i, q, 1>>)
       /\ doing'.descended
  BY <1>1, <1>2, <1>9, <1>10 DEF Frees, LeavingFacts
<1>12. /\ q \in Nat /\ q \in 1..NeuronsIn(i) + 1 /\ i \in 1..Len(shape) + 1 /\ i <= Len(shape)
       /\ 1 \in 1..WeightsIn(i) + 1 /\ i \in Nat
  BY <1>1, <1>2, <1>3 DEF LeavingFacts
<1>13. LeavingAt(heap', control, doing', average, round, L, lost, i, q, 1)
  <2>1. doing'.layer = At(L, <<"global", i, 0, 0>>) /\ doing'.neuron = At(L, <<"global", i, q, 0>>)
    BY <1>2, <1>11 DEF LeavingFacts
  <2> HIDE DEF q, t
  <2> QED BY <1>2, <1>8, <1>11, <1>12, <2>1, LeavesTo DEF LeavingFacts
<1> HIDE DEF q
<1> QED BY <1>1, <1>2, <1>11, <1>12, <1>13, LeavingNow

LEMMA FreeLayerWhole == ASSUME ListsInv, WholeInv, FreeLayer PROVE WholeInv'
<1>1. /\ doing.proc = "free" /\ doing.descended /\ doing.neuron = NULL
      /\ heap' = [heap EXCEPT ![doing.layer] = Freed]
      /\ doing' = [doing EXCEPT !.layer = After(doing.layer), !.descended = FALSE]
      /\ UNCHANGED <<shape, control, average, round>>
  BY DEF FreeLayer, FreeNode
<1>2. PICK L, lost, i, j, k : LeavingFacts(L, lost, i, j, k)
  BY <1>1, InLeaving
<1> DEFINE s == <<"global", i, 0, 0>>
           q == i + 1
<1>3. /\ i \in 1..Len(shape) /\ s \in Site /\ doing.layer = L[s]
      /\ j = NeuronsIn(i) + 1 /\ k = 1
  <2> USE <1>2 DEF LeavingFacts
  <2>1. i > 0 /\ j > 0 /\ i <= Len(shape)
    BY <1>1
  <2>2. s \in Site
    BY <2>1, GlobalSites
  <2>3. doing.layer = L[s]
    BY <2>2 DEF At
  <2>4. <<"global", i, j, 0>> \notin Site
    BY <1>1, AtIs
  <2>5. ~(j <= NeuronsIn(i))
    BY <2>1, <2>4, GlobalSites
  <2> QED BY <1>1, <2>1, <2>2, <2>3, <2>5
<1>4. Frees1(i, j, k, s, q, 1, 1)
  BY <1>2, <1>3, RestLayer DEF LeavingFacts, Frees1
<1>5. Onward(s) = <<"global", q, 0, 0>>
  BY <1>3 DEF Onward
<1>6. /\ L[s] \in Live(heap) /\ heap[L[s]] # Freed /\ heap[L[s]].next = At(L, Onward(s))
  <2> HIDE DEF s
  <2> QED BY <1>2, <1>4, LeavingPointers DEF LeavingFacts, Frees1
<1>7. Gone(heap, heap', doing.layer)
  BY <1>1, <1>2, <1>3, <1>6, FreedIsGone DEF LeavingFacts
<1>8. Left(heap', average, L, lost, q, 1, 1)
  <2>1. Puts(L, s, doing.layer)
    BY <1>3 DEF Puts
  <2> HIDE DEF s, q
  <2> QED BY <1>2, <1>4, <1>7, <2>1, LeavesBy DEF LeavingFacts
<1>9. After(doing.layer) = At(L, <<"global", q, 0, 0>>)
  BY <1>3, <1>5, <1>6 DEF After
<1>10. /\ doing'.proc = "free" /\ doing'.network = doing.network
       /\ doing'.layer = At(L, <<"global", q, 0, 0>>) /\ doing'.descended = FALSE
  BY <1>1, <1>2, <1>9 DEF Frees, LeavingFacts
<1>11. q \in Nat /\ q \in 1..Len(shape) + 1
  BY <1>2, <1>3 DEF LeavingFacts
<1> HIDE DEF q
<1>12. LeavingAt(heap', control, doing', average, round, L, lost, q, 1, 1)
  BY <1>2, <1>8, <1>10, <1>11, LeavesTo DEF LeavingFacts
<1> QED BY <1>1, <1>2, <1>10, <1>11, <1>12, LeavingNow

\* When the global network is gone, the sum is what is linked.
LEMMA OnlySum ==
  ASSUME shape \in Shapes, NEW h, NEW L, NEW lost,
         Trees(h, L, lost, Complete({"control"}), Linked(Complete({"control", "global"})), "none")
  PROVE  Trees(h, L, lost, Complete({"control"}), Linked(Complete({"control"})), "own")
<1> DEFINE S == Complete({"control"})
           K == Linked(Complete({"control", "global"}))
           R == {"control"}
<1>1. /\ S \subseteq Site /\ K \subseteq Site /\ Laid(h, L, S, K, "none")
  BY DEF Trees
<1>2. Laid(h, L, OfRole(S, R), OfRole(K, R), "none")
  <2> HIDE DEF S, K, R
  <2> QED BY <1>1, DropRoles
<1>3. OfRole(S, R) = S /\ OfRole(K, R) = Linked(S)
  BY DEF OfRole, Complete, Linked
<1>4. \A s \in Linked(S) : Index(s) = 1 => Onward(s) \in Linked(S)
  BY NoSingleSites DEF Linked
<1>5. Laid(h, L, S, Linked(S), "own")
  <2>1. Laid(h, L, S, Linked(S), "none")
    BY <1>2, <1>3
  <2> HIDE DEF S
  <2> QED BY <2>1, <1>4, NoLoops
<1>6. Linked(S) \subseteq Site
  BY <1>1 DEF Linked
<1> QED BY <1>5, <1>6 DEF Trees

LEMMA FreeNetworkWhole == ASSUME ListsInv, WholeInv, FreeNetwork PROVE WholeInv'
<1>1. /\ doing.proc = "free" /\ doing.layer = NULL
      /\ heap' = [heap EXCEPT ![doing.network] = Freed]
      /\ doing' = [proc |-> "copy", network |-> NULL, layer |-> NULL, neuron |-> NULL,
               currentlayer |-> NULL, currentneuron |-> NULL, currentweight |-> NULL]
      /\ UNCHANGED <<shape, control, client, average, round>>
  BY DEF FreeNetwork, FreeNode
<1>2. PICK L, lost, i, j, k : LeavingFacts(L, lost, i, j, k)
  BY <1>1, InLeaving
<1> DEFINE s == <<"global", 0, 0, 0>>
<1>3. i = Len(shape) + 1 /\ j = 1 /\ k = 1
  <2> USE <1>2 DEF LeavingFacts
  <2>1. <<"global", i, 0, 0>> \notin Site
    BY <1>1, AtIs
  <2>2. i > 0
    OBVIOUS
  <2>3. ~(i <= Len(shape))
    BY <2>1, <2>2, GlobalSites
  <2> QED BY <2>3
<1>4. Rest(i, j, k) = {s} /\ s \in Site
  <2>1. "global" \in Role /\ shape \in Shapes
    BY <1>2 DEF Role, LeavingFacts
  <2> QED BY <2>1, <1>3, RestEnd, RootsThere
<1>5. L[s] \in Live(heap) /\ doing.network = L[s]
  <2>1. s \in Rest(i, j, k)
    BY <1>4
  <2> HIDE DEF s
  <2>2. L[s] \in Live(heap)
    BY <1>2, <2>1, LeavingPointers DEF LeavingFacts
  <2> QED BY <1>2, <2>2 DEF LeavingFacts, LeavingAt, s
<1>6. Gone(heap, heap', doing.network)
  BY <1>1, <1>2, <1>5, FreedIsGone DEF LeavingFacts
<1>7. /\ Trees(heap', L, lost, Complete({"control"}), Linked(Complete({"control", "global"})), "none")
      /\ average = Content(heap', L, "control")
  <2> DEFINE S == Complete({"control"}) \cup Rest(i, j, k)
             T == Complete({"control"})
  <2>1. s \in Rest(i, j, k) /\ Without(S, s, T)
    BY <1>4 DEF Without, Complete
  <2>2. S = Complete({"control"}) \cup Rest(i, j, k) /\ Puts(L, s, doing.network)
    BY <1>5 DEF Puts
  <2> HIDE DEF s, S, T
  <2>3. /\ Trees(heap', L, lost, T, Linked(Complete({"control", "global"})), "none")
        /\ average = Content(heap', L, "control")
    BY <1>2, <1>6, <2>1, <2>2, FreedRest DEF LeavingFacts
  <2> QED BY <2>3 DEF T
<1>8. Trees(heap', L, lost, Complete({"control"}), Linked(Complete({"control"})), "own")
  BY <1>2, <1>7, OnlySum DEF LeavingFacts
<1>9. /\ doing'.proc = "copy" /\ doing'.network = NULL /\ doing'.layer = NULL
      /\ doing'.neuron = NULL
  BY <1>1
<1>10. control = L[<<"control", 0, 0, 0>>] /\ Lost(lost, round + 1)
  BY <1>2 DEF LeavingFacts, LeavingAt
<1>11. SpreadingAt(heap', control, doing', average, round, L, lost, 0, 0, 0)
  <2>1. Copied(doing', 0, 0, 0) = {} /\ Loose(doing', 0, 0) = {}
    BY <1>9 DEF Copied, Loose
  <2>2. OnPlace(0, 0, 0) /\ FullLayer(0, 0, 0)
    BY <1>2, SiteSizes DEF OnPlace, FullLayer, LeavingFacts
  <2>3. Complete({"control"}) \cup {} = Complete({"control"})
        /\ Linked(Complete({"control"})) \ {} = Linked(Complete({"control"}))
    OBVIOUS
  <2>4. Spread(heap', control, average, round + 1, L, lost, {}, Complete({"control"}),
               Linked(Complete({"control"})))
    BY <1>7, <1>8, <1>10, <2>3 DEF Spread
  <2>5. Cursors(doing', L, 0, 0, 0)
    BY <1>9, <2>2 DEF Cursors
  <2> QED BY <2>1, <2>2, <2>3, <2>4, <2>5 DEF SpreadingAt
<1>12. Spreading(heap', control', doing', average', round')
  <2>1. L \in [Site -> Address] /\ lost \in SUBSET Address
    BY <1>2 DEF LeavingFacts
  <2> QED BY <1>1, <1>11, <2>1 DEF Spreading
<1>13. client' = NULL
  BY <1>1 DEF ListsInv, FreeInv
<1> QED BY <1>1, <1>9, <1>12, <1>13, WholeNow


-----------------------------------------------------------------------------
(* The sum is copied, node by node.                                          *)

LEMMA TwinIs ==
  ASSUME shape \in Shapes, NEW s \in Site
  PROVE  Twin(s) \in Complete({"control"}) /\ Twin(s)[1] = "control"
<1>1. /\ s = <<s[1], s[2], s[3], s[4]>> /\ s[2] \in Nat /\ s[3] \in Nat /\ s[4] \in Nat
      /\ s[2] <= Len(shape) /\ s[3] <= NeuronsIn(s[2])
      /\ s[4] <= (IF s[3] = 0 THEN 0 ELSE WeightsIn(s[2])) /\ "control" \in Role
  BY SiteParts DEF Role
<1>2. Twin(s) \in Site
  BY <1>1, SiteIs DEF Twin
<1> QED BY <1>2 DEF Twin, Complete

\* The sum holds what it held.
LEMMA SumStays ==
  ASSUME shape \in Shapes, NEW h, NEW g, NEW L, NEW M, NEW S, Kept(h, g, L, M, S),
         Complete({"control"}) \subseteq S
  PROVE  Content(g, M, "control") = Content(h, L, "control")
<1>1. \A t \in Complete({"control"}) : t = <<"control", t[2], t[3], t[4]>>
  BY SiteParts DEF Complete
<1>2. SameValues(h, g, L, M, "control", "control")
  BY <1>1 DEF SameValues, Kept
<1>3. "control" \in Role
  BY DEF Role
<1> QED BY <1>2, <1>3, SameContent

LEMMA SpreadNew ==
  ASSUME shape \in Shapes, NEW h, NEW co, NEW v, NEW n, NEW L, NEW lost, NEW C, NEW S, NEW K,
         Spread(h, co, v, n, L, lost, C, S, K), Grown(S), K \subseteq S,
         NEW s \in Site, s[1] = "global", s \notin C, NEW f, NEW a, NEW value, NEW M, NEW D, NEW T,
         value = h[L[Twin(s)]].value,
         Allocates(h, f, a, KindOf(s), value), Placed(L, M, s, a), With(C, s, D), With(S, s, T)
  PROVE  Spread(f, co, v, n, M, lost, D, T, K) /\ \A t \in S : M[t] = L[t]
<1>1. /\ Trees(h, L, lost, S, K, "own") /\ S = Complete({"control"}) \cup C
      /\ \A t \in C : t \in Site /\ t[1] = "global" /\ h[L[t]].value = h[L[Twin(t)]].value
      /\ co = L[<<"control", 0, 0, 0>>] /\ Lost(lost, n) /\ v = Content(h, L, "control")
  BY DEF Spread
<1>2. s \notin S
  BY <1>1 DEF Complete
<1>3. Open(S, K, s)
  BY <1>2 DEF Open
<1>4. /\ Trees(f, M, lost, T, K, "own")
      /\ f[a].value = value /\ Kept(h, f, L, M, S)
  BY <1>1, <1>3, NewSite
<1>5. M[s] = a /\ \A t \in S : M[t] = L[t]
  BY <1>2 DEF Placed, Grown
<1>6. T = Complete({"control"}) \cup D
  BY <1>1 DEF With
<1>7. \A t \in S : f[M[t]].value = h[L[t]].value
  BY <1>4 DEF Kept
<1>8. \A t \in D : t \in Site /\ t[1] = "global" /\ f[M[t]].value = f[M[Twin(t)]].value
  <2> TAKE t \in D
  <2>1. t \in Site /\ t[1] = "global"
    BY <1>1 DEF With
  <2>2. Twin(t) \in S
    BY <1>1, <2>1, TwinIs
  <2>3. CASE t \in C
    BY <1>1, <1>7, <2>1, <2>2, <2>3
  <2>4. CASE t \notin C
    <3>1. t = s
      BY <2>4 DEF With
    <3> QED BY <1>4, <1>5, <1>7, <2>1, <2>2, <3>1
  <2> QED BY <2>3, <2>4
<1>9. v = Content(f, M, "control")
  <2>1. Complete({"control"}) \subseteq S
    BY <1>1
  <2> QED BY <2>1, <1>1, <1>4, SumStays
<1>10. co = M[<<"control", 0, 0, 0>>]
  <2>1. <<"control", 0, 0, 0>> \in S
    BY <1>1, RootsThere DEF Role
  <2> QED BY <2>1, <1>1, <1>5
<1> QED BY <1>1, <1>4, <1>5, <1>6, <1>8, <1>9, <1>10 DEF Spread

LEMMA SpreadLink ==
  ASSUME shape \in Shapes, NEW h, NEW co, NEW v, NEW n, NEW L, NEW lost, NEW C, NEW S, NEW K,
         Spread(h, co, v, n, L, lost, C, S, K), NEW s, Ready(S, K, s), NEW J, With(K, s, J),
         NEW g, NEW p, NEW a, Puts(L, Up(s), p), Puts(L, s, a), Links(h, g, p, a, "own")
  PROVE  Spread(g, co, v, n, L, lost, C, S, J)
<1>1. /\ Trees(h, L, lost, S, K, "own") /\ S = Complete({"control"}) \cup C
      /\ \A t \in C : t \in Site /\ t[1] = "global" /\ h[L[t]].value = h[L[Twin(t)]].value
      /\ co = L[<<"control", 0, 0, 0>>] /\ Lost(lost, n) /\ v = Content(h, L, "control")
  BY DEF Spread
<1>2. Trees(g, L, lost, S, J, "own") /\ Kept(h, g, L, L, S)
  BY <1>1, LinkedSite
<1>3. \A t \in C : t \in Site /\ t[1] = "global" /\ g[L[t]].value = g[L[Twin(t)]].value
  <2> TAKE t \in C
  <2>1. Twin(t) \in S /\ t \in S
    BY <1>1, TwinIs
  <2> QED BY <2>1, <1>1, <1>2 DEF Kept
<1>4. v = Content(g, L, "control")
  <2>1. Complete({"control"}) \subseteq S
    BY <1>1
  <2> QED BY <2>1, <1>1, <1>2, SumStays
<1> QED BY <1>1, <1>2, <1>3, <1>4 DEF Spread


\* Where CopyNeuralNetwork is.
CopyingFacts(L, lost, i, j, k) ==
  /\ SpreadingAt(heap, control, doing, average, round, L, lost, i, j, k)
  /\ shape \in Shapes /\ doing \in Copies /\ heap \in Heaps /\ client = NULL
  /\ L \in [Site -> Address] /\ lost \in SUBSET Address
  /\ i \in Nat /\ j \in Nat /\ k \in Nat /\ OnPlace(i, j, k) /\ Cursors(doing, L, i, j, k)
  /\ doing.layer # NULL \/ doing.currentlayer # NULL => doing.network # NULL
  /\ doing.neuron # NULL => doing.layer # NULL

LEMMA InCopying ==
  ASSUME ListsInv, WholeInv, doing.proc = "copy"
  PROVE  \E L, lost, i, j, k : CopyingFacts(L, lost, i, j, k)
<1>1. shape \in Shapes /\ heap \in Heaps /\ doing \in Copies
  BY WhatIsDone DEF ListsInv, TypeInv
<1>2. client = NULL
  BY DEF WholeInv, WholeLists
<1>3. PICK L \in [Site -> Address], lost \in SUBSET Address, i \in Nat, j \in Nat, k \in Nat :
        SpreadingAt(heap, control, doing, average, round, L, lost, i, j, k)
  BY DEF WholeInv, WholeLists, Spreading
<1>4. /\ doing.layer # NULL \/ doing.currentlayer # NULL => doing.network # NULL
      /\ doing.neuron # NULL => doing.layer # NULL
  BY DEF ListsInv, CopyInv
<1>5. CopyingFacts(L, lost, i, j, k)
  BY <1>1, <1>2, <1>3, <1>4 DEF CopyingFacts, SpreadingAt
<1> QED BY <1>5

\* It is there afterwards.
LEMMA CopyingNow ==
  ASSUME UNCHANGED <<shape, control, client, average, round>>, doing'.proc = "copy",
         NEW L, NEW lost, NEW i, NEW j, NEW k, CopyingFacts(L, lost, i, j, k),
         NEW M \in [Site -> Address], NEW l \in Nat, NEW m \in Nat, NEW w \in Nat,
         SpreadingAt(heap', control, doing', average, round, M, lost, l, m, w)
  PROVE  WholeInv'
<1>1. client' = NULL /\ Spreading(heap', control', doing', average', round')
  BY DEF Spreading, CopyingFacts
<1> QED BY <1>1, WholeNow

\* The sum is complete, and what has been copied has its parents.
CopySites(d, i, j, k) == Complete({"control"}) \cup Copied(d, i, j, k)
CopyLinks(d, i, j, k) == Linked(CopySites(d, i, j, k)) \ Loose(d, i, j)

LEMMA SpreadNow ==
  ASSUME NEW L, NEW lost, NEW i, NEW j, NEW k, CopyingFacts(L, lost, i, j, k),
         NEW C, C = Copied(doing, i, j, k), NEW S, S = CopySites(doing, i, j, k),
         NEW K, K = CopyLinks(doing, i, j, k)
  PROVE  /\ Spread(heap, control, average, round + 1, L, lost, C, S, K)
         /\ Grown(S) /\ K \subseteq S
<1>1. Spread(heap, control, average, round + 1, L, lost, C, S, K)
  BY DEF CopyingFacts, SpreadingAt, CopySites, CopyLinks
<1>2. Grown(Copied(doing, i, j, k))
  <2>1. Grown({})
    BY DEF Grown
  <2> QED BY <2>1, GrownUpto DEF Copied, CopyingFacts
<1>3. Grown(S)
  BY <1>2, GrownComplete, GrownUnion DEF CopySites, CopyingFacts
<1>4. K \subseteq S
  BY DEF CopyLinks, Linked
<1> QED BY <1>1, <1>3, <1>4

\* What the pointers of the sum say.
LEMMA SumPointers ==
  ASSUME NEW L, NEW lost, NEW i, NEW j, NEW k, CopyingFacts(L, lost, i, j, k),
         NEW s \in Complete({"control"})
  PROVE  /\ s \in Site /\ L[s] \in Live(heap) /\ heap[L[s]] # Freed /\ L[s] # NULL
         /\ heap[L[s]].first = At(L, Child(s)) /\ heap[L[s]].next = At(L, Onward(s))
         /\ heap[L[s]].value \in Nat
<1> DEFINE C == Copied(doing, i, j, k)
           S == CopySites(doing, i, j, k)
           K == CopyLinks(doing, i, j, k)
<1>0. shape \in Shapes /\ heap \in Heaps
  BY DEF CopyingFacts
<1>1. Spread(heap, control, average, round + 1, L, lost, C, S, K)
  BY SpreadNow
<1>2. Laid(heap, L, S, K, "own") /\ K \subseteq Site /\ s \in S /\ s \in Site /\ s[1] = "control"
      /\ L \in [Site -> Address]
  BY <1>1 DEF Spread, Trees, Complete
<1>3. Linked(Complete({s[1]})) \subseteq K
  <2>1. \A t \in Loose(doing, i, j) : t[1] = "global"
    BY DEF Loose
  <2> QED BY <2>1, <1>2 DEF CopyLinks, CopySites, Linked, Complete
<1> HIDE DEF S, K
<1>4. /\ heap[L[s]].first = At(L, Child(s)) /\ heap[L[s]].next = At(L, Onward(s))
      /\ Is(heap, L[s], KindOf(s))
  BY <1>0, <1>2, <1>3, PointersOf
<1>5. L[s] \in Live(heap)
  BY <1>4 DEF Is
<1>6. heap[L[s]] \in HeapNode
  BY <1>0, <1>5, LiveNodes
<1> QED BY <1>2, <1>4, <1>5, <1>6 DEF Live, Address, NULL, HeapNode

\* The sites of the sum that the cursors name.
LEMMA SumSites ==
  ASSUME shape \in Shapes, NEW i \in Nat, NEW j \in Nat, NEW k \in Nat
  PROVE  /\ <<"control", i, 0, 0>> \in Site <=> i <= Len(shape)
         /\ j > 0 => (<<"control", i, j, 0>> \in Site <=> i <= Len(shape) /\ j <= NeuronsIn(i))
         /\ j > 0 /\ k > 0 => (<<"control", i, j, k>> \in Site
                               <=> i <= Len(shape) /\ j <= NeuronsIn(i) /\ k <= WeightsIn(i))
<1>1. "control" \in Role /\ Len(shape) \in Nat /\ NeuronsIn(0) = 0
  BY SiteSizes DEF Role
<1>2. i > 0 /\ i <= Len(shape) => NeuronsIn(i) \in Nat /\ WeightsIn(i) \in Nat
  BY <1>1, SiteSizes
<1> QED BY <1>1, <1>2, SiteIs


\* A node is copied: it has the value of its twin.
LEMMA SpreadsBy ==
  ASSUME ListsInv, Room, NEW L, NEW lost, NEW i, NEW j, NEW k, CopyingFacts(L, lost, i, j, k),
         NEW s \in Site, s[1] = "global", NEW C, C = Copied(doing, i, j, k), s \notin C,
         NEW D, With(C, s, D), NEW T, T = Complete({"control"}) \cup D,
         NEW K, K = CopyLinks(doing, i, j, k), NEW value, value = heap[L[Twin(s)]].value,
         NEW f, f = [heap EXCEPT ![Malloc] = NewNode(KindOf(s), value)]
  PROVE  \E M \in [Site -> Address] :
           /\ Placed(L, M, s, Malloc)
           /\ Spread(f, control, average, round + 1, M, lost, D, T, K)
<1> DEFINE S == CopySites(doing, i, j, k)
           n == round + 1
           a == Malloc
<1>1. shape \in Shapes /\ L \in [Site -> Address]
  BY DEF CopyingFacts
<1>2. Spread(heap, control, average, n, L, lost, C, S, K) /\ Grown(S) /\ K \subseteq S
  BY SpreadNow
<1>3. Twin(s) \in Complete({"control"})
  BY <1>1, TwinIs
<1>4. value \in Nat
  BY <1>3, SumPointers
<1>5. a \in Address /\ Allocates(heap, f, a, KindOf(s), value)
  BY <1>4, MallocAllocates
<1>6. PICK M \in [Site -> Address] : Placed(L, M, s, a)
  BY <1>1, <1>5, PlacedThere
<1>7. With(S, s, T)
  BY DEF With, CopySites
<1> HIDE DEF S, n, a
<1>8. Spread(f, control, average, n, M, lost, D, T, K)
  BY <1>1, <1>2, <1>5, <1>6, <1>7, SpreadNew
<1> QED BY <1>6, <1>8 DEF n, a

LEMMA CopyNetworkWhole == ASSUME ListsInv, WholeInv, CopyNetwork PROVE WholeInv'
<1>1. /\ doing.proc = "copy" /\ Room /\ doing.network = NULL
      /\ heap' = [heap EXCEPT ![Malloc] = NewNode("network", heap[control].value)]
      /\ doing' = [doing EXCEPT !.network = Malloc, !.currentlayer = heap[control].first]
      /\ UNCHANGED <<shape, control, client, average, round>>
  BY DEF CopyNetwork
<1>2. PICK L, lost, i, j, k : CopyingFacts(L, lost, i, j, k)
  BY <1>1, InCopying
<1> DEFINE s == <<"global", 0, 0, 0>>
           o == <<"control", 0, 0, 0>>
           C == Copied(doing, i, j, k)
           D == Upto("global", 0, 0, 0)
           T == Complete({"control"}) \cup D
           K == CopyLinks(doing, i, j, k)
           value == heap[L[Twin(s)]].value
<1>3. /\ shape \in Shapes /\ "global" \in Role /\ "control" \in Role /\ doing \in Copies
      /\ L \in [Site -> Address] /\ doing.layer = NULL /\ doing.neuron = NULL
  BY <1>1, <1>2 DEF CopyingFacts, Role
<1>4. i = 0 /\ C = {} /\ Loose(doing, i, j) = {}
  BY <1>1, <1>2, <1>3 DEF CopyingFacts, Cursors, Copied, Loose
<1>5. s \in Site /\ D = {s} /\ With(C, s, D) /\ s[1] = "global" /\ KindOf(s) = "network" /\ s \notin C
  BY <1>3, <1>4, UptoRoot DEF With, KindOf
<1>6. control = L[o] /\ Twin(s) = o /\ o \in Complete({"control"})
  <2>1. Spread(heap, control, average, round + 1, L, lost, C, CopySites(doing, i, j, k), K)
    BY <1>2, SpreadNow
  <2>2. control = L[o]
    BY <2>1 DEF Spread
  <2>3. o \in Complete({"control"})
    BY <1>3, RootsThere
  <2> QED BY <2>2, <2>3 DEF Twin
<1>7. heap' = [heap EXCEPT ![Malloc] = NewNode(KindOf(s), value)]
  BY <1>1, <1>5, <1>6
<1>8. PICK M \in [Site -> Address] :
        /\ Placed(L, M, s, Malloc)
        /\ Spread(heap', control, average, round + 1, M, lost, D, T, K)
  <2>1. /\ C = Copied(doing, i, j, k) /\ T = Complete({"control"}) \cup D
        /\ K = CopyLinks(doing, i, j, k) /\ value = heap[L[Twin(s)]].value
    OBVIOUS
  <2> HIDE DEF s, C, D, K, T, value
  <2> QED BY <1>1, <1>2, <1>5, <1>7, <2>1, SpreadsBy
<1>9. heap[control].first = At(L, <<"control", 1, 0, 0>>)
  <2>1. heap[L[o]].first = At(L, Child(o))
    BY <1>2, <1>6, SumPointers
  <2> QED BY <2>1, <1>6 DEF Child
<1>10. M[s] = Malloc /\ \A t : t[1] = "control" => At(M, t) = At(L, t)
  <2>1. \A t : t[1] = "control" => t # s
    OBVIOUS
  <2> QED BY <2>1, <1>8 DEF Placed, At
<1>11. Malloc # NULL
  BY <1>1, FreshNode DEF ListsInv, TypeInv, Address, NULL
<1>12. /\ doing'.proc = "copy" /\ doing'.network = Malloc /\ doing'.layer = NULL
       /\ doing'.neuron = NULL /\ doing'.currentlayer = At(L, <<"control", 1, 0, 0>>)
  BY <1>1, <1>3, <1>9 DEF Copies
<1>13. At(M, <<"control", 1, 0, 0>>) = At(L, <<"control", 1, 0, 0>>)
  BY <1>10 DEF At
<1>14. SpreadingAt(heap', control, doing', average, round, M, lost, 0, 0, 0)
  <2>1. Copied(doing', 0, 0, 0) = D /\ Loose(doing', 0, 0) = {}
    BY <1>11, <1>12 DEF Copied, Loose
  <2>2. OnPlace(0, 0, 0) /\ FullLayer(0, 0, 0)
    BY <1>3, SiteSizes DEF OnPlace, FullLayer
  <2>3. Linked(T) = K
    <3>1. K = Linked(Complete({"control"}) \cup {})
      BY <1>4 DEF CopyLinks, CopySites
    <3>2. Index(s) = 0
      BY DEF Index
    <3> QED BY <3>1, <3>2, <1>5 DEF Linked
  <2>4. Cursors(doing', M, 0, 0, 0)
    BY <1>10, <1>11, <1>12, <1>13, <2>2 DEF Cursors
  <2>5. T \ {} = T /\ Linked(T) \ {} = Linked(T)
    OBVIOUS
  <2> HIDE DEF D, K
  <2> QED BY <1>8, <2>1, <2>2, <2>3, <2>4, <2>5 DEF SpreadingAt
<1> QED BY <1>1, <1>2, <1>12, <1>14, CopyingNow


LEMMA CopyLayerWhole == ASSUME ListsInv, WholeInv, CopyLayer PROVE WholeInv'
<1>1. /\ doing.proc = "copy" /\ Room /\ doing.layer = NULL /\ doing.currentlayer # NULL
      /\ heap' = [heap EXCEPT ![Malloc] = NewNode("layer", heap[doing.currentlayer].value)]
      /\ doing' = [doing EXCEPT !.layer = Malloc, !.currentneuron = heap[doing.currentlayer].first]
      /\ UNCHANGED <<shape, control, client, average, round>>
  BY DEF CopyLayer
<1>2. PICK L, lost, i, j, k : CopyingFacts(L, lost, i, j, k)
  BY <1>1, InCopying
<1> DEFINE q == i + 1
           s == <<"global", q, 0, 0>>
           t == <<"control", q, 0, 0>>
           C == Copied(doing, i, j, k)
           D == Upto("global", q, 0, 0)
           T == Complete({"control"}) \cup D
           K == CopyLinks(doing, i, j, k)
           value == heap[L[Twin(s)]].value
<1>3. /\ shape \in Shapes /\ "global" \in Role /\ "control" \in Role /\ doing \in Copies
      /\ L \in [Site -> Address] /\ doing.network # NULL /\ doing.neuron = NULL
      /\ i \in Nat /\ q \in Nat /\ OnPlace(i, j, k) /\ Len(shape) \in Nat
  BY <1>1, <1>2, SiteSizes DEF CopyingFacts, Role
<1>4. /\ C = Upto("global", i, j, k) /\ Loose(doing, i, j) = {} /\ FullLayer(i, j, k)
      /\ doing.currentlayer = At(L, t) /\ doing.network = L[<<"global", 0, 0, 0>>]
  BY <1>1, <1>2, <1>3 DEF CopyingFacts, Cursors, Copied, Loose
<1>5. t \in Site /\ i < Len(shape) /\ doing.currentlayer = L[t] /\ t \in Complete({"control"})
  <2>1. t \in Site
    BY <1>1, <1>3, <1>4, AtIs
  <2>2. q <= Len(shape)
    BY <1>3, <2>1, SumSites
  <2> QED BY <1>3, <1>4, <2>1, <2>2 DEF At, Complete
<1>6. Comes("global", i, j, k, q, 0, 0, s) /\ KindOf(s) = "layer"
  BY <1>3, <1>4, <1>5, LayerComes
<1>7. /\ s \in Site /\ s[1] = "global" /\ s \notin C /\ With(C, s, D) /\ Twin(s) = t
      /\ OnPlace(q, 0, 0) /\ Index(s) > 0
  BY <1>4, <1>6 DEF Comes, With, Twin
<1>8. heap' = [heap EXCEPT ![Malloc] = NewNode(KindOf(s), value)]
  BY <1>1, <1>5, <1>6, <1>7
<1>9. PICK M \in [Site -> Address] :
        /\ Placed(L, M, s, Malloc)
        /\ Spread(heap', control, average, round + 1, M, lost, D, T, K)
  <2>1. /\ C = Copied(doing, i, j, k) /\ T = Complete({"control"}) \cup D
        /\ K = CopyLinks(doing, i, j, k) /\ value = heap[L[Twin(s)]].value
    OBVIOUS
  <2> HIDE DEF s, C, D, K, T, value
  <2> QED BY <1>1, <1>2, <1>7, <1>8, <2>1, SpreadsBy
<1>10. heap[doing.currentlayer].first = At(L, <<"control", q, 1, 0>>)
  <2>1. Child(t) = <<"control", q, 1, 0>>
    BY <1>3 DEF Child
  <2> HIDE DEF t
  <2> QED BY <2>1, <1>2, <1>5, SumPointers
<1>11. M[s] = Malloc /\ \A u : u # s => At(M, u) = At(L, u) /\ (u \in Site => M[u] = L[u])
  BY <1>9 DEF Placed, At
<1>12. Malloc # NULL
  BY <1>1, FreshNode DEF ListsInv, TypeInv, Address, NULL
<1>13. /\ doing'.proc = "copy" /\ doing'.network = doing.network /\ doing'.layer = Malloc
       /\ doing'.neuron = NULL /\ doing'.currentlayer = doing.currentlayer
       /\ doing'.currentneuron = At(L, <<"control", q, 1, 0>>)
  BY <1>1, <1>3, <1>10 DEF Copies
<1>14. Cursors(doing', M, q, 0, 0)
  <2>1. /\ At(M, <<"control", q, 1, 0>>) = At(L, <<"control", q, 1, 0>>) /\ M[t] = L[t]
        /\ M[<<"global", 0, 0, 0>>] = L[<<"global", 0, 0, 0>>]
    <3>1. <<"global", 0, 0, 0>> \in Site
      BY <1>3, RootsThere
    <3>2. t # s /\ <<"control", q, 1, 0>> # s /\ <<"global", 0, 0, 0>> # s
      BY <1>3
    <3> HIDE DEF s, t
    <3> QED BY <1>5, <1>11, <3>1, <3>2
  <2>2. FullNeuron(q, 0, 0) /\ q # 0
    BY <1>3 DEF FullNeuron
  <2> QED BY <1>3, <1>4, <1>5, <1>11, <1>12, <1>13, <2>1, <2>2 DEF Cursors
<1>15. Copied(doing', q, 0, 0) = D /\ Loose(doing', q, 0) = {s}
  BY <1>3, <1>12, <1>13 DEF Copied, Loose
<1>16. K = Linked(T) \ {s}
  <2>1. K = Linked(Complete({"control"}) \cup C)
    BY <1>4 DEF CopyLinks, CopySites
  <2>2. s \notin Complete({"control"})
    BY <1>7 DEF Complete
  <2> HIDE DEF s, C, D, K
  <2> QED BY <2>1, <2>2, <1>7 DEF Linked, With
<1>17. SpreadingAt(heap', control, doing', average, round, M, lost, q, 0, 0)
  <2> HIDE DEF s, C, D, K, q
  <2> QED BY <1>7, <1>9, <1>14, <1>15, <1>16 DEF SpreadingAt
<1> HIDE DEF q
<1> QED BY <1>1, <1>2, <1>3, <1>13, <1>17, CopyingNow


LEMMA CopyNeuronWhole == ASSUME ListsInv, WholeInv, CopyNeuron PROVE WholeInv'
<1>1. /\ doing.proc = "copy" /\ Room /\ doing.layer # NULL /\ doing.neuron = NULL
      /\ doing.currentneuron # NULL
      /\ heap' = [heap EXCEPT ![Malloc] = NewNode("neuron", heap[doing.currentneuron].value)]
      /\ doing' = [doing EXCEPT !.neuron = Malloc, !.currentweight = heap[doing.currentneuron].first]
      /\ UNCHANGED <<shape, control, client, average, round>>
  BY DEF CopyNeuron
<1>2. PICK L, lost, i, j, k : CopyingFacts(L, lost, i, j, k)
  BY <1>1, InCopying
<1> DEFINE q == j + 1
           s == <<"global", i, q, 0>>
           t == <<"control", i, q, 0>>
           C == Copied(doing, i, j, k)
           D == Upto("global", i, q, 0)
           T == Complete({"control"}) \cup D
           K == CopyLinks(doing, i, j, k)
           value == heap[L[Twin(s)]].value
           layer == <<"global", i, 0, 0>>
<1>3. /\ shape \in Shapes /\ "global" \in Role /\ "control" \in Role /\ doing \in Copies
      /\ L \in [Site -> Address] /\ doing.network # NULL
      /\ i \in Nat /\ j \in Nat /\ q \in Nat /\ OnPlace(i, j, k) /\ Len(shape) \in Nat
  BY <1>1, <1>2, SiteSizes DEF CopyingFacts, Role
<1>4. /\ C = Upto("global", i, j, k) /\ Loose(doing, i, j) = {layer} /\ FullNeuron(i, j, k)
      /\ doing.currentneuron = At(L, t) /\ doing.network = L[<<"global", 0, 0, 0>>] /\ i # 0
      /\ doing.layer = L[layer] /\ doing.currentlayer = L[<<"control", i, 0, 0>>]
  BY <1>1, <1>2, <1>3 DEF CopyingFacts, Cursors, Copied, Loose
<1>5. t \in Site /\ j < NeuronsIn(i) /\ doing.currentneuron = L[t] /\ t \in Complete({"control"})
      /\ i <= Len(shape)
  <2>1. t \in Site
    BY <1>1, <1>3, <1>4, AtIs
  <2>2. q <= NeuronsIn(i) /\ i <= Len(shape)
    BY <2>1, SiteIs
  <2>3. NeuronsIn(i) \in Nat
    BY <1>3, <1>4, <2>2, SiteSizes
  <2> QED BY <1>3, <1>4, <2>1, <2>2, <2>3 DEF At, Complete
<1>6. Comes("global", i, j, k, i, q, 0, s) /\ KindOf(s) = "neuron"
  BY <1>3, <1>4, <1>5, NeuronComes
<1>7. /\ s \in Site /\ s[1] = "global" /\ s \notin C /\ With(C, s, D) /\ Twin(s) = t
      /\ OnPlace(i, q, 0) /\ Index(s) > 0 /\ s # layer
  BY <1>3, <1>4, <1>6 DEF Comes, With, Twin
<1>8. heap' = [heap EXCEPT ![Malloc] = NewNode(KindOf(s), value)]
  BY <1>1, <1>5, <1>6, <1>7
<1>9. PICK M \in [Site -> Address] :
        /\ Placed(L, M, s, Malloc)
        /\ Spread(heap', control, average, round + 1, M, lost, D, T, K)
  <2>1. /\ C = Copied(doing, i, j, k) /\ T = Complete({"control"}) \cup D
        /\ K = CopyLinks(doing, i, j, k) /\ value = heap[L[Twin(s)]].value
    OBVIOUS
  <2>2. Room /\ CopyingFacts(L, lost, i, j, k) /\ s \in Site /\ s[1] = "global" /\ s \notin C
        /\ With(C, s, D)
    BY <1>1, <1>2, <1>7
  <2> HIDE DEF s, C, D, K, T, value, q, layer
  <2> QED BY <1>8, <2>1, <2>2, SpreadsBy
<1>10. heap[doing.currentneuron].first = At(L, <<"control", i, q, 1>>)
  <2>1. Child(t) = <<"control", i, q, 1>>
    BY <1>3, <1>4 DEF Child
  <2> HIDE DEF t
  <2> QED BY <2>1, <1>2, <1>5, SumPointers
<1>11. M[s] = Malloc /\ \A u : u # s => At(M, u) = At(L, u) /\ (u \in Site => M[u] = L[u])
  BY <1>9 DEF Placed, At
<1>12. Malloc # NULL
  BY <1>1, FreshNode DEF ListsInv, TypeInv, Address, NULL
<1>13. /\ doing'.proc = "copy" /\ doing'.network = doing.network /\ doing'.layer = doing.layer
       /\ doing'.neuron = Malloc /\ doing'.currentlayer = doing.currentlayer
       /\ doing'.currentneuron = doing.currentneuron
       /\ doing'.currentweight = At(L, <<"control", i, q, 1>>)
  BY <1>1, <1>3, <1>10 DEF Copies
<1>14. Cursors(doing', M, i, q, 0)
  <2>1. /\ At(M, <<"control", i, q, 1>>) = At(L, <<"control", i, q, 1>>) /\ M[t] = L[t]
        /\ M[<<"global", 0, 0, 0>>] = L[<<"global", 0, 0, 0>>] /\ M[layer] = L[layer]
        /\ M[<<"control", i, 0, 0>>] = L[<<"control", i, 0, 0>>]
    <3>1. <<"global", 0, 0, 0>> \in Site /\ layer \in Site /\ <<"control", i, 0, 0>> \in Site
      BY <1>3, <1>4, <1>5, RootsThere, GlobalSites, SumSites
    <3>2. t # s /\ <<"control", i, q, 1>> # s /\ <<"global", 0, 0, 0>> # s /\ <<"control", i, 0, 0>> # s
      BY <1>3
    <3> HIDE DEF s, t, layer
    <3> QED BY <1>5, <1>7, <1>11, <3>1, <3>2
  <2>2. 0 + 1 = 1 /\ q # 0
    BY <1>3
  <2>3. /\ doing'.network = M[<<"global", 0, 0, 0>>] /\ doing'.network # NULL
        /\ doing'.layer = M[layer] /\ doing'.currentlayer = M[<<"control", i, 0, 0>>]
        /\ doing'.neuron = M[s] /\ doing'.currentneuron = M[t]
        /\ doing'.currentweight = At(M, <<"control", i, q, 1>>)
        /\ doing'.layer # NULL /\ doing'.neuron # NULL
    BY <1>1, <1>3, <1>4, <1>5, <1>11, <1>12, <1>13, <2>1
  <2> QED BY <1>4, <2>2, <2>3 DEF Cursors
<1>15. Copied(doing', i, q, 0) = D /\ Loose(doing', i, q) = {layer, s}
  BY <1>1, <1>3, <1>12, <1>13 DEF Copied, Loose
<1>16. K = Linked(T) \ {layer, s}
  <2>1. K = Linked(Complete({"control"}) \cup C) \ {layer}
    BY <1>4 DEF CopyLinks, CopySites
  <2>2. s \notin Complete({"control"})
    BY <1>7 DEF Complete
  <2> HIDE DEF s, C, D, K, layer
  <2> QED BY <2>1, <2>2, <1>7 DEF Linked, With
<1>17. SpreadingAt(heap', control, doing', average, round, M, lost, i, q, 0)
  <2> HIDE DEF s, C, D, K, q, layer
  <2> QED BY <1>7, <1>9, <1>14, <1>15, <1>16 DEF SpreadingAt
<1> HIDE DEF q
<1> QED BY <1>1, <1>2, <1>3, <1>13, <1>17, CopyingNow


\* A copy is linked to its parent when those before it are.
LEMMA CopyIsReady ==
  ASSUME shape \in Shapes, NEW i \in Nat, NEW j \in Nat, NEW k \in Nat,
         NEW C, C = Upto("global", i, j, k), NEW S, S = Complete({"control"}) \cup C,
         NEW s \in C, Index(s) > 0, NEW X, s \in X, Index(s) > 1 => Back(s) \notin X,
         NEW K, K = Linked(S) \ X, NEW J, J = Linked(S) \ (X \ {s})
  PROVE  Ready(S, K, s) /\ With(K, s, J)
<1>1. Grown(S)
  BY GrownUpto, GrownComplete, GrownUnion
<1>2. Index(s) > 1 => Back(s) \in K
  <2> HAVE Index(s) > 1
  <2>1. Back(s) \in Linked(C)
    BY BackUpto
  <2> QED BY <2>1 DEF Linked
<1>3. K \subseteq S /\ s \in S \ K
  BY DEF Linked
<1>4. J = K \cup {s}
  BY DEF Linked
<1> QED BY <1>1, <1>2, <1>3, <1>4 DEF Ready, With

\* The nodes that are not linked yet.
LEMMA LooseSites ==
  ASSUME shape \in Shapes, NEW i \in Nat, NEW j \in Nat, NEW k \in Nat, OnPlace(i, j, k)
  PROVE  /\ i # 0 => /\ <<"global", i, 0, 0>> \in Upto("global", i, j, k)
                     /\ Index(<<"global", i, 0, 0>>) = i
                     /\ Up(<<"global", i, 0, 0>>) = <<"global", 0, 0, 0>>
                     /\ Back(<<"global", i, 0, 0>>) = <<"global", i - 1, 0, 0>>
         /\ i # 0 /\ j # 0 => /\ <<"global", i, j, 0>> \in Upto("global", i, j, k)
                              /\ Index(<<"global", i, j, 0>>) = j
                              /\ Up(<<"global", i, j, 0>>) = <<"global", i, 0, 0>>
                              /\ Back(<<"global", i, j, 0>>) = <<"global", i, j - 1, 0>>
<1>1. i <= Len(shape) /\ j <= NeuronsIn(i) /\ "global" \in Role
  BY DEF OnPlace, Role
<1>2. i # 0 => <<"global", i, 0, 0>> \in Site
  BY <1>1, SiteSizes, SiteIs
<1>3. i # 0 /\ j # 0 => <<"global", i, j, 0>> \in Site
  <2>1. i # 0 => WeightsIn(i) \in Nat
    BY <1>1, SiteSizes
  <2> QED BY <1>1, <2>1, SiteIs
<1>4. ASSUME i # 0
      PROVE  /\ <<"global", i, 0, 0>> \in Upto("global", i, j, k)
             /\ Index(<<"global", i, 0, 0>>) = i
             /\ Up(<<"global", i, 0, 0>>) = <<"global", 0, 0, 0>>
             /\ Back(<<"global", i, 0, 0>>) = <<"global", i - 1, 0, 0>>
  <2>1. 0 < j \/ (0 = j /\ 0 <= k)
    OBVIOUS
  <2>2. <<"global", i, 0, 0>> \in Upto("global", i, j, k)
    BY <1>2, <1>4, <2>1 DEF Upto
  <2> QED BY <1>4, <2>2 DEF Index, Up, Back
<1>5. ASSUME i # 0, j # 0
      PROVE  /\ <<"global", i, j, 0>> \in Upto("global", i, j, k)
             /\ Index(<<"global", i, j, 0>>) = j
             /\ Up(<<"global", i, j, 0>>) = <<"global", i, 0, 0>>
             /\ Back(<<"global", i, j, 0>>) = <<"global", i, j - 1, 0>>
  <2>1. <<"global", i, j, 0>> \in Upto("global", i, j, k)
    BY <1>3, <1>5 DEF Upto
  <2> QED BY <1>5, <2>1 DEF Index, Up, Back
<1> QED BY <1>4, <1>5

LEMMA NeuronCopiedWhole == ASSUME ListsInv, WholeInv, NeuronCopied PROVE WholeInv'
<1>1. /\ doing.proc = "copy" /\ doing.neuron # NULL /\ doing.currentweight = NULL
      /\ heap' = LinkCopy(heap, doing.layer, doing.neuron)
      /\ doing' = [doing EXCEPT !.neuron = NULL, !.currentneuron = heap[doing.currentneuron].next]
      /\ UNCHANGED <<shape, control, client, average, round>>
  BY DEF NeuronCopied
<1>2. PICK L, lost, i, j, k : CopyingFacts(L, lost, i, j, k)
  BY <1>1, InCopying
<1> DEFINE s == <<"global", i, j, 0>>
           t == <<"control", i, j, 0>>
           layer == <<"global", i, 0, 0>>
           C == Copied(doing, i, j, k)
           S == CopySites(doing, i, j, k)
           K == CopyLinks(doing, i, j, k)
           J == Linked(S) \ {layer}
           n == round + 1
<1>3. /\ shape \in Shapes /\ doing \in Copies
      /\ L \in [Site -> Address] /\ doing.network # NULL /\ doing.layer # NULL
      /\ i \in Nat /\ j \in Nat /\ k \in Nat /\ OnPlace(i, j, k) /\ Len(shape) \in Nat
  BY <1>1, <1>2, SiteSizes DEF CopyingFacts
<1>4. /\ C = Upto("global", i, j, k) /\ S = Complete({"control"}) \cup C
      /\ Loose(doing, i, j) = {layer, s} /\ i # 0 /\ j # 0
      /\ doing.network = L[<<"global", 0, 0, 0>>]
      /\ doing.layer = L[layer] /\ doing.currentlayer = L[<<"control", i, 0, 0>>]
      /\ doing.neuron = L[s] /\ doing.currentneuron = L[t]
      /\ doing.currentweight = At(L, <<"control", i, j, k + 1>>)
  BY <1>1, <1>2, <1>3 DEF CopyingFacts, Cursors, Copied, Loose, CopySites
<1>5. /\ i <= Len(shape) /\ j <= NeuronsIn(i) /\ k <= WeightsIn(i)
      /\ t \in Site /\ t \in Complete({"control"})
  <2>1. i <= Len(shape) /\ j <= NeuronsIn(i) /\ k <= WeightsIn(i)
    BY <1>3, <1>4 DEF OnPlace
  <2>2. t \in Site
    BY <1>3, <1>4, <2>1, SumSites
  <2> QED BY <2>1, <2>2 DEF Complete
<1>6. FullNeuron(i, j, k)
  <2>1. <<"control", i, j, k + 1>> \notin Site
    BY <1>1, <1>3, <1>4, AtIs
  <2>2. ~(k + 1 <= WeightsIn(i))
    <3>1. k + 1 \in Nat /\ k + 1 > 0 /\ j > 0 /\ j # 0 /\ "control" \in Role
      BY <1>3, <1>4 DEF Role
    <3> QED BY <1>3, <1>5, <2>1, <3>1, SiteIs
  <2>3. WeightsIn(i) \in Nat
    BY <1>3, <1>4, <1>5, SiteSizes
  <2> QED BY <1>3, <1>5, <2>2, <2>3 DEF FullNeuron
<1>7. Ready(S, K, s) /\ With(K, s, J)
  <2>1. s \in C /\ Index(s) = j /\ Back(s) = <<"global", i, j - 1, 0>> /\ Index(s) > 0
    <3>1. s \in Upto("global", i, j, k) /\ Index(s) = j /\ Back(s) = <<"global", i, j - 1, 0>>
      BY <1>3, <1>4, LooseSites
    <3>2. j > 0
      BY <1>3, <1>4
    <3> HIDE DEF s, C
    <3> QED BY <1>4, <3>1, <3>2
  <2>2. Index(s) > 1 => Back(s) \notin {layer, s}
    <3>1. j > 1 => j - 1 # 0 /\ j - 1 # j
      BY <1>3
    <3>2. j > 1 => <<"global", i, j - 1, 0>> # layer /\ <<"global", i, j - 1, 0>> # s
      BY <3>1
    <3> HIDE DEF s, layer
    <3> QED BY <2>1, <3>2
  <2> DEFINE X == {layer, s}
  <2>3. K = Linked(S) \ X /\ J = Linked(S) \ (X \ {s}) /\ s \in X
    <3>1. X \ {s} = {layer}
      BY <1>3, <1>4
    <3> QED BY <1>3, <1>4, <3>1 DEF CopyLinks
  <2>4. Index(s) > 1 => Back(s) \notin X
    BY <2>2
  <2>5. C = Upto("global", i, j, k) /\ S = Complete({"control"}) \cup C
    BY <1>4
  <2> HIDE DEF s, layer, C, S, K, J, X
  <2> QED BY <1>3, <2>1, <2>3, <2>4, <2>5, CopyIsReady
<1>8. Spread(heap', control, average, n, L, lost, C, S, J)
  <2>1. Spread(heap, control, average, n, L, lost, C, S, K)
    BY <1>2, SpreadNow
  <2>2. Up(s) = layer
    BY <1>3, <1>4, LooseSites
  <2>3. Puts(L, Up(s), doing.layer) /\ Puts(L, s, doing.neuron)
        /\ Links(heap, heap', doing.layer, doing.neuron, "own")
    BY <1>1, <1>4, <2>2 DEF Puts, Links
  <2> HIDE DEF s, layer, C, S, K, J, n
  <2> QED BY <1>3, <1>7, <2>1, <2>3, SpreadLink
<1>9. heap[doing.currentneuron].next = At(L, <<"control", i, j + 1, 0>>)
  <2>1. Onward(t) = <<"control", i, j + 1, 0>>
    BY <1>3, <1>4 DEF Onward
  <2> HIDE DEF t
  <2> QED BY <2>1, <1>2, <1>4, <1>5, SumPointers
<1>10. /\ doing'.proc = "copy" /\ doing'.network = doing.network /\ doing'.layer = doing.layer
       /\ doing'.neuron = NULL /\ doing'.currentlayer = doing.currentlayer
       /\ doing'.currentneuron = At(L, <<"control", i, j + 1, 0>>)
  BY <1>1, <1>3, <1>9 DEF Copies
<1>11. Cursors(doing', L, i, j, k)
  BY <1>3, <1>4, <1>6, <1>10 DEF Cursors
<1>12. Copied(doing', i, j, k) = C /\ Loose(doing', i, j) = {layer}
  BY <1>3, <1>10 DEF Copied, Loose
<1>13. SpreadingAt(heap', control, doing', average, round, L, lost, i, j, k)
  <2> HIDE DEF s, C, S, layer
  <2> QED BY <1>3, <1>4, <1>8, <1>11, <1>12 DEF SpreadingAt
<1> QED BY <1>1, <1>2, <1>3, <1>10, <1>13, CopyingNow


LEMMA LayerCopiedWhole == ASSUME ListsInv, WholeInv, LayerCopied PROVE WholeInv'
<1>1. /\ doing.proc = "copy" /\ doing.layer # NULL /\ doing.neuron = NULL
      /\ doing.currentneuron = NULL
      /\ heap' = LinkCopy(heap, doing.network, doing.layer)
      /\ doing' = [doing EXCEPT !.layer = NULL, !.currentlayer = heap[doing.currentlayer].next]
      /\ UNCHANGED <<shape, control, client, average, round>>
  BY DEF LayerCopied
<1>2. PICK L, lost, i, j, k : CopyingFacts(L, lost, i, j, k)
  BY <1>1, InCopying
<1> DEFINE s == <<"global", i, 0, 0>>
           t == <<"control", i, 0, 0>>
           root == <<"global", 0, 0, 0>>
           C == Copied(doing, i, j, k)
           S == CopySites(doing, i, j, k)
           K == CopyLinks(doing, i, j, k)
           J == Linked(S)
           X == {s}
           n == round + 1
<1>3. /\ shape \in Shapes /\ doing \in Copies
      /\ L \in [Site -> Address] /\ doing.network # NULL
      /\ i \in Nat /\ j \in Nat /\ k \in Nat /\ OnPlace(i, j, k) /\ Len(shape) \in Nat
  BY <1>1, <1>2, SiteSizes DEF CopyingFacts
<1>4. /\ C = Upto("global", i, j, k) /\ S = Complete({"control"}) \cup C
      /\ Loose(doing, i, j) = X /\ i # 0 /\ FullNeuron(i, j, k)
      /\ doing.network = L[root] /\ doing.layer = L[s] /\ doing.currentlayer = L[t]
      /\ doing.currentneuron = At(L, <<"control", i, j + 1, 0>>)
  BY <1>1, <1>2, <1>3 DEF CopyingFacts, Cursors, Copied, Loose, CopySites
<1>5. /\ i <= Len(shape) /\ j <= NeuronsIn(i)
      /\ t \in Site /\ t \in Complete({"control"})
  <2>1. i <= Len(shape) /\ j <= NeuronsIn(i)
    BY <1>3, <1>4 DEF OnPlace
  <2>2. t \in Site
    BY <1>3, <1>4, <2>1, SumSites
  <2> QED BY <2>1, <2>2 DEF Complete
<1>6. FullLayer(i, j, k)
  <2>1. <<"control", i, j + 1, 0>> \notin Site
    BY <1>1, <1>3, <1>4, AtIs
  <2>2. WeightsIn(i) \in Nat /\ NeuronsIn(i) \in Nat
    BY <1>3, <1>4, <1>5, SiteSizes
  <2>3. ~(j + 1 <= NeuronsIn(i))
    <3>1. j + 1 \in Nat /\ "control" \in Role
      BY <1>3 DEF Role
    <3> QED BY <1>3, <1>5, <2>1, <2>2, <3>1, SiteIs
  <2> QED BY <1>3, <1>4, <1>5, <2>2, <2>3 DEF FullLayer
<1>7. Ready(S, K, s) /\ With(K, s, J)
  <2>1. s \in C /\ Index(s) = i /\ Back(s) = <<"global", i - 1, 0, 0>> /\ Index(s) > 0
    <3>1. s \in Upto("global", i, j, k) /\ Index(s) = i /\ Back(s) = <<"global", i - 1, 0, 0>>
      BY <1>3, <1>4, LooseSites
    <3>2. i > 0
      BY <1>3, <1>4
    <3> HIDE DEF s, C
    <3> QED BY <1>4, <3>1, <3>2
  <2>2. Back(s) \notin X
    <3>1. i - 1 # i
      BY <1>3
    <3>2. <<"global", i - 1, 0, 0>> # s
      BY <3>1
    <3> HIDE DEF s
    <3> QED BY <2>1, <3>2
  <2>3. K = Linked(S) \ X /\ J = Linked(S) \ (X \ {s}) /\ s \in X
    BY <1>3, <1>4 DEF CopyLinks
  <2>4. C = Upto("global", i, j, k) /\ S = Complete({"control"}) \cup C
    BY <1>4
  <2> HIDE DEF s, C, S, K, J, X
  <2> QED BY <1>3, <2>1, <2>2, <2>3, <2>4, CopyIsReady
<1>8. Spread(heap', control, average, n, L, lost, C, S, J)
  <2>1. Spread(heap, control, average, n, L, lost, C, S, K)
    BY <1>2, SpreadNow
  <2>2. Up(s) = root
    BY <1>3, <1>4, LooseSites
  <2>3. Puts(L, Up(s), doing.network) /\ Puts(L, s, doing.layer)
        /\ Links(heap, heap', doing.network, doing.layer, "own")
    BY <1>1, <1>4, <2>2 DEF Puts, Links
  <2> HIDE DEF s, C, S, K, J, n
  <2> QED BY <1>3, <1>7, <2>1, <2>3, SpreadLink
<1>9. heap[doing.currentlayer].next = At(L, <<"control", i + 1, 0, 0>>)
  <2>1. Onward(t) = <<"control", i + 1, 0, 0>>
    BY <1>3, <1>4 DEF Onward
  <2> HIDE DEF t
  <2> QED BY <2>1, <1>2, <1>4, <1>5, SumPointers
<1>10. /\ doing'.proc = "copy" /\ doing'.network = doing.network /\ doing'.layer = NULL
       /\ doing'.neuron = NULL /\ doing'.currentlayer = At(L, <<"control", i + 1, 0, 0>>)
  BY <1>1, <1>3, <1>9 DEF Copies
<1>11. Cursors(doing', L, i, j, k)
  BY <1>3, <1>4, <1>6, <1>10 DEF Cursors
<1>12. Copied(doing', i, j, k) = C /\ Loose(doing', i, j) = {}
  BY <1>3, <1>10 DEF Copied, Loose
<1>13. SpreadingAt(heap', control, doing', average, round, L, lost, i, j, k)
  <2>1. J = Linked(S) \ {}
    OBVIOUS
  <2> HIDE DEF s, C, S, J
  <2> QED BY <1>3, <1>4, <1>8, <1>11, <1>12, <2>1 DEF SpreadingAt
<1> QED BY <1>1, <1>2, <1>3, <1>10, <1>13, CopyingNow

LEMMA CopyWeightWhole == ASSUME ListsInv, WholeInv, CopyWeight PROVE WholeInv'
<1> DEFINE f == [heap EXCEPT ![Malloc] = NewNode("weight", heap[doing.currentweight].value)]
<1>1. /\ doing.proc = "copy" /\ Room /\ doing.neuron # NULL /\ doing.currentweight # NULL
      /\ heap' = LinkCopy(f, doing.neuron, Malloc)
      /\ doing' = [doing EXCEPT !.currentweight = heap[doing.currentweight].next]
      /\ UNCHANGED <<shape, control, client, average, round>>
  BY DEF CopyWeight
<1>2. PICK L, lost, i, j, k : CopyingFacts(L, lost, i, j, k)
  BY <1>1, InCopying
<1> DEFINE q == k + 1
           s == <<"global", i, j, q>>
           t == <<"control", i, j, q>>
           neuron == <<"global", i, j, 0>>
           layer == <<"global", i, 0, 0>>
           X == {layer, neuron}
           Y == {layer, neuron, s}
           C == Copied(doing, i, j, k)
           D == Upto("global", i, j, q)
           T == Complete({"control"}) \cup D
           K == CopyLinks(doing, i, j, k)
           J == Linked(T) \ X
           n == round + 1
           value == heap[L[Twin(s)]].value
<1>3. /\ shape \in Shapes /\ "global" \in Role /\ "control" \in Role /\ doing \in Copies
      /\ L \in [Site -> Address] /\ doing.network # NULL /\ doing.layer # NULL
      /\ i \in Nat /\ j \in Nat /\ k \in Nat /\ q \in Nat /\ q > 0 /\ OnPlace(i, j, k)
      /\ Len(shape) \in Nat
  BY <1>1, <1>2, SiteSizes DEF CopyingFacts, Role
<1>4. /\ C = Upto("global", i, j, k) /\ Loose(doing, i, j) = X /\ i # 0 /\ j # 0
      /\ doing.network = L[<<"global", 0, 0, 0>>]
      /\ doing.layer = L[layer] /\ doing.currentlayer = L[<<"control", i, 0, 0>>]
      /\ doing.neuron = L[neuron] /\ doing.currentneuron = L[<<"control", i, j, 0>>]
      /\ doing.currentweight = At(L, t)
  BY <1>1, <1>2, <1>3 DEF CopyingFacts, Cursors, Copied, Loose
<1>5. t \in Site /\ k < WeightsIn(i) /\ doing.currentweight = L[t] /\ t \in Complete({"control"})
      /\ i <= Len(shape) /\ j <= NeuronsIn(i)
  <2>1. t \in Site
    BY <1>1, <1>3, <1>4, AtIs
  <2>2. q <= WeightsIn(i) /\ i <= Len(shape) /\ j <= NeuronsIn(i)
    BY <1>4, <2>1, SiteIs
  <2>3. WeightsIn(i) \in Nat
    BY <1>3, <1>4, <2>2, SiteSizes
  <2> QED BY <1>3, <1>4, <2>1, <2>2, <2>3 DEF At, Complete
<1>6. Comes("global", i, j, k, i, j, q, s) /\ KindOf(s) = "weight" /\ Up(s) = neuron
  BY <1>3, <1>4, <1>5, WeightComes
<1>7. /\ s \in Site /\ s[1] = "global" /\ s \notin C /\ With(C, s, D) /\ Twin(s) = t
      /\ OnPlace(i, j, q) /\ Index(s) > 0 /\ s # layer /\ s # neuron /\ s \in D
  BY <1>3, <1>4, <1>6 DEF Comes, With, Twin
<1>8. f = [heap EXCEPT ![Malloc] = NewNode(KindOf(s), value)]
  BY <1>1, <1>5, <1>6, <1>7
<1>9. PICK M \in [Site -> Address] :
        /\ Placed(L, M, s, Malloc)
        /\ Spread(f, control, average, n, M, lost, D, T, K)
  <2>1. /\ C = Copied(doing, i, j, k) /\ T = Complete({"control"}) \cup D
        /\ K = CopyLinks(doing, i, j, k) /\ value = heap[L[Twin(s)]].value
    OBVIOUS
  <2> HIDE DEF s, C, D, K, T, value, f
  <2> QED BY <1>1, <1>2, <1>7, <1>8, <2>1, SpreadsBy
<1>10. K = Linked(T) \ Y
  <2>1. K = Linked(Complete({"control"}) \cup C) \ X
    BY <1>4 DEF CopyLinks, CopySites
  <2>2. s \notin Complete({"control"})
    BY <1>7 DEF Complete
  <2>3. Y = X \cup {s}
    OBVIOUS
  <2> HIDE DEF s, C, D, K, X, Y
  <2> QED BY <2>1, <2>2, <2>3, <1>7 DEF Linked, With
<1>11. Ready(T, K, s) /\ With(K, s, J)
  <2>1. Index(s) > 1 => Back(s) \notin Y
    <3>1. Index(s) = q /\ Back(s) = <<"global", i, j, k>>
      BY <1>3 DEF Index, Back
    <3>2. q > 1 => k # 0 /\ k # q
      BY <1>3
    <3>3. q > 1 => <<"global", i, j, k>> # layer /\ <<"global", i, j, k>> # neuron
                   /\ <<"global", i, j, k>> # s
      BY <3>2
    <3> HIDE DEF s, q, layer, neuron
    <3> QED BY <3>1, <3>3
  <2>2. J = Linked(T) \ (Y \ {s}) /\ s \in Y
    <3>1. Y \ {s} = X
      BY <1>7
    <3> HIDE DEF X, Y, T
    <3>2. J = Linked(T) \ (Y \ {s})
      BY <3>1
    <3> QED BY <3>2 DEF Y
  <2>3. D = Upto("global", i, j, q) /\ T = Complete({"control"}) \cup D
    OBVIOUS
  <2> HIDE DEF s, D, T, K, J, X, Y, q
  <2> QED BY <1>3, <1>7, <1>10, <2>1, <2>2, <2>3, CopyIsReady
<1>12. M[s] = Malloc /\ \A u : u # s => At(M, u) = At(L, u) /\ (u \in Site => M[u] = L[u])
  BY <1>9 DEF Placed, At
<1>13. /\ M[t] = L[t] /\ M[<<"global", 0, 0, 0>>] = L[<<"global", 0, 0, 0>>]
       /\ M[layer] = L[layer] /\ M[neuron] = L[neuron]
       /\ M[<<"control", i, 0, 0>>] = L[<<"control", i, 0, 0>>]
       /\ M[<<"control", i, j, 0>>] = L[<<"control", i, j, 0>>]
       /\ At(M, <<"control", i, j, q + 1>>) = At(L, <<"control", i, j, q + 1>>)
  <2>1. <<"global", 0, 0, 0>> \in Site /\ layer \in Site /\ neuron \in Site
        /\ <<"control", i, 0, 0>> \in Site /\ <<"control", i, j, 0>> \in Site
    BY <1>3, <1>4, <1>5, RootsThere, GlobalSites, SumSites
  <2>2. t # s /\ <<"control", i, j, q + 1>> # s /\ <<"global", 0, 0, 0>> # s
        /\ <<"control", i, 0, 0>> # s /\ <<"control", i, j, 0>> # s
    BY <1>3
  <2> HIDE DEF s, t, layer, neuron
  <2> QED BY <1>5, <1>7, <1>12, <2>1, <2>2
<1>14. Spread(heap', control, average, n, M, lost, D, T, J)
  <2>1. Puts(M, Up(s), doing.neuron) /\ Puts(M, s, Malloc)
        /\ Links(f, heap', doing.neuron, Malloc, "own")
    BY <1>1, <1>4, <1>6, <1>12, <1>13 DEF Puts, Links
  <2> HIDE DEF s, D, T, K, J, n, f
  <2> QED BY <1>3, <1>9, <1>11, <2>1, SpreadLink
<1>15. heap[doing.currentweight].next = At(L, <<"control", i, j, q + 1>>)
  <2>1. Onward(t) = <<"control", i, j, q + 1>>
    BY <1>3 DEF Onward
  <2> HIDE DEF t
  <2> QED BY <2>1, <1>2, <1>5, SumPointers
<1>16. /\ doing'.proc = "copy" /\ doing'.network = doing.network /\ doing'.layer = doing.layer
       /\ doing'.neuron = doing.neuron /\ doing'.currentlayer = doing.currentlayer
       /\ doing'.currentneuron = doing.currentneuron
       /\ doing'.currentweight = At(L, <<"control", i, j, q + 1>>)
  BY <1>1, <1>3, <1>15 DEF Copies
<1>17. Cursors(doing', M, i, j, q)
  <2>1. /\ doing'.network = M[<<"global", 0, 0, 0>>] /\ doing'.network # NULL
        /\ doing'.layer = M[layer] /\ doing'.currentlayer = M[<<"control", i, 0, 0>>]
        /\ doing'.neuron = M[neuron] /\ doing'.currentneuron = M[<<"control", i, j, 0>>]
        /\ doing'.currentweight = At(M, <<"control", i, j, q + 1>>)
        /\ doing'.layer # NULL /\ doing'.neuron # NULL
    BY <1>1, <1>3, <1>4, <1>13, <1>16
  <2> QED BY <1>4, <2>1 DEF Cursors
<1>18. Copied(doing', i, j, q) = D /\ Loose(doing', i, j) = X
  BY <1>1, <1>3, <1>16 DEF Copied, Loose
<1>19. SpreadingAt(heap', control, doing', average, round, M, lost, i, j, q)
  <2>1. T = Complete({"control"}) \cup D /\ J = Linked(T) \ X
    OBVIOUS
  <2> HIDE DEF s, D, T, J, q, X
  <2> QED BY <1>7, <1>14, <1>17, <1>18, <2>1 DEF SpreadingAt
<1> HIDE DEF q, f
<1> QED BY <1>1, <1>2, <1>3, <1>16, <1>19, CopyingNow


\* The copy is published: it has what the sum held, before the sum's weights are zeroed.
LEMMA PublishWhole == ASSUME ListsInv, WholeInv, Publish PROVE WholeInv'
<1>1. /\ doing.proc = "copy" /\ doing.network # NULL /\ doing.layer = NULL
      /\ doing.currentlayer = NULL /\ global' = doing.network
      /\ heap' = [a \in Address |-> IF a \in NodesOf(heap, control) /\ heap[a].kind = "weight"
                                    THEN [heap[a] EXCEPT !.value = 0] ELSE heap[a]]
      /\ doing' = Idle /\ round' = round + 1 /\ UNCHANGED <<shape, control, client, average>>
  BY DEF Publish
<1>2. PICK L, lost, i, j, k : CopyingFacts(L, lost, i, j, k)
  BY <1>1, InCopying
<1> DEFINE R == {"global", "control"}
           C == Complete({"global"})
           S == Complete(R)
           K == Linked(S)
           n == round + 1
<1>3. /\ shape \in Shapes /\ "global" \in Role /\ "control" \in Role /\ client = NULL
      /\ L \in [Site -> Address] /\ lost \in SUBSET Address /\ doing.neuron = NULL
      /\ i \in Nat /\ j \in Nat /\ k \in Nat /\ OnPlace(i, j, k) /\ Len(shape) \in Nat
      /\ round \in Nat
  BY <1>1, <1>2, SiteSizes DEF CopyingFacts, Role, ListsInv, TypeInv
<1>4. /\ Copied(doing, i, j, k) = Upto("global", i, j, k) /\ Loose(doing, i, j) = {}
      /\ FullLayer(i, j, k) /\ doing.network = L[<<"global", 0, 0, 0>>]
      /\ doing.currentlayer = At(L, <<"control", i + 1, 0, 0>>)
  BY <1>1, <1>2, <1>3 DEF CopyingFacts, Cursors, Copied, Loose
<1>5. i = Len(shape)
  <2>1. <<"control", i + 1, 0, 0>> \notin Site
    BY <1>1, <1>3, <1>4, AtIs
  <2>2. i + 1 \in Nat
    BY <1>3
  <2>3. ~(i + 1 <= Len(shape))
    BY <1>3, <2>1, <2>2, SumSites
  <2> QED BY <1>3, <2>3 DEF OnPlace
<1>6. Copied(doing, i, j, k) = C
  BY <1>3, <1>4, <1>5, UptoAll
<1>7. Spread(heap, control, average, n, L, lost, C, S, K)
  <2>1. CopySites(doing, i, j, k) = S
    BY <1>6 DEF CopySites, Complete
  <2>2. CopyLinks(doing, i, j, k) = K
    BY <1>4, <2>1 DEF CopyLinks
  <2> HIDE DEF S, K
  <2> QED BY <1>2, <1>6, <2>1, <2>2, SpreadNow
<1>8. /\ Trees(heap, L, lost, S, K, "own") /\ control = L[<<"control", 0, 0, 0>>]
      /\ Lost(lost, n) /\ average = Content(heap, L, "control")
      /\ \A t \in C : heap[L[t]].value = heap[L[Twin(t)]].value
  BY <1>7 DEF Spread
<1>9. Trees(heap, L, lost, S, K, "none")
  <2>1. \A s \in K : Index(s) = 1 => Onward(s) \in K
    BY <1>3, NoSingleSites DEF Linked
  <2>2. Laid(heap, L, S, K, "none")
    <3>1. Laid(heap, L, S, K, "own")
      BY <1>8 DEF Trees
    <3> HIDE DEF S, K
    <3> QED BY <2>1, <3>1, NoLoops
  <2> QED BY <1>8, <2>2 DEF Trees
<1>10. Trees(heap', L, lost, S, K, "none")
  BY <1>9, PublishAssigns, TreesSame
<1>11. NodesOf(heap, control) = Image(L, Complete({"control"}))
  <2>1. Has(S, K, "control")
    BY HasComplete
  <2>2. Stands(heap, L, "control")
    <3> HIDE DEF S, K
    <3> QED BY <1>3, <1>9, <2>1, NetworkStands
  <2> QED BY <1>3, <1>8, <2>2, NodesAre
<1>12. ASSUME NEW t \in C PROVE heap'[L[t]] = heap[L[t]]
  <2>1. t \in S /\ t \in Site /\ t[1] = "global" /\ Complete({"control"}) \subseteq S
    BY DEF Complete
  <2>2. Apiece(L, S)
    BY <1>9 DEF Trees, Laid
  <2>3. L[t] \notin Image(L, Complete({"control"}))
    <3>1. \A s \in Complete({"control"}) : s # t
      BY <2>1 DEF Complete
    <3> HIDE DEF S
    <3> QED BY <2>1, <2>2, <3>1 DEF Apiece, Image
  <2>4. L[t] \in Address
    BY <1>3, <2>1
  <2> QED BY <1>1, <1>11, <2>3, <2>4
<1>13. SameValues(heap, heap', L, L, "global", "control")
  <2> SUFFICES ASSUME NEW s \in Complete({"control"})
               PROVE  heap'[L[<<"global", s[2], s[3], s[4]>>]].value = heap[L[s]].value
    BY DEF SameValues
  <2> DEFINE t == <<"global", s[2], s[3], s[4]>>
  <2>1. s \in Site /\ s[1] = "control"
    BY DEF Complete
  <2>2. /\ s = <<"control", s[2], s[3], s[4]>> /\ s[2] \in Nat /\ s[3] \in Nat /\ s[4] \in Nat
        /\ s[2] <= Len(shape) /\ s[3] <= NeuronsIn(s[2])
        /\ s[4] <= (IF s[3] = 0 THEN 0 ELSE WeightsIn(s[2]))
    BY <2>1, SiteParts
  <2>3. t \in Site
    BY <1>3, <2>2, SiteIs
  <2>4. t \in C /\ Twin(t) = s
    BY <2>2, <2>3 DEF Complete, Twin
  <2> HIDE DEF t
  <2>5. heap'[L[t]].value = heap[L[s]].value
    BY <1>8, <1>12, <2>4
  <2> QED BY <2>5 DEF t
<1>14. average = Content(heap', L, "global")
  BY <1>3, <1>8, <1>13, SameContent
<1>15. Roots(global', control', client', L, R)
  BY <1>1, <1>3, <1>4, <1>8 DEF Roots
<1>16. RestingAt(heap', global', control', client', average', round', L, R, lost)
  BY <1>1, <1>8, <1>10, <1>14, <1>15 DEF RestingAt
<1>17. Resting(heap', global', control', client', average', round')
  BY <1>3, <1>16 DEF Resting, Role
<1> QED BY <1>1, <1>17, WholeNow


-----------------------------------------------------------------------------
(* Every step, and what holds between two calls.                             *)

\* Memory for no node at all has no networks.
Barren == doing = Idle /\ control = NULL /\ client = NULL /\ round = 0
NetworksInv == IF Address = {} THEN Barren ELSE WholeInv

LEMMA NetworksInitially == InitLists => NetworksInv
<1> SUFFICES ASSUME InitLists PROVE NetworksInv
  OBVIOUS
<1> USE DEF InitLists
<1>1. CASE Address = {}
  BY <1>1 DEF NetworksInv, Barren
<1>2. CASE Address # {}
  <2>1. PICK L : L \in [Site -> Address]
    <3>1. PICK a \in Address : TRUE
      BY <1>2
    <3> QED BY <3>1, [s \in Site |-> a] \in [Site -> Address]
  <2>2. heap \in Heaps /\ Live(heap) = {}
    BY ListsInitially DEF ListsInv, TypeInv, Live
  <2>3. Complete({}) = {} /\ Linked(Complete({})) = {}
    BY DEF Complete, Linked
  <2>4. Laid(heap, L, {}, {}, "none") /\ Image(L, {}) = {} /\ Closed(heap, {})
    BY DEF Laid, Apiece, LastRight, Image, Closed
  <2>5. Trees(heap, L, {}, Complete({}), Linked(Complete({})), "none")
    BY <2>1, <2>2, <2>3, <2>4 DEF Trees
  <2>6. Roots(global, control, client, L, {}) /\ Lost({}, round)
    BY DEF Roots, Lost
  <2>7. RestingAt(heap, global, control, client, average, round, L, {}, {})
    BY <2>5, <2>6 DEF RestingAt
  <2>8. Resting(heap, global, control, client, average, round)
    BY <2>1, <2>7 DEF Resting
  <2> QED BY <1>2, <2>8 DEF NetworksInv, WholeInv, WholeLists, Idle
<1> QED BY <1>1, <1>2

\* Nothing is begun where there is no memory.
LEMMA BarrenStep == Address = {} /\ Barren /\ [NextLists]_listVars => Barren'
<1> SUFFICES ASSUME Address = {}, Barren, [NextLists]_listVars PROVE Barren'
  OBVIOUS
<1>1. ~Room
  BY DEF Room, Allocated
<1>2. doing.proc = "idle" /\ client = NULL
  BY DEF Barren, Idle
<1>3. UNCHANGED listVars
  BY <1>1, <1>2 DEF NextLists, Building, Freeing, Copying, CreateNetwork, ReceiveModel, Average,
     BuildLayer, BuildNeuron, BuildWeight, Built, EnterLayer, FreeWeight, FreeNeuron, FreeLayer,
     FreeNetwork, CopyNetwork, CopyLayer, CopyNeuron, CopyWeight, NeuronCopied, LayerCopied, Publish
<1> QED BY <1>3 DEF listVars, Barren

LEMMA WholeStays == WholeInv /\ UNCHANGED listVars => WholeInv'
<1> SUFFICES ASSUME WholeInv, UNCHANGED listVars PROVE WholeInv'
  OBVIOUS
<1>1. shape' = shape /\ WholeLists(heap', global', control', client', doing', average', round')
  BY DEF listVars, WholeInv
<1> QED BY <1>1, ShapeStays

LEMMA NetworksStep == ListsInv /\ NetworksInv /\ [NextLists]_listVars => NetworksInv'
<1> SUFFICES ASSUME ListsInv, NetworksInv, [NextLists]_listVars PROVE NetworksInv'
  OBVIOUS
<1>1. CASE Address = {}
  BY <1>1, BarrenStep DEF NetworksInv
<1>2. CASE Address # {}
  <2>1. WholeInv
    BY <1>2 DEF NetworksInv
  <2>2. WholeInv'
    BY <2>1, WholeStays, CreateNetworkWhole, ReceiveModelWhole, AverageWhole, BuildLayerWhole,
       BuildNeuronWhole, BuildWeightWhole, BuiltWhole, EnterLayerWhole, FreeWeightWhole,
       FreeNeuronWhole, FreeLayerWhole, FreeNetworkWhole, CopyNetworkWhole, CopyLayerWhole,
       CopyNeuronWhole, CopyWeightWhole, NeuronCopiedWhole, LayerCopiedWhole, PublishWhole
       DEF NextLists, Building, Freeing, Copying
  <2> QED BY <1>2, <2>2 DEF NetworksInv
<1> QED BY <1>1, <1>2

\* Whatever runs, the nodes in memory are those of the networks the program knows, as
\* far as they have been built, freed or copied, and of the models that were lost.
THEOREM NetworksInvariant == ListsSpec => [](ListsInv /\ NetworksInv)
<1>1. ListsInv /\ NetworksInv /\ [NextLists]_listVars => (ListsInv /\ NetworksInv)'
  BY ListsStep, NetworksStep
<1> QED BY <1>1, ListsInitially, NetworksInitially, PTL DEF ListsSpec

LEMMA NetworksAreTyped == ListsInv /\ NetworksInv => ListsTypeOK
<1> SUFFICES ASSUME ListsInv, NetworksInv PROVE ListsTypeOK
  OBVIOUS
<1>1. shape \in Shapes /\ doing \in Doing
  BY DEF ListsInv, TypeInv
<1>2. CASE Address = {}
  BY <1>2 DEF ListsTypeOK, Allocated
<1>3. CASE Address # {}
  <2>1. WholeInv
    BY <1>3 DEF NetworksInv
  <2>2. doing = Idle \/ doing.proc = "build" \/ doing.proc = "free" \/ doing.proc = "copy"
    BY <1>1 DEF Doing, Builds, Frees, Copies
  <2>3. \E L, lost, S, K, loops : Trees(heap, L, lost, S, K, loops)
    <3>1. CASE doing = Idle
      BY <2>1, <3>1 DEF WholeInv, WholeLists, Resting, RestingAt
    <3>2. CASE doing.proc = "build"
      BY <2>1, <3>2 DEF WholeInv, WholeLists, Growing, GrowingAt
    <3>3. CASE doing.proc = "free"
      <4>1. PICK L, lost, i, j, k : LeavingAt(heap, control, doing, average, round, L, lost, i, j, k)
        BY <2>1, <3>3 DEF WholeInv, WholeLists, Leaving
      <4>2. Trees(heap, L, lost, Complete({"control"}) \cup Rest(i, j, k),
                  Linked(Complete({"control", "global"})), "none")
        BY <4>1 DEF LeavingAt
      <4> QED BY <4>2
    <3>4. CASE doing.proc = "copy"
      <4>1. PICK L, lost, i, j, k : SpreadingAt(heap, control, doing, average, round, L, lost, i, j, k)
        BY <2>1, <3>4 DEF WholeInv, WholeLists, Spreading
      <4>2. \E S, K : Trees(heap, L, lost, S, K, "own")
        BY <4>1 DEF SpreadingAt, Spread
      <4> QED BY <4>2
    <3> QED BY <2>2, <3>1, <3>2, <3>3, <3>4
  <2> QED BY <1>1, <2>3, TreesAreTyped
<1> QED BY <1>2, <1>3

\* Every node is linked to nodes of its own kind, and to those of the kind below it
\* as their parent, while InitializeNeuralNetWork, freeNeuralNetwork and
\* CopyNeuralNetwork run and between them.
THEOREM ListsTypeCorrect == ListsSpec => []ListsTypeOK
BY NetworksInvariant, NetworksAreTyped, PTL

\* Two networks and the models that were lost, counted.
LEMMA LostAre ==
  ASSUME shape \in Shapes, NEW h, NEW L, NEW lost, NEW n \in Nat,
         Trees(h, L, lost, Complete({"global", "control"}),
               Linked(Complete({"global", "control"})), "none"), Lost(lost, n)
  PROVE  LET G == Image(L, Complete({"global"}))
             C == Image(L, Complete({"control"}))
             own == G \cup C
         IN /\ G \cap C = {} /\ own \subseteq Live(h)
            /\ 2 * Cardinality(Live(h) \ own) = n * Cardinality(own)
<1> DEFINE S == Complete({"global", "control"})
           G == Image(L, Complete({"global"}))
           C == Image(L, Complete({"control"}))
           own == G \cup C
<1>1. /\ L \in [Site -> Address] /\ Apiece(L, S)
      /\ Live(h) = lost \cup Image(L, S) /\ lost \cap Image(L, S) = {}
  BY DEF Trees, Laid
<1>2. /\ Complete({"global"}) \subseteq S /\ Complete({"control"}) \subseteq S
      /\ Complete({"global"}) \cap Complete({"control"}) = {}
      /\ S = Complete({"global"}) \cup Complete({"control"})
  BY DEF Complete
<1>3. own = Image(L, S) /\ G \cap C = {}
  <2> HIDE DEF S
  <2> QED BY <1>1, <1>2 DEF Image, Apiece
<1>4. /\ IsFiniteSet(G) /\ Cardinality(G) = Size /\ IsFiniteSet(C) /\ Cardinality(C) = Size
      /\ Size \in Nat
  <2>1. Apiece(L, Complete({"global"})) /\ Apiece(L, Complete({"control"}))
    BY <1>1, <1>2 DEF Apiece
  <2>2. "global" \in Role /\ "control" \in Role
    BY DEF Role
  <2> QED BY <1>1, <2>1, <2>2, SizeOf
<1>5. Cardinality(own) = 2 * Size
  <2> HIDE DEF G, C
  <2>1. Cardinality(G \cup C) = Cardinality(G) + Cardinality(C) - Cardinality(G \cap C)
    BY <1>4, FS_Union
  <2> QED BY <1>3, <1>4, <2>1, FS_EmptySet DEF own
<1>6. Live(h) \ own = lost
  BY <1>1, <1>3
<1>7. 2 * Cardinality(lost) = n * (2 * Size)
  <2>1. CASE n = 0
    <3>1. lost = {} /\ Cardinality({}) = 0
      BY <2>1, FS_EmptySet DEF Lost
    <3>2. Cardinality(lost) = 0
      BY <3>1
    <3>3. 2 * 0 = 0 * (2 * Size)
      BY <1>4
    <3> QED BY <2>1, <3>2, <3>3
  <2>2. CASE n # 0
    <3>1. Cardinality(lost) = n * Size
      BY <2>2 DEF Lost
    <3>2. \A a, b \in Nat : 2 * (a * b) = a * (2 * b)
      OBVIOUS
    <3> QED BY <3>1, <3>2, <1>4
  <2> QED BY <2>1, <2>2
<1>8. own \subseteq Live(h)
  BY <1>1, <1>3
<1> QED BY <1>3, <1>5, <1>6, <1>7, <1>8

LEMMA WholeBetween == ListsInv /\ NetworksInv => NetworksAreWhole
<1> SUFFICES ASSUME ListsInv, NetworksInv, Serving PROVE NetworksAreWhole
  BY DEF NetworksAreWhole, PublishedCopyIsExact, OnlyClientModelsLeak
<1>1. shape \in Shapes /\ round \in Nat /\ (control # NULL => global # NULL)
  BY DEF ListsInv, TypeInv, RootInv
<1>2. CASE Address = {}
  BY <1>2 DEF NetworksInv, Barren, NetworksAreWhole, PublishedCopyIsExact, OnlyClientModelsLeak
<1>3. CASE Address # {}
  <2>1. PICK L \in [Site -> Address], R \in SUBSET Role, lost \in SUBSET Address :
          RestingAt(heap, global, control, client, average, round, L, R, lost)
    BY <1>3 DEF NetworksInv, WholeInv, WholeLists, Resting, Serving
  <2>2. /\ Trees(heap, L, lost, Complete(R), Linked(Complete(R)), "none")
        /\ Roots(global, control, client, L, R) /\ Lost(lost, round)
        /\ round > 0 => {"global", "control"} \subseteq R /\ average = Content(heap, L, "global")
    BY <2>1 DEF RestingAt
  <2>3. ASSUME NEW r \in R PROVE Stands(heap, L, r) /\ r \in Role
    <3>1. Has(Complete(R), Linked(Complete(R)), r)
      BY HasComplete
    <3> QED BY <1>1, <2>2, <3>1, NetworkStands
  <2>4. PublishedCopyIsExact
    <3> SUFFICES ASSUME round > 0 PROVE ContentOf(heap, global) = average
      BY DEF PublishedCopyIsExact
    <3>1. "global" \in R /\ average = Content(heap, L, "global")
      BY <2>2
    <3>2. global = L[<<"global", 0, 0, 0>>]
      BY <2>2, <3>1 DEF Roots
    <3>3. Stands(heap, L, "global") /\ "global" \in Role
      BY <2>3, <3>1
    <3> QED BY <1>1, <3>1, <3>2, <3>3, ContentIs
  <2>5. OnlyClientModelsLeak
    <3> SUFFICES ASSUME client = NULL, control # NULL
                 PROVE  LET own == NodesOf(heap, global) \cup NodesOf(heap, control)
                        IN /\ NodesOf(heap, global) \cap NodesOf(heap, control) = {}
                           /\ own \subseteq Allocated
                           /\ 2 * Cardinality(Allocated \ own) = round * Cardinality(own)
      BY DEF OnlyClientModelsLeak
    <3>1. R = {"global", "control"}
      <4>1. "client" \notin R
        <5>1. "client" \in Role => <<"client", 0, 0, 0>> \in Site
          BY <1>1, RootsThere
        <5>2. "client" \in R => L[<<"client", 0, 0, 0>>] # NULL
          BY <5>1, <2>1 DEF Address, NULL
        <5> QED BY <5>2, <2>2 DEF Roots
      <4>2. "control" \in R /\ "global" \in R
        BY <1>1, <2>2 DEF Roots
      <4> QED BY <4>1, <4>2, <2>1 DEF Role
    <3>2. control = L[<<"control", 0, 0, 0>>] /\ global = L[<<"global", 0, 0, 0>>]
      BY <2>2, <3>1 DEF Roots
    <3>3. /\ Stands(heap, L, "global") /\ Stands(heap, L, "control")
          /\ "global" \in Role /\ "control" \in Role
      BY <2>3, <3>1
    <3>4. /\ NodesOf(heap, global) = Image(L, Complete({"global"}))
          /\ NodesOf(heap, control) = Image(L, Complete({"control"}))
      BY <1>1, <3>2, <3>3, NodesAre
    <3>5. Allocated = Live(heap)
      BY DEF Allocated, Live
    <3>6. Trees(heap, L, lost, Complete({"global", "control"}),
                Linked(Complete({"global", "control"})), "none") /\ Lost(lost, round)
      BY <2>2, <3>1
    <3> QED BY <1>1, <3>4, <3>5, <3>6, LostAre
  <2> QED BY <2>4, <2>5 DEF NetworksAreWhole
<1> QED BY <1>2, <1>3

\* After any number of rounds of average, free, copy and publish, in networks of any
\* number of layers, neurons and weights: the published network is bias by bias and
\* weight by weight the average, the sum shares no node with it, and beside the two
\* there are only the models of the boards, one lost in each round.
THEOREM NetworksStayWhole == ListsSpec => []NetworksAreWhole
BY NetworksInvariant, WholeBetween, PTL

=============================================================================

------------------------------ MODULE CJsonList ------------------------------
(***************************************************************************)
(* The trees cJSON builds: an item points to its first child, the children *)
(* to each other, and the first child back to the last.  An action is one  *)
(* call of the library on the heap of items.  The caller keeps to what     *)
(* cJSON.h asks of it: it adds, inserts and deletes only items that it     *)
(* holds itself, it changes no list by way of a reference, and it leaves   *)
(* the head of a list alone while a reference to the list is in use.       *)
(***************************************************************************)
EXTENDS Integers, Sequences, FiniteSets, FiniteSetsExt, SequencesExt

CONSTANTS
  Node,   \* addresses of items, 1..n; 0 is NULL
  Keys,   \* names of members
  Folded, \* a name in lower case
  Kinds,  \* of items that are made alone
  Given,  \* objects that earlier calls have made, each the sequence of its members
  MaxItems,  \* bound: items the calls find memory for, at the addresses up to it
  MaxCalls  \* bound: calls of the library

NoKey == "NULL"

ASSUME NodeAssumption ==
  /\ Node = 1..Cardinality(Node)
  /\ Folded \in [Keys -> Keys] /\ NoKey \notin Keys
  /\ MaxItems \in Nat
  /\ Kinds \subseteq {"number", "array", "object"} /\ MaxCalls \in Nat

VARIABLES
  heap,       \* item at an address
  loose,      \* items in no list, in the caller's hands
  kids,       \* what each list should hold: the sequence of its items
  keyBlocks,  \* names allocated and not freed
  calls

listVars == <<heap, loose, kids, keyBlocks, calls>>

Item(kind) == [kind |-> kind, next |-> 0, prev |-> 0, child |-> 0, ref |-> 0,
               key |-> NoKey, const |-> FALSE]
Free == Item("free")
live == {n \in Node : heap[n].kind # "free"}
PlaceIn(s, x) == CHOOSE i \in DOMAIN s : s[i] = x
Lists == {n \in live : heap[n].kind \in {"array", "object"} /\ heap[n].ref = 0}
OwnsKey(item) == item.key # NoKey /\ ~item.const

\* The items from one on, by next; a walk is cut after every item was met.
RECURSIVE Walk(_, _, _)
Walk(h, n, left) == IF n = 0 \/ left = 0 THEN <<>> ELSE <<n>> \o Walk(h, h[n].next, left - 1)
Chain(h, l) == Walk(h, h[l].child, Cardinality(Node) + 1)

\* What cJSON_Delete frees from an item on: the item, its followers and, below
\* what is not a reference, its children.
RECURSIVE Deleted(_, _, _)
Deleted(h, n, left) ==
  IF n = 0 \/ left = 0 THEN {}
  ELSE {n} \cup Deleted(h, h[n].next, left - 1)
           \cup (IF h[n].ref # 0 THEN {} ELSE Deleted(h, h[n].child, left - 1))
Freed(h, n) == Deleted(h, n, Cardinality(Node) + 1)

\* Everything a walk of the tree comes to, what is referred to included.
RECURSIVE Met(_, _, _)
Met(h, n, left) ==
  IF left = 0 \/ n = 0 THEN {n}
  ELSE {n, h[n].ref} \cup UNION {Met(h, c, left - 1) : c \in Range(Chain(h, n))}
Reach(n) == Met(heap, n, Cardinality(Node)) \ {0}

held == UNION {Freed(heap, n) : n \in loose}
HeadIsFree(l) == \A n \in held : heap[n].ref # l
Below(n) == {n} \cup IF heap[n].ref # 0 THEN {} ELSE Freed(heap, heap[n].child)
MayDelete(n) == \A m \in held \ Below(n) : heap[m].ref \notin Below(n)
KeysOf(S) == Cardinality({n \in S : OwnsKey(heap[n])})

\* The items, made one after another, are the children of l.
Linked(h, l, items) ==
  [n \in Node |->
     IF n = l THEN [h[n] EXCEPT !.child = IF items = <<>> THEN 0 ELSE items[1]]
     ELSE IF n \notin Range(items) THEN h[n]
     ELSE LET i == PlaceIn(items, n) IN
          [h[n] EXCEPT !.next = IF i = Len(items) THEN 0 ELSE items[i + 1],
                       !.prev = IF i = 1 THEN Last(items) ELSE items[i - 1]]]

Named(item, k, constant_key) == [item EXCEPT !.key = k, !.const = constant_key]

\* The heap is empty, or holds objects, behind MaxItems; one call follows these.
InitList ==
  \E objects \in Given :
    LET all == FlattenSeq(objects)
        at(i) == MaxItems + i
        before(i) == MaxItems + Len(objects) + Len(FlattenSeq(SubSeq(objects, 1, i - 1)))
        members(i) == [j \in DOMAIN objects[i] |-> before(i) + j]
        made == [n \in Node |->
                   LET m == n - before(1) IN
                   IF m \in DOMAIN all THEN Named(Item(all[m].kind), all[m].name, FALSE)
                   ELSE IF m <= 0 /\ n > MaxItems THEN Item("object") ELSE Free] IN
    /\ heap = FoldLeft(LAMBDA h, i : Linked(h, at(i), members(i)), made,
                       [i \in DOMAIN objects |-> i])
    /\ kids = [n \in Node |-> IF n - MaxItems \in DOMAIN objects THEN members(n - MaxItems) ELSE <<>>]
    /\ loose = {at(i) : i \in DOMAIN objects} /\ keyBlocks = Len(all)
    /\ calls = IF objects = <<>> THEN 0 ELSE MaxCalls - 1

-----------------------------------------------------------------------------
Fresh == SelectSeq([n \in 1..MaxItems |-> n], LAMBDA n : n \notin live)
New == Head(Fresh)

\* cJSON_CreateNull, CreateNumber, CreateArray, CreateObject and their like.
Create(kind) ==
  /\ Fresh # <<>>
  /\ heap' = [heap EXCEPT ![New] = Item(kind)]
  /\ loose' = loose \cup {New}
  /\ UNCHANGED <<kids, keyBlocks>>

\* cJSON_CreateIntArray and its like.
CreateNumbers(count) ==
  /\ Len(Fresh) > count
  /\ LET numbers == SubSeq(Fresh, 2, count + 1) IN
       /\ heap' = Linked([n \in Node |-> IF n = New THEN Item("array")
                            ELSE IF n \in Range(numbers) THEN Item("number") ELSE heap[n]],
                         New, numbers)
       /\ kids' = [kids EXCEPT ![New] = numbers]
  /\ loose' = loose \cup {New}
  /\ UNCHANGED keyBlocks

add_item_to_array(h, l, item) ==
  IF h[l].child = 0
  THEN [h EXCEPT ![l].child = item, ![item].prev = item, ![item].next = 0]
  ELSE LET last == h[h[l].child].prev IN
       IF last = 0 THEN h
       ELSE [h EXCEPT ![last].next = item, ![item].prev = last, ![h[l].child].prev = item]

MayLengthen(l) == l \in Lists /\ (heap[l].child = 0 => HeadIsFree(l))
MayHold(l, item) == MayLengthen(l) /\ l \notin Reach(item)
Hangs(l, item) ==
  /\ kids' = [kids EXCEPT ![l] = Append(@, item)]
  /\ loose' = loose \ {item}

AddItemToArray(l, item) ==
  /\ MayHold(l, item) /\ heap[l].kind = "array"
  /\ heap' = add_item_to_array(heap, l, item)
  /\ Hangs(l, item)
  /\ UNCHANGED keyBlocks

OldName(item) == IF OwnsKey(item) THEN 1 ELSE 0

NameBlocks(item, constant_key) == keyBlocks - OldName(item) + IF constant_key THEN 0 ELSE 1

\* cJSON_AddItemToObject and cJSON_AddItemToObjectCS.
AddItemToObject(l, k, item, constant_key) ==
  /\ MayHold(l, item) /\ heap[l].kind = "object"
  /\ heap' = add_item_to_array([heap EXCEPT ![item] = Named(@, k, constant_key)], l, item)
  /\ keyBlocks' = NameBlocks(heap[item], constant_key)
  /\ Hangs(l, item)

\* cJSON_AddNullToObject and its like.
AddNewToObject(l, k, kind) ==
  /\ Fresh # <<>> /\ MayLengthen(l) /\ heap[l].kind = "object"
  /\ heap' = add_item_to_array([heap EXCEPT ![New] = Named(Item(kind), k, FALSE)], l, New)
  /\ keyBlocks' = keyBlocks + 1
  /\ Hangs(l, New)

create_reference(item) ==
  [heap[item] EXCEPT !.ref = IF @ = 0 THEN item ELSE @, !.key = NoKey, !.next = 0, !.prev = 0]

MayRefer(l, item) == Fresh # <<>> /\ MayHold(l, item)

AddItemReferenceToArray(l, item) ==
  /\ MayRefer(l, item) /\ heap[l].kind = "array"
  /\ heap' = add_item_to_array([heap EXCEPT ![New] = create_reference(item)], l, New)
  /\ Hangs(l, New)
  /\ UNCHANGED keyBlocks

AddItemReferenceToObject(l, k, item) ==
  /\ MayRefer(l, item) /\ heap[l].kind = "object"
  /\ heap' = add_item_to_array([heap EXCEPT ![New] = Named(create_reference(item), k, FALSE)],
                               l, New)
  /\ keyBlocks' = keyBlocks + 1
  /\ Hangs(l, New)

\* There is no memory for the name: the reference is made and never freed.
ReferenceWithoutName(l, item) ==
  /\ MayRefer(l, item) /\ heap[l].kind = "object"
  /\ heap' = [heap EXCEPT ![New] = create_reference(item)]
  /\ UNCHANGED <<loose, kids, keyBlocks>>

-----------------------------------------------------------------------------
\* The position of a member, 0 if there is none: a case-sensitive search ends at
\* the first item that has no name.
Position(l, k, case_sensitive) ==
  LET chain == Chain(heap, l)
      found == {i \in DOMAIN chain :
                  IF case_sensitive THEN heap[chain[i]].key \in {k, NoKey}
                  ELSE heap[chain[i]].key # NoKey /\ Folded[heap[chain[i]].key] = Folded[k]} IN
  IF found = {} THEN 0
  ELSE IF heap[chain[Min(found)]].key = NoKey THEN 0 ELSE Min(found)

\* Slip: what is taken out of a list still points into it.
LeavesPointers(h, item) == h

PointsNowhere(h, item) == [h EXCEPT ![item].prev = 0, ![item].next = 0]

\* cJSON_DetachItemViaPointer: assignment by assignment.
DetachItemViaPointer(h, l, item) ==
  LET x == h[item]
      first == h[l].child = item
      h1 == IF first THEN h ELSE [h EXCEPT ![x.prev].next = x.next]
      h2 == IF x.next = 0 THEN h1 ELSE [h1 EXCEPT ![x.next].prev = x.prev]
      h3 == IF first THEN [h2 EXCEPT ![l].child = x.next]
            ELSE IF x.next = 0 THEN [h2 EXCEPT ![h2[l].child].prev = x.prev] ELSE h2 IN
  PointsNowhere(h3, item)

cJSON_Delete(h, n) == LET gone == Freed(h, n) IN [m \in Node |-> IF m \in gone THEN Free ELSE h[m]]
Without(gone) == [n \in Node |-> IF n \in gone THEN <<>> ELSE kids[n]]

\* The item at a place of a list may go, or make room.
MayLeave(l, i) == l \in Lists /\ i \in DOMAIN Chain(heap, l) /\ (i = 1 => HeadIsFree(l))

\* cJSON_DetachItemFromArray and, with the place of a member, DetachItemFromObject.
Detach(l, i) ==
  /\ MayLeave(l, i)
  /\ LET item == Chain(heap, l)[i] IN
       /\ heap' = DetachItemViaPointer(heap, l, item)
       /\ loose' = loose \cup {item}
  /\ kids' = [kids EXCEPT ![l] = RemoveAt(@, i)]
  /\ UNCHANGED keyBlocks

\* cJSON_DeleteItemFromArray and DeleteItemFromObject.
DeleteItem(l, i) ==
  /\ MayLeave(l, i)
  /\ LET item == Chain(heap, l)[i] IN
       /\ MayDelete(item)
       /\ LET h == DetachItemViaPointer(heap, l, item) IN
            /\ heap' = cJSON_Delete(h, item)
            /\ kids' = [Without(Freed(h, item)) EXCEPT ![l] = RemoveAt(@, i)]
            /\ keyBlocks' = keyBlocks - KeysOf(Freed(h, item))
  /\ UNCHANGED loose

Delete(item) ==
  /\ MayDelete(item)
  /\ heap' = cJSON_Delete(heap, item)
  /\ loose' = loose \ {item}
  /\ kids' = Without(Freed(heap, item))
  /\ keyBlocks' = keyBlocks - KeysOf(Freed(heap, item))

InsertItemInArray(l, i, item) ==
  /\ MayHold(l, item) /\ heap[l].kind = "array" /\ MayLeave(l, i)
  /\ LET after == Chain(heap, l)[i]
         h == [heap EXCEPT ![item].next = after, ![item].prev = heap[after].prev,
                           ![after].prev = item] IN
       heap' = IF h[l].child = after THEN [h EXCEPT ![l].child = item]
               ELSE [h EXCEPT ![h[item].prev].next = item]
  /\ kids' = [kids EXCEPT ![l] = InsertAt(@, i, item)]
  /\ loose' = loose \ {item}
  /\ UNCHANGED keyBlocks

\* Slip: the first child keeps the item that is freed as the last one.
LastIsForgotten(h, l, item) == h

\* The last item of a list is another one now.
LastIs(h, l, item) == [h EXCEPT ![h[l].child].prev = item]

\* cJSON_ReplaceItemViaPointer, before it deletes the item.
Replaced(h, l, item, replacement) ==
  LET h1 == [h EXCEPT ![replacement].next = h[item].next, ![replacement].prev = h[item].prev]
      next == h1[replacement].next
      h2 == IF next = 0 THEN h1 ELSE [h1 EXCEPT ![next].prev = replacement]
      h3 == IF h2[l].child = item
            THEN [h2 EXCEPT ![replacement].prev = IF h2[item].prev = item THEN replacement ELSE @,
                            ![l].child = replacement]
            ELSE LET h4 == [h2 EXCEPT ![h2[replacement].prev].next = replacement] IN
                 IF next = 0 THEN LastIs(h4, l, replacement) ELSE h4 IN
  PointsNowhere(h3, item)

Replace(h, blocks, l, i, replacement) ==
  LET item == Chain(heap, l)[i]
      done == Replaced(h, l, item, replacement) IN
  /\ MayDelete(item)
  /\ heap' = cJSON_Delete(done, item)
  /\ kids' = [Without(Freed(done, item)) EXCEPT ![l] = ReplaceAt(@, i, replacement)]
  /\ loose' = loose \ {replacement}
  /\ keyBlocks' = blocks - KeysOf(Freed(done, item))

ReplaceItemInArray(l, i, item) ==
  /\ MayHold(l, item) /\ heap[l].kind = "array" /\ MayLeave(l, i)
  /\ Replace(heap, keyBlocks, l, i, item)

\* The replacement has the new name even when there is no such member.
ReplaceItemInObject(l, k, item, case_sensitive) ==
  LET i == Position(l, k, case_sensitive)
      h == [heap EXCEPT ![item] = Named(@, k, FALSE)]
      blocks == NameBlocks(heap[item], FALSE) IN
  /\ MayHold(l, item) /\ heap[l].kind = "object"
  /\ IF i = 0 THEN heap' = h /\ keyBlocks' = blocks /\ UNCHANGED <<loose, kids>>
     ELSE MayLeave(l, i) /\ Replace(h, blocks, l, i, item)

\* There is no memory for the name of the replacement: it has lost its old one.
ReplacementLosesName(item) ==
  /\ heap' = [heap EXCEPT ![item].key = NoKey]
  /\ keyBlocks' = keyBlocks - OldName(heap[item])
  /\ UNCHANGED <<loose, kids>>

-----------------------------------------------------------------------------
\* The items a copy is made of, by the places that lead to them: what a reference
\* leads to is copied too, and for each place anew.
RECURSIVE Places(_, _)
Places(n, left) ==
  {<<>>} \cup (IF left = 0 THEN {}
               ELSE UNION {{<<i>> \o p : p \in Places(Chain(heap, n)[i], left - 1)}
                           : i \in DOMAIN Chain(heap, n)})

RECURSIVE At(_, _)
At(n, p) == IF p = <<>> THEN n ELSE At(Chain(heap, n)[Head(p)], Tail(p))

InSomeOrder(S) == FoldSet(LAMBDA x, s : Append(s, x), <<>>, S)

CopyOf(item) == [item EXCEPT !.next = 0, !.prev = 0, !.child = 0, !.ref = 0]

\* cJSON_Duplicate: all items of the copy, or none of them.
Duplicate(n, recurse) ==
  LET places == InSomeOrder(IF recurse THEN Places(n, Cardinality(Node)) ELSE {<<>>})
      new(p) == Fresh[PlaceIn(places, p)]
      items  == [i \in DOMAIN places |-> new(places[i])]
      under(p) == LET c == {i \in Node : p \o <<i>> \in Range(places)} IN
                  [i \in 1..Cardinality(c) |-> new(p \o <<i>>)]
      made == [m \in Node |-> IF m \notin Range(items) THEN heap[m]
                 ELSE CopyOf(heap[At(n, places[PlaceIn(items, m)])])] IN
  /\ Len(places) <= Len(Fresh)
  /\ heap' = FoldLeft(LAMBDA h, p : Linked(h, new(p), under(p)), made, places)
  /\ kids' = [m \in Node |-> IF m \notin Range(items) THEN kids[m]
                             ELSE under(places[PlaceIn(items, m)])]
  /\ loose' = loose \cup {new(<<>>)}
  /\ keyBlocks' = keyBlocks
       + Cardinality({i \in DOMAIN places : OwnsKey(heap[At(n, places[i])])})

\* cJSON_Compare; all numbers are the same one.
RECURSIVE Compare(_, _, _)

\* Slip: the members are compared one by one, as the elements of an array are.
InOrder(a, b, case_sensitive) ==
  /\ Len(Chain(heap, a)) = Len(Chain(heap, b))
  /\ \A i \in DOMAIN Chain(heap, a) :
       LET x == Chain(heap, a)[i] IN
       Position(b, heap[x].key, case_sensitive) = i /\ Compare(x, Chain(heap, b)[i], case_sensitive)

\* Every member of a is one of b.
SubsetOf(a, b, case_sensitive) ==
  \A x \in Range(Chain(heap, a)) : LET i == Position(b, heap[x].key, case_sensitive) IN
    i # 0 /\ Compare(x, Chain(heap, b)[i], case_sensitive)

Compare(a, b, case_sensitive) ==
  /\ heap[a].kind = heap[b].kind
  /\ \/ a = b \/ heap[a].kind = "number"
     \/ /\ heap[a].kind = "array"
        /\ Len(Chain(heap, a)) = Len(Chain(heap, b))
        /\ \A i \in DOMAIN Chain(heap, a) :
             Compare(Chain(heap, a)[i], Chain(heap, b)[i], case_sensitive)
     \/ /\ heap[a].kind = "object"
        /\ SubsetOf(a, b, case_sensitive) /\ SubsetOf(b, a, case_sensitive)

Call ==
  \/ \E kind \in Kinds : Create(kind)
  \/ \E count \in 1..2 : CreateNumbers(count)
  \/ \E l \in held :
       \/ \E item \in loose : AddItemToArray(l, item)
       \/ \E item \in loose, k \in Keys, const \in BOOLEAN : AddItemToObject(l, k, item, const)
       \/ \E k \in Keys, kind \in Kinds : AddNewToObject(l, k, kind)
       \/ \E item \in held : AddItemReferenceToArray(l, item) \/ ReferenceWithoutName(l, item)
       \/ \E item \in held, k \in Keys : AddItemReferenceToObject(l, k, item)
       \/ \E i \in Node : Detach(l, i) \/ DeleteItem(l, i)
       \/ \E item \in loose, i \in Node : InsertItemInArray(l, i, item)
                                            \/ ReplaceItemInArray(l, i, item)
       \/ \E item \in loose, k \in Keys, cs \in BOOLEAN : ReplaceItemInObject(l, k, item, cs)
       \/ \E recurse \in BOOLEAN : Duplicate(l, recurse)
  \/ \E item \in loose : Delete(item) \/ ReplacementLosesName(item)

ListNext == calls < MaxCalls /\ calls' = calls + 1 /\ Call

ListSpec == InitList /\ [][ListNext]_listVars

-----------------------------------------------------------------------------
ListTypeOK ==
  /\ heap \in [Node -> [kind : {"free", "number", "array", "object"}, next : Node \cup {0},
                        prev : Node \cup {0}, child : Node \cup {0}, ref : Node \cup {0},
                        key : Keys \cup {NoKey}, const : BOOLEAN]]
  /\ loose \subseteq live /\ kids \in [Node -> Seq(Node)] /\ keyBlocks \in Nat

\* After any calls, in any order, the children of every list are the items that
\* these calls put there, in their order.
ListsHoldTheirItems == \A l \in held \cap Lists : Chain(heap, l) = kids[l]

\* The first child knows the last one, which the next addition hangs its item on;
\* every other item knows the one before it.
LastIsBehindTheFirst ==
  \A l \in held \cap Lists : LET c == Chain(heap, l) IN
    \A i \in DOMAIN c : heap[c[i]].prev = IF i = 1 THEN Last(c) ELSE c[i - 1]

\* An item in the caller's hands has no followers, so that its deletion frees
\* nobody else's item, and no two of them share one.
DeletionFreesItsOwn ==
  /\ \A n \in loose : heap[n].next = 0
  /\ \A m, n \in loose : m # n => Freed(heap, m) \cap Freed(heap, n) = {}
  /\ \A n \in held : heap[n].kind # "free"

\* A reference leads to the list it was made from, as this list is now.
ReferencesSeeTheList ==
  \A n \in held : heap[n].ref # 0 => Chain(heap, n) = Chain(heap, heap[n].ref)

\* No name is lost and none is freed twice; an item is lost only as a reference
\* that got no name.
NamesAreFreedOnce ==
  /\ keyBlocks = KeysOf(live)
  /\ \A n \in live \ held : heap[n].ref # 0 /\ heap[n].key = NoKey

\* What an item says: an object is a set of names with values.
RECURSIVE Value(_, _)
Value(n, case_sensitive) ==
  LET kind == heap[n].kind
      c == Chain(heap, n) IN
  [kind |-> kind,
   elements |-> IF kind = "array" THEN [i \in DOMAIN c |-> Value(c[i], case_sensitive)] ELSE <<>>,
   members |-> IF kind # "object" THEN {}
               ELSE {<<IF case_sensitive THEN heap[x].key ELSE Folded[heap[x].key],
                       Value(x, case_sensitive)>> : x \in Range(c)}]

\* No object in an item has a name twice.
NamesDiffer(n) ==
  \A m \in Reach(n) : heap[m].kind = "object" =>
    Cardinality({Folded[heap[x].key] : x \in Range(Chain(heap, m))}) = Len(Chain(heap, m))

\* Two items compare as equal if and only if they say the same, whatever the order
\* of the members; only an object that has a name twice need not be like its copy.
CompareIsEquality ==
  \A a, b \in loose, case_sensitive \in BOOLEAN :
    NamesDiffer(a) /\ NamesDiffer(b) =>
      (Compare(a, b, case_sensitive) <=> Value(a, case_sensitive) = Value(b, case_sensitive))

\* Lists stay lists, forwards, backwards and through references.
ListsAreLinked == ListsHoldTheirItems /\ LastIsBehindTheFirst /\ ReferencesSeeTheList

\* And items and names have one owner.
ListsAreSound == ListsAreLinked /\ DeletionFreesItsOwn /\ NamesAreFreedOnce
=============================================================================

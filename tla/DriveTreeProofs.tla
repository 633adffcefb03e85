--------------------------- MODULE DriveTreeProofs ---------------------------
(***************************************************************************)
(* Proofs about DriveTree, for every set of actors and seed ids, with and  *)
(* without snapshots, and whether or not clients keep the tree a tree.     *)
(***************************************************************************)
EXTENDS DriveTree, TLAPS

\* What a running cascade delete knows of its search.  It never reaches the
\* root, and whatever it has found and is not about to look at has all its
\* children among the found; so when the frontier is empty, the found items
\* are closed and removing them leaves no orphan.
SearchInv ==
  lock = "delete" =>
    /\ Root \notin del.found
    /\ Children(del.found \ del.frontier) \subseteq del.found

\* Nothing is found that is not below the target.
SearchExact ==
  lock = "delete" =>
    /\ del.target \in del.found
    /\ \A S \in SUBSET DOMAIN items :
         (del.target \in S /\ Closed(S)) => del.found \subseteq S

\* A drive and the snapshots of it satisfy the same conditions.
Sound(its, cnt) == Rooted(its) /\ cnt \subseteq DOMAIN its

IInv ==
  /\ TypeOK
  /\ Sound(items, content)
  /\ Sound(saved.items, saved.content)
  /\ SearchInv

-----------------------------------------------------------------------------
LEMMA ConstantFacts ==
  /\ System \in Actor /\ Root \in Id /\ NoParent \notin Id /\ Nat \subseteq Id
  /\ SeedId \subseteq Id
  /\ IdLimit \in Nat /\ IdLimit > 0
BY IdAssumption, ActorAssumption DEF Id

LEMMA NewItemType ==
  ASSUME NEW kind \in {"file", "folder"}, NEW p \in Id \cup {NoParent}, NEW a
  PROVE  NewItem(kind, p, a) \in Item
BY SMT DEF NewItem, Item, OwnedBy, Role, NoRole, Owner

LEMMA SuccessorType == ASSUME NEW n \in Nat PROVE Successor(n) \in Nat
BY ConstantFacts, SMT DEF Successor

LEMMA SuccessorExact ==
  ASSUME NEW n \in Nat, n + 1 < IdLimit PROVE Successor(n) = n + 1
BY ConstantFacts, SMT DEF Successor

\* Adding an item under a parent that is there, or under none.
LEMMA InsertSound ==
  ASSUME NEW its, NEW cnt, NEW its2, NEW i \in Id, NEW item \in Item,
         NEW next \in Nat,
         its \in [DOMAIN its -> Item], DOMAIN its \subseteq Id,
         i # Root, item.parent \in DOMAIN its \cup {NoParent},
         Rooted(its),
         its2 = [j \in DOMAIN its \cup {i} |-> IF j = i THEN item ELSE its[j]]
  PROVE  /\ its2 \in [DOMAIN its2 -> Item] /\ DOMAIN its2 \subseteq Id
         /\ DOMAIN its2 = DOMAIN its \cup {i}
         /\ Rooted(its2)
<1>1. DOMAIN its2 = DOMAIN its \cup {i}
  OBVIOUS
<1>2. \A j \in DOMAIN its2 : its2[j] = IF j = i THEN item ELSE its[j]
  OBVIOUS
<1>3. its2 \in [DOMAIN its2 -> Item] /\ DOMAIN its2 \subseteq Id
  BY <1>1, <1>2
<1>4. Rooted(its2)
  BY <1>1, <1>2 DEF Rooted
<1> QED
  BY <1>1, <1>3, <1>4

\* Nothing is a child of anything but items, and the root is nobody's child.
LEMMA RootIsNoChild ==
  ASSUME TypeOK, Rooted(items), NEW S \in SUBSET DOMAIN items
  PROVE  Root \notin Children(S) /\ Children(S) \subseteq DOMAIN items
BY ConstantFacts DEF TypeOK, DriveOK, Rooted, Children

LEMMA InitIInv == Init => IInv
<1> SUFFICES ASSUME Init PROVE IInv
  OBVIOUS
<1>1. NewItem("folder", NoParent, System) \in Item
  BY NewItemType
<1>2. /\ EmptyDrive.items = [i \in {Root} |-> NewItem("folder", NoParent, System)]
      /\ EmptyDrive.content = {} /\ EmptyDrive.nextId = 1
      /\ EmptyDrive = [items |-> EmptyDrive.items, content |-> EmptyDrive.content,
                       nextId |-> EmptyDrive.nextId]
  BY DEF EmptyDrive
<1>3. DriveOK(EmptyDrive.items, EmptyDrive.content, EmptyDrive.nextId)
  BY <1>1, <1>2, ConstantFacts DEF DriveOK
<1>4. Sound(EmptyDrive.items, EmptyDrive.content)
  BY <1>2 DEF Sound, Rooted, NewItem
<1>5. TypeOK
  BY <1>2, <1>3 DEF TypeOK, Init, NoDelete
<1> QED
  BY <1>4, <1>5 DEF IInv, Init, SearchInv

\* The actions that add an item leave a sound drive.
LEMMA InsertIInv ==
  ASSUME IInv, lock # "delete", NEW i \in Id, NEW a \in Actor,
         NEW kind \in {"file", "folder"},
         NEW p \in DOMAIN items \cup {NoParent},
         i # Root,
         Insert(i, NewItem(kind, p, a)),
         content' = content \/ content' = content \cup {i},
         nextId' \in Nat,
         lock' = lock, UNCHANGED <<saved, del>>
  PROVE  IInv'
<1> USE DEF IInv, Sound
<1>1. NewItem(kind, p, a) \in Item /\ NewItem(kind, p, a).parent = p
  BY NewItemType DEF TypeOK, DriveOK, NewItem
<1>2. /\ items' \in [DOMAIN items' -> Item] /\ DOMAIN items' \subseteq Id
      /\ DOMAIN items' = DOMAIN items \cup {i}
      /\ Rooted(items')
  <2> DEFINE item == NewItem(kind, p, a)
             its2 == [j \in DOMAIN items \cup {i} |-> IF j = i THEN item ELSE items[j]]
  <2>1. item \in Item /\ item.parent \in DOMAIN items \cup {NoParent}
    BY <1>1
  <2>2. items \in [DOMAIN items -> Item] /\ DOMAIN items \subseteq Id /\ Rooted(items)
    BY DEF TypeOK, DriveOK
  <2> HIDE DEF item
  <2>3. /\ its2 \in [DOMAIN its2 -> Item] /\ DOMAIN its2 \subseteq Id
        /\ DOMAIN its2 = DOMAIN items \cup {i}
        /\ Rooted(its2)
    BY <2>1, <2>2, InsertSound
  <2> QED
    BY <2>3 DEF Insert, item
<1>3. TypeOK'
  BY <1>2 DEF TypeOK, DriveOK, NoDelete
<1> QED
  BY <1>2, <1>3 DEF SearchInv

\* Giving items other roles or other existing parents leaves a sound drive.
LEMMA ChangeIInv ==
  ASSUME IInv, lock = "free", NEW its,
         its \in [DOMAIN items -> Item], Rooted(its), items' = its,
         UNCHANGED <<content, nextId, saved, lock, del>>
  PROVE  IInv'
<1>1. TypeOK'
  BY DEF IInv, TypeOK, DriveOK, NoDelete
<1> QED
  BY <1>1 DEF IInv, Sound, SearchInv

LEMMA NextIInv == IInv /\ [Next]_vars => IInv'
<1> SUFFICES ASSUME IInv, [Next]_vars PROVE IInv'
  OBVIOUS
<1>1. ASSUME NEW a \in Actor, NEW p \in DOMAIN items,
             NEW kind \in {"file", "folder"}, AddItem(a, p, kind),
             content' = content \/ content' = content \cup {nextId}
      PROVE  IInv'
  <2>1. nextId \in Id /\ nextId # Root /\ nextId' \in Nat
    BY <1>1, SuccessorType, ConstantFacts, IdAssumption
    DEF AddItem, IInv, TypeOK, DriveOK
  <2> QED
    BY <1>1, <2>1, InsertIInv DEF AddItem
<1>2. ASSUME NEW a \in Actor, NEW target \in Actor, NEW i \in DOMAIN items,
             NEW role \in GrantableRoles, SetPermission(a, i, target, role)
      PROVE  IInv'
  <2> DEFINE its == [items EXCEPT ![i].role[target] = role]
  <2>1. role \in Role
    BY InputAssumption DEF Role, NoRole, Owner
  <2>2. its \in [DOMAIN items -> Item]
    BY <2>1 DEF IInv, TypeOK, DriveOK, Item
  <2>3. Rooted(its)
    BY <2>2 DEF IInv, Sound, Rooted, TypeOK, DriveOK, Item
  <2> QED
    BY <1>2, <2>2, <2>3, ChangeIInv DEF SetPermission
<1>3. ASSUME NEW a, NEW i \in DOMAIN items, NEW p, lock = "free",
             MayMove(a, i, p), items' = [items EXCEPT ![i].parent = p],
             UNCHANGED <<content, nextId, saved, lock, del>>
      PROVE  IInv'
  <2> DEFINE its == [items EXCEPT ![i].parent = p]
  <2>1. p \in DOMAIN items /\ i # Root
    BY <1>3 DEF MayMove, UsableParent, HasRole
  <2>2. its \in [DOMAIN items -> Item]
    BY <2>1 DEF IInv, TypeOK, DriveOK, Item
  <2>3. Rooted(its)
    BY <2>1, <2>2 DEF IInv, Sound, Rooted, TypeOK, DriveOK, Item
  <2> QED
    BY <1>3, <2>2, <2>3, ChangeIInv
<1>4. ASSUME NEW a, NEW i \in DOMAIN items, NEW p, UpdateItem(a, i, p)
      PROVE  IInv'
  <2>1. CASE items' = items
    BY <1>4, <2>1, ChangeIInv DEF UpdateItem, IInv, Sound, TypeOK, DriveOK
  <2>2. CASE MayMove(a, i, p) /\ items' = [items EXCEPT ![i].parent = p]
    BY <1>3, <1>4, <2>2 DEF UpdateItem
  <2> QED
    BY <1>4, <2>1, <2>2 DEF UpdateItem
<1>5. ASSUME NEW a \in Actor, NEW i \in DOMAIN items, DeleteStart(a, i)
      PROVE  IInv'
  <2>1. TypeOK'
    BY <1>5 DEF DeleteStart, IInv, TypeOK
  <2>2. SearchInv'
    BY <1>5 DEF DeleteStart, SearchInv, Children
  <2> QED
    BY <1>5, <2>1, <2>2 DEF DeleteStart, IInv, Sound
<1>6. ASSUME DeleteVisit PROVE IInv'
  <2>1. del.frontier \subseteq DOMAIN items /\ TypeOK /\ Rooted(items)
    BY DEF IInv, TypeOK, Sound
  <2>2. Root \notin Children(del.frontier) /\ Children(del.frontier) \subseteq DOMAIN items
    BY <2>1, RootIsNoChild
  <2>3. /\ del'.frontier = Children(del.frontier)
        /\ del'.found = del.found \cup Children(del.frontier)
        /\ del'.target = del.target
        /\ UNCHANGED <<items, content, nextId, saved, lock>>
    BY <1>6, <2>1 DEF DeleteVisit, TypeOK
  <2>4. TypeOK'
    BY <1>6, <2>1, <2>2, <2>3 DEF TypeOK, DeleteVisit
  <2>5. Children(del'.found \ del'.frontier) \subseteq del'.found
    BY <1>6, <2>3 DEF IInv, SearchInv, DeleteVisit, Children
  <2>6. SearchInv'
    BY <1>6, <2>2, <2>3, <2>5 DEF IInv, SearchInv, DeleteVisit, Children
  <2> QED
    BY <2>3, <2>4, <2>6 DEF IInv, Sound
<1>7. ASSUME DeleteRemove PROVE IInv'
  <2>1. Children(del.found) \subseteq del.found /\ Root \notin del.found
    BY <1>7 DEF DeleteRemove, IInv, SearchInv
  <2>2. /\ items' = [i \in DOMAIN items \ del.found |-> items[i]]
        /\ DOMAIN items' = DOMAIN items \ del.found
        /\ \A i \in DOMAIN items' : items'[i] = items[i]
        /\ content' = content \ del.found
        /\ UNCHANGED <<nextId, saved>>
        /\ lock' = "free" /\ del' = NoDelete
    BY <1>7 DEF DeleteRemove
  <2>3. Rooted(items')
    BY <2>1, <2>2, ConstantFacts
    DEF IInv, Sound, Rooted, Children, TypeOK, DriveOK
  <2>4. TypeOK'
    BY <2>2 DEF IInv, TypeOK, DriveOK, NoDelete
  <2> QED
    BY <2>2, <2>3, <2>4 DEF IInv, Sound, SearchInv
<1>8. CASE SeedBegin
  <2>1. /\ UNCHANGED <<content, nextId, saved, del>>
        /\ lock = "free" /\ lock' = "seed"
    BY <1>8 DEF SeedBegin
  <2>2. items' \in [DOMAIN items -> Item] /\ Rooted(items')
    <3>1. CASE UNCHANGED items
      BY <3>1 DEF IInv, Sound, TypeOK, DriveOK
    <3>2. ASSUME NEW a \in Actor,
                 items' = [items EXCEPT ![Root].role[a] = Owner]
          PROVE  items' \in [DOMAIN items -> Item] /\ Rooted(items')
      <4> DEFINE its == [items EXCEPT ![Root].role[a] = Owner]
      <4>1. Root \in DOMAIN items /\ Owner \in Role
        BY DEF IInv, Sound, Rooted, Role, Owner, NoRole
      <4>2. its \in [DOMAIN items -> Item]
        BY <4>1 DEF IInv, TypeOK, DriveOK, Item
      <4>3. Rooted(its)
        BY <4>1, <4>2 DEF IInv, Sound, Rooted, TypeOK, DriveOK, Item
      <4> QED
        BY <3>2, <4>2, <4>3
    <3> QED
      BY <1>8, <3>1, <3>2 DEF SeedBegin
  <2>3. TypeOK'
    BY <2>1, <2>2 DEF IInv, TypeOK, DriveOK, NoDelete
  <2> QED
    BY <2>1, <2>2, <2>3 DEF IInv, Sound, SearchInv
<1>9. ASSUME NEW i \in SeedId, NEW p \in DOMAIN items \cup {NoParent},
             NEW a \in Actor, NEW kind \in {"file", "folder"},
             NEW withContent \in BOOLEAN, SeedItem(i, p, a, kind, withContent)
      PROVE  IInv'
  <2>1. nextId' \in Nat
    BY <1>9, SuccessorType DEF SeedItem, BumpNextId, IInv, TypeOK, DriveOK
  <2>2. i \in Id /\ i # Root /\ lock # "delete"
    BY <1>9, ConstantFacts DEF SeedItem
  <2> QED
    BY <1>9, <2>1, <2>2, InsertIInv DEF SeedItem
<1>10. CASE SeedEnd
  BY <1>10 DEF SeedEnd, IInv, Sound, SearchInv, TypeOK
<1>11. CASE Reset
  <2>1. /\ DriveOK(EmptyDrive.items, EmptyDrive.content, EmptyDrive.nextId)
        /\ Sound(EmptyDrive.items, EmptyDrive.content)
    BY NewItemType, ConstantFacts DEF EmptyDrive, DriveOK, Sound, Rooted, NewItem
  <2> QED
    BY <1>11, <2>1 DEF Reset, Load, IInv, SearchInv, TypeOK, NoDelete
<1>12. CASE Snapshot
  BY <1>12 DEF Snapshot, IInv, Sound, SearchInv, TypeOK
<1>13. CASE Restore
  BY <1>13 DEF Restore, Load, IInv, Sound, SearchInv, TypeOK, NoDelete
<1>14. CASE UNCHANGED vars
  BY <1>14 DEF vars, IInv, Sound, SearchInv, TypeOK, Children
<1> QED
  BY <1>1, <1>2, <1>3, <1>4, <1>5, <1>6, <1>7, <1>8, <1>9, <1>10, <1>11,
     <1>12, <1>13, <1>14
  DEF Next, Request, Seeding, CreateItem, UploadContent, MoveItem

\* The induction that the theorems below rest on: in every reachable state the
\* drive and the held snapshot are sound, and a running search is contained.
THEOREM Invariant == Spec => []IInv
BY InitIInv, NextIInv, PTL DEF Spec

\* Every request handler, loop iteration, reset and restore of the Drive twin
\* keeps the state in its shape, and an idle twin remembers no search.
THEOREM TypeCorrect == Spec => []TypeOK
<1>1. IInv => TypeOK
  BY DEF IInv
<1> QED
  BY <1>1, Invariant, PTL

\* has_orphans never finds one: no mix of creates, moves, cascade deletes,
\* seeds and restores leaves an item whose parent is gone, or removes the root.
THEOREM NeverOrphans == Spec => []NoOrphans
<1>1. IInv => NoOrphans
  BY DEF IInv, Sound, NoOrphans
<1> QED
  BY <1>1, Invariant, PTL

\* The content store never outlives an item: deleting, resetting and restoring
\* take the bytes away with the item.
THEOREM ContentIsOwned == Spec => []ContentOwned
<1>1. IInv => ContentOwned
  BY DEF IInv, Sound, ContentOwned
<1> QED
  BY <1>1, Invariant, PTL

-----------------------------------------------------------------------------
(* Cascade delete removes exactly what is below the target. *)

LEMMA SearchExactNext == IInv /\ SearchExact /\ [Next]_vars => SearchExact'
<1> SUFFICES ASSUME IInv, SearchExact, [Next]_vars, lock' = "delete"
             PROVE  SearchExact'
  BY DEF SearchExact
<1>1. \/ \E a \in Actor, i \in DOMAIN items : DeleteStart(a, i)
      \/ DeleteVisit
      \/ UNCHANGED vars
  BY DEF Next, Request, Seeding, CreateItem, UploadContent, AddItem,
         SetPermission, MoveItem, UpdateItem, DeleteRemove, SeedBegin,
         SeedItem, SeedEnd, Reset, Snapshot, Restore
<1>2. ASSUME NEW a \in Actor, NEW i \in DOMAIN items, DeleteStart(a, i)
      PROVE  SearchExact'
  BY <1>2 DEF DeleteStart, SearchExact
<1>3. CASE DeleteVisit
  <2>1. /\ lock = "delete"
        /\ del.target \in del.found /\ del.frontier \subseteq del.found
        /\ del'.target = del.target
        /\ del'.found = del.found \cup Children(del.frontier)
        /\ items' = items
    BY <1>3 DEF DeleteVisit, IInv, TypeOK, SearchExact
  <2>2. ASSUME NEW S \in SUBSET DOMAIN items, del.target \in S, Closed(S)
        PROVE  del'.found \subseteq S
    <3>1. del.found \subseteq S
      BY <2>1, <2>2 DEF SearchExact
    <3>2. Children(del.frontier) \subseteq S
      BY <2>1, <2>2, <3>1 DEF Closed, Children
    <3> QED
      BY <2>1, <3>1, <3>2
  <2> QED
    BY <2>1, <2>2 DEF SearchExact, Closed, Children
<1>4. CASE UNCHANGED vars
  BY <1>4 DEF vars, SearchExact, Closed, Children
<1> QED
  BY <1>1, <1>2, <1>3, <1>4

\* The search has found Below(target) when nothing is left to visit.
LEMMA FoundIsBelow ==
  ASSUME IInv, SearchExact, lock = "delete", del.frontier = {}
  PROVE  del.found = Below(del.target)
<1>1. /\ del.found \subseteq DOMAIN items
      /\ del.target \in del.found
      /\ Closed(del.found)
  BY DEF IInv, TypeOK, SearchInv, SearchExact, Closed
<1>2. Below(del.target) \subseteq del.found
  BY <1>1 DEF Below
<1>3. del.found \subseteq Below(del.target)
  BY <1>1 DEF Below, SearchExact
<1> QED
  BY <1>2, <1>3

\* DeleteItem removes the target and all of its descendants and nothing else,
\* whatever tree, or graph with cycles, the requests before it have built.
THEOREM DeleteIsExact == Spec => DeleteExact
<1>1. Init => SearchExact
  BY DEF Init, SearchExact
<1>2. IInv /\ SearchExact /\ [Next]_vars
        => [lock = "delete" /\ lock' = "free" =>
              DOMAIN items' = DOMAIN items \ Below(del.target)]_vars
  <2> SUFFICES ASSUME IInv, SearchExact, Next, lock = "delete", lock' = "free"
               PROVE  DOMAIN items' = DOMAIN items \ Below(del.target)
    OBVIOUS
  <2>1. DeleteRemove
    BY DEF Next, Request, Seeding, CreateItem, UploadContent, AddItem,
           SetPermission, MoveItem, UpdateItem, DeleteStart, DeleteVisit,
           SeedBegin, SeedItem, SeedEnd, Reset, Snapshot, Restore
  <2>2. DOMAIN items' = DOMAIN items \ del.found
    BY <2>1 DEF DeleteRemove
  <2> QED
    BY <2>1, <2>2, FoundIsBelow DEF DeleteRemove
<1> QED
  BY <1>1, <1>2, SearchExactNext, Invariant, PTL DEF Spec, DeleteExact

-----------------------------------------------------------------------------
(* Ids, when the counter cannot wrap. *)

\* No counter value that requests or seed data lead to is 2^64 or more.
IdsDoNotWrap ==
  MaxId + 1 < IdLimit /\ \A n \in SeedId \cap Nat : n + 1 < IdLimit

\* Snapshots carry the counter with the items it is past.
FreshInv == Fresh(items, nextId) /\ Fresh(saved.items, saved.nextId)

LEMMA FreshNext ==
  ASSUME IdsDoNotWrap, IInv, FreshInv, [Next]_vars PROVE FreshInv'
<1> USE DEF FreshInv, Fresh
<1>1. ASSUME NEW a, NEW p, NEW kind, AddItem(a, p, kind) PROVE FreshInv'
  <2>1. nextId \in Nat /\ nextId' = nextId + 1
    BY <1>1, SuccessorExact, IdAssumption
    DEF AddItem, IInv, TypeOK, DriveOK, IdsDoNotWrap
  <2>2. DOMAIN items' = DOMAIN items \cup {nextId} /\ saved' = saved
    BY <1>1 DEF AddItem, Insert
  <2> QED
    BY <2>1, <2>2
<1>2. ASSUME NEW i \in SeedId, NEW p, NEW a, NEW kind, NEW withContent,
             SeedItem(i, p, a, kind, withContent)
      PROVE  FreshInv'
  <2>1. DOMAIN items' = DOMAIN items \cup {i} /\ saved' = saved
    BY <1>2 DEF SeedItem, Insert
  <2>2. nextId \in Nat
    BY DEF IInv, TypeOK, DriveOK
  <2>3. CASE i \in Nat /\ i >= nextId
    <3>1. nextId' = i + 1
      BY <1>2, <2>3, SuccessorExact DEF SeedItem, BumpNextId, IdsDoNotWrap
    <3> QED
      BY <2>1, <2>2, <2>3, <3>1
  <2>4. CASE ~(i \in Nat /\ i >= nextId)
    <3>1. nextId' = nextId
      BY <1>2, <2>4 DEF SeedItem, BumpNextId
    <3> QED
      BY <2>1, <2>2, <2>4, <3>1
  <2> QED
    BY <2>3, <2>4
<1>3. CASE DeleteRemove
  <2>1. DOMAIN items' = DOMAIN items \ del.found /\ UNCHANGED <<nextId, saved>>
    BY <1>3 DEF DeleteRemove
  <2> QED
    BY <2>1
<1>4. CASE /\ DOMAIN items' = DOMAIN items
           /\ UNCHANGED <<nextId, saved>>
  BY <1>4
<1>5. CASE Reset
  <2>1. DOMAIN items' = {Root} /\ saved' = saved
    BY <1>5 DEF Reset, Load, EmptyDrive
  <2> QED
    BY <2>1, IdAssumption
<1>6. CASE Snapshot
  BY <1>6 DEF Snapshot
<1>7. CASE Restore
  BY <1>7 DEF Restore, Load
<1>8. ASSUME \/ \E a, target, i, role : SetPermission(a, i, target, role)
             \/ \E a, i, p : MoveItem(a, i, p) \/ UpdateItem(a, i, p)
             \/ \E a, i : DeleteStart(a, i)
             \/ DeleteVisit \/ SeedBegin \/ SeedEnd
             \/ UNCHANGED vars
      PROVE  DOMAIN items' = DOMAIN items /\ UNCHANGED <<nextId, saved>>
  BY <1>8 DEF SetPermission, MoveItem, UpdateItem, DeleteStart, DeleteVisit,
              SeedBegin, SeedEnd, vars
<1> QED
  BY <1>1, <1>2, <1>3, <1>4, <1>5, <1>6, <1>7, <1>8
  DEF Next, Request, Seeding, CreateItem, UploadContent

\* While no seed names an id near 2^64, new_item_id never hands out an id that
\* an item has, however seeds, deletes, resets and restores come in between.
THEOREM IdsStayFresh == IdsDoNotWrap => (Spec => []FreshIds)
<1> SUFFICES ASSUME IdsDoNotWrap PROVE Spec => []FreshIds
  OBVIOUS
<1>1. Init => FreshInv
  BY IdAssumption DEF Init, FreshInv, Fresh, EmptyDrive
<1>2. IInv /\ FreshInv /\ [Next]_vars => FreshInv'
  BY FreshNext
<1>3. FreshInv => FreshIds
  BY DEF FreshInv, FreshIds
<1> QED
  BY <1>1, <1>2, <1>3, Invariant, PTL DEF Spec

-----------------------------------------------------------------------------
(* No cycles, when clients make none. *)

TreeInv == Tree(items) /\ Tree(saved.items)

\* A new item is nobody's parent yet, and not its own.
LEMMA InsertKeepsTree ==
  ASSUME NEW its, NEW its2, NEW i, NEW item,
         i \notin DOMAIN its, i # NoParent,
         item.parent \in DOMAIN its \cup {NoParent},
         Rooted(its), Tree(its),
         its2 = [j \in DOMAIN its \cup {i} |-> IF j = i THEN item ELSE its[j]]
  PROVE  Tree(its2)
<1>1. /\ DOMAIN its2 = DOMAIN its \cup {i}
      /\ its2[i] = item
      /\ \A j \in DOMAIN its : its2[j] = its[j]
  OBVIOUS
<1>2. ASSUME NEW S \in SUBSET DOMAIN its2, S # {}
      PROVE  \E j \in S : its2[j].parent \notin S
  <2>1. CASE S = {i}
    BY <1>1, <2>1
  <2>2. CASE S \ {i} # {}
    <3>1. PICK j \in S \ {i} : its[j].parent \notin S \ {i}
      BY <1>1, <1>2, <2>2 DEF Tree
    <3>2. its[j].parent # i
      BY <1>1, <1>2, <3>1 DEF Rooted
    <3> QED
      BY <1>1, <1>2, <3>1, <3>2
  <2> QED
    BY <1>2, <2>1, <2>2
<1> QED
  BY <1>2 DEF Tree

\* Moving i under p keeps a tree when some set that is closed under children
\* has i in it and p outside.
LEMMA MoveKeepsTree ==
  ASSUME IInv, Tree(items), NEW i \in DOMAIN items, NEW p,
         p \in DOMAIN items, p \notin Below(i), NEW its,
         its = [items EXCEPT ![i].parent = p]
  PROVE  Tree(its)
<1>1. PICK T \in SUBSET DOMAIN items : i \in T /\ Closed(T) /\ p \notin T
  BY DEF Below
<1>2. /\ DOMAIN its = DOMAIN items
      /\ its[i].parent = p
      /\ \A j \in DOMAIN items \ {i} : its[j] = items[j]
  BY DEF IInv, TypeOK, DriveOK, Item
<1>3. ASSUME NEW S \in SUBSET DOMAIN items, S # {}
      PROVE  \E j \in S : its[j].parent \notin S
  <2>1. CASE S \ T # {}
    <3>1. PICK j \in S \ T : items[j].parent \notin S \ T
      BY <2>1 DEF Tree
    <3>2. items[j].parent \notin T
      BY <1>1, <3>1 DEF Closed, Children
    <3> QED
      BY <1>1, <1>2, <3>1, <3>2
  <2>2. CASE S \subseteq T /\ i \in S
    BY <1>1, <1>2, <2>2
  <2>3. CASE i \notin S
    <3>1. PICK j \in S : items[j].parent \notin S
      BY <1>3 DEF Tree
    <3> QED
      BY <1>2, <2>3, <3>1
  <2> QED
    BY <2>1, <2>2, <2>3
<1> QED
  BY <1>2, <1>3 DEF Tree

\* Only the parents of the items that are there matter.
LEMMA SameParentsTree ==
  ASSUME NEW its, NEW its2, Tree(its), DOMAIN its2 \subseteq DOMAIN its,
         \A j \in DOMAIN its2 : its2[j].parent = its[j].parent
  PROVE  Tree(its2)
BY DEF Tree

LEMMA TreeNext ==
  ASSUME MovesKeepTree, IdsDoNotWrap, IInv, FreshInv, TreeInv, [Next]_vars
  PROVE  TreeInv'
<1>1. items \in [DOMAIN items -> Item] /\ Rooted(items) /\ nextId \in Nat
  BY DEF IInv, TypeOK, DriveOK, Sound
<1>2. ASSUME NEW i, NEW a, NEW kind, NEW p \in DOMAIN items \cup {NoParent},
             i \notin DOMAIN items, i # NoParent,
             Insert(i, NewItem(kind, p, a)), saved' = saved
      PROVE  TreeInv'
  <2> DEFINE item == NewItem(kind, p, a)
             its2 == [j \in DOMAIN items \cup {i} |-> IF j = i THEN item ELSE items[j]]
  <2>1. item.parent \in DOMAIN items \cup {NoParent}
    BY DEF NewItem
  <2> HIDE DEF item
  <2>2. Tree(its2)
    BY <1>1, <1>2, <2>1, InsertKeepsTree DEF TreeInv
  <2> QED
    BY <1>2, <2>2 DEF TreeInv, Insert, item
<1>3. ASSUME NEW a \in Actor, NEW p \in DOMAIN items, NEW kind, AddItem(a, p, kind)
      PROVE  TreeInv'
  <2>1. nextId \notin DOMAIN items /\ nextId # NoParent
    BY <1>1, IdAssumption DEF FreshInv, Fresh
  <2> QED
    BY <1>2, <1>3, <2>1 DEF AddItem
<1>4. ASSUME NEW i \in SeedId, NEW p \in DOMAIN items \cup {NoParent}, NEW a,
             NEW kind, NEW withContent, SeedItem(i, p, a, kind, withContent)
      PROVE  TreeInv'
  BY <1>2, <1>4, IdAssumption DEF SeedItem
<1>5. ASSUME NEW a, NEW i \in DOMAIN items, NEW p, MayMove(a, i, p),
             items' = [items EXCEPT ![i].parent = p], saved' = saved
      PROVE  TreeInv'
  <2>1. p \in DOMAIN items /\ p \notin Below(i)
    BY <1>5 DEF MayMove, UsableParent, HasRole
  <2> QED
    BY <1>5, <2>1, MoveKeepsTree DEF TreeInv
<1>6. CASE /\ DOMAIN items' \subseteq DOMAIN items
           /\ \A j \in DOMAIN items' : items'[j].parent = items[j].parent
           /\ saved' = saved
  BY <1>6, SameParentsTree DEF TreeInv
<1>7. ASSUME NEW a, NEW i, NEW r, i \in DOMAIN items,
             items' = [items EXCEPT ![i].role[a] = r]
      PROVE  /\ DOMAIN items' \subseteq DOMAIN items
             /\ \A j \in DOMAIN items' : items'[j].parent = items[j].parent
  BY <1>1, <1>7 DEF Item
<1>8. CASE SeedBegin
  <2>1. Root \in DOMAIN items
    BY <1>1 DEF Rooted
  <2>2. CASE UNCHANGED items
    BY <1>6, <1>8, <2>2 DEF SeedBegin
  <2>3. CASE \E a \in Actor : items' = [items EXCEPT ![Root].role[a] = Owner]
    BY <1>6, <1>7, <1>8, <2>1, <2>3 DEF SeedBegin
  <2> QED
    BY <1>8, <2>2, <2>3 DEF SeedBegin
<1>9. ASSUME NEW a, NEW target, NEW i \in DOMAIN items, NEW role,
             SetPermission(a, i, target, role)
      PROVE  TreeInv'
  BY <1>6, <1>7, <1>9 DEF SetPermission
<1>10. CASE DeleteRemove
  BY <1>6, <1>10 DEF DeleteRemove
<1>11. CASE Reset
  BY <1>11, IdAssumption DEF Reset, Load, EmptyDrive, NewItem, TreeInv, Tree
<1>12. CASE Snapshot
  BY <1>12 DEF Snapshot, TreeInv
<1>13. CASE Restore
  BY <1>13 DEF Restore, Load, TreeInv
<1>14. CASE UNCHANGED <<items, saved>>
  BY <1>14 DEF TreeInv
<1> QED
  BY <1>3, <1>4, <1>5, <1>8, <1>9, <1>10, <1>11, <1>12, <1>13, <1>14
  DEF Next, Request, Seeding, CreateItem, UploadContent, MoveItem, UpdateItem,
      DeleteStart, DeleteVisit, SeedEnd, vars

\* While clients do not move a folder below itself, nothing else, neither seed
\* data nor deletes nor restores, closes a cycle of parent links.
THEOREM StaysAcyclic == MovesKeepTree /\ IdsDoNotWrap => (Spec => []Acyclic)
<1> SUFFICES ASSUME MovesKeepTree, IdsDoNotWrap PROVE Spec => []Acyclic
  OBVIOUS
<1>1. Init => FreshInv /\ TreeInv
  BY IdAssumption
  DEF Init, FreshInv, Fresh, TreeInv, Tree, EmptyDrive, NewItem
<1>2. IInv /\ FreshInv /\ TreeInv /\ [Next]_vars => FreshInv' /\ TreeInv'
  BY FreshNext, TreeNext
<1>3. TreeInv => Acyclic
  BY DEF TreeInv, Acyclic
<1> QED
  BY <1>1, <1>2, <1>3, Invariant, PTL DEF Spec
=============================================================================

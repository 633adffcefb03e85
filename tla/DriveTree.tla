------------------------------ MODULE DriveTree ------------------------------
(***************************************************************************)
(* The Drive twin's domain state and the requests that change it           *)
(* (twins/crates/twin-drive): the item tree, its permissions, the content  *)
(* store and the id counter.                                               *)
(*                                                                         *)
(* Every request runs under the runtime mutex, so a request is one step,   *)
(* except the two that loop over data: cascade delete and seeding.  Their  *)
(* iterations are steps, and lock says which loop holds the mutex.         *)
(* Requests the code refuses change nothing and are left out, as are       *)
(* names, MIME types, revisions and the bytes of a file's content.         *)
(***************************************************************************)
EXTENDS Naturals, FiniteSets

CONSTANTS
  Actor,             \* actors that send requests or own items
  System,            \* the owner of the root of a fresh twin
  Root,              \* the id "root"
  SeedId,            \* ids that seed data uses: a number n stands for item_n
  NoParent,          \* the None of parent_id
  IdLimit,           \* 2^64: next_id is a u64 and the release build wraps
  MaxId,             \* bound: no item is created once next_id exceeds it
  GrantableRoles,    \* roles that clients set on items
  MaxSaved,          \* bound: items of a drive that a snapshot is taken of
  MovesKeepTree      \* do clients never move a folder below itself?

ASSUME ActorAssumption == System \in Actor

ASSUME IdAssumption ==
  /\ Root \notin Nat /\ NoParent \notin Nat
  /\ NoParent \notin SeedId /\ NoParent # Root
  /\ IdLimit \in Nat \ {0} /\ MaxId \in Nat

ASSUME InputAssumption ==
  GrantableRoles \subseteq 1..3 /\ MaxSaved \in Nat /\ MovesKeepTree \in BOOLEAN

VARIABLES
  items,     \* item id -> kind, parent and role of every actor
  content,   \* ids in the content store
  nextId,    \* the number of the next item_<n>
  saved,     \* a snapshot some client holds
  lock,      \* "free", or the loop that is running: "delete" or "seed"
  del        \* the running delete: target, BFS frontier, to_delete

vars == <<items, content, nextId, saved, lock, del>>

-----------------------------------------------------------------------------
(* Items and roles. *)

Id == Nat \cup SeedId \cup {Root}

\* has_role compares ranks; an actor without a permission entry has rank 0.
NoRole == 0
Viewer == 1
Editor == 2
Owner  == 3
Role   == NoRole..Owner

Item == [kind : {"file", "folder"}, parent : Id \cup {NoParent},
         role : [Actor -> Role]]

OwnedBy(a) == [b \in Actor |-> IF b = a THEN Owner ELSE NoRole]

NewItem(kind, parent, a) ==
  [kind |-> kind, parent |-> parent, role |-> OwnedBy(a)]

HasRole(i, a, min) == i \in DOMAIN items /\ items[i].role[a] >= min

\* The checks that every request with a parent makes of it.
UsableParent(p, a) == HasRole(p, a, Editor) /\ items[p].kind = "folder"

Children(S) == {i \in DOMAIN items : items[i].parent \in S}

\* An insertion into the map replaces what was there.
Insert(i, item) ==
  items' = [j \in DOMAIN items \cup {i} |-> IF j = i THEN item ELSE items[j]]

Successor(n) == (n + 1) % IdLimit

Closed(S) == Children(S) \subseteq S

\* i and everything below it: the least set with i that is closed.
Below(i) == {j \in DOMAIN items : \A S \in SUBSET DOMAIN items :
                                     (i \in S /\ Closed(S)) => j \in S}

NoDelete == [target |-> NoParent, frontier |-> {}, found |-> {}, odd |-> FALSE]

EmptyDrive == [items   |-> [i \in {Root} |-> NewItem("folder", NoParent, System)],
               content |-> {},
               nextId  |-> 1]

Load(drive) ==
  /\ items' = drive.items
  /\ content' = drive.content
  /\ nextId' = drive.nextId

Init ==
  /\ items = EmptyDrive.items
  /\ content = EmptyDrive.content
  /\ nextId = EmptyDrive.nextId
  /\ saved = EmptyDrive
  /\ lock = "free"
  /\ del = NoDelete

-----------------------------------------------------------------------------
(* Requests of one step. *)

\* What creating an item comes to, for whoever may edit folder p.
AddItem(a, p, kind) ==
  /\ lock = "free" /\ nextId <= MaxId
  /\ UsableParent(p, a)
  /\ Insert(nextId, NewItem(kind, p, a))
  /\ nextId' = Successor(nextId)
  /\ UNCHANGED <<saved, lock, del>>

\* CreateFolder and CreateFile
CreateItem(a, p, kind) == AddItem(a, p, kind) /\ UNCHANGED content

UploadContent(a, p) ==
  AddItem(a, p, "file") /\ content' = content \cup {nextId}

SetPermission(a, i, target, role) ==
  /\ lock = "free"
  /\ HasRole(i, a, Owner)
  /\ items' = [items EXCEPT ![i].role[target] = role]
  /\ UNCHANGED <<content, nextId, saved, lock, del>>

\* The checks of a move, made before anything changes.  The code does not ask
\* whether p lies below i; MovesKeepTree says whether clients do.
MayMove(a, i, p) ==
  /\ UsableParent(p, a)
  /\ i # Root /\ HasRole(i, a, Editor)
  /\ MovesKeepTree => p \notin Below(i)

MoveItem(a, i, p) ==
  /\ lock = "free"
  /\ MayMove(a, i, p)
  /\ items' = [items EXCEPT ![i].parent = p]
  /\ UNCHANGED <<content, nextId, saved, lock, del>>

\* UpdateItem renames, moves, or both; p is NoParent when it only renames.
UpdateItem(a, i, p) ==
  /\ lock = "free"
  /\ \/ p = NoParent /\ HasRole(i, a, Editor) /\ UNCHANGED items
     \/ MayMove(a, i, p) /\ items' = [items EXCEPT ![i].parent = p]
  /\ UNCHANGED <<content, nextId, saved, lock, del>>

Reset ==
  /\ lock = "free"
  /\ Load(EmptyDrive)
  /\ UNCHANGED <<saved, lock, del>>

Snapshot ==
  /\ lock = "free" /\ Cardinality(DOMAIN items) <= MaxSaved
  /\ saved' = [items |-> items, content |-> content, nextId |-> nextId]
  /\ UNCHANGED <<items, content, nextId, lock, del>>

\* Mutant: the counter is not part of the snapshot.
RestoreKeepsCounter ==
  /\ lock = "free"
  /\ items' = saved.items
  /\ content' = saved.content
  /\ nextId' = EmptyDrive.nextId
  /\ UNCHANGED <<saved, lock, del>>

\* The derived restore parses every field before it assigns the first.
Restore ==
  /\ lock = "free"
  /\ Load(saved)
  /\ UNCHANGED <<saved, lock, del>>

-----------------------------------------------------------------------------
(* DeleteItem: breadth-first search of what to delete, then removal. *)

DeleteStart(a, i) ==
  /\ lock = "free"
  /\ i # Root /\ HasRole(i, a, Editor)
  /\ lock' = "delete"
  /\ del' = [target |-> i, frontier |-> {i}, found |-> {i}, odd |-> FALSE]
  /\ UNCHANGED <<items, content, nextId, saved>>

\* Mutant: only the target's own children are collected.
DeleteVisitChildrenOnly ==
  /\ lock = "delete" /\ del.frontier # {}
  /\ del' = [del EXCEPT !.frontier = {},
                        !.found = @ \cup Children(del.frontier),
                        !.odd = ~@]
  /\ UNCHANGED <<items, content, nextId, saved, lock>>

\* Mutant: every item found so far is searched again.
DeleteVisitRescans ==
  /\ lock = "delete" /\ del.frontier # {}
  /\ del' = [del EXCEPT !.frontier = del.found \cup Children(@),
                        !.found = @ \cup Children(del.frontier),
                        !.odd = ~@]
  /\ UNCHANGED <<items, content, nextId, saved, lock>>

\* One level of the search.  Nothing remembers which items were visited, so
\* a level can come back; odd tells it from the one before.
DeleteVisit ==
  /\ lock = "delete" /\ del.frontier # {}
  /\ del' = [del EXCEPT !.frontier = Children(@),
                        !.found = @ \cup Children(del.frontier),
                        !.odd = ~@]
  /\ UNCHANGED <<items, content, nextId, saved, lock>>

\* Mutant: content is removed for the target only.
DeleteRemoveTargetContent ==
  /\ lock = "delete" /\ del.frontier = {}
  /\ items' = [i \in DOMAIN items \ del.found |-> items[i]]
  /\ content' = content \ {del.target}
  /\ lock' = "free"
  /\ del' = NoDelete
  /\ UNCHANGED <<nextId, saved>>

\* Mutant: the search is not forgotten when its items are gone.
DeleteRemoveKeepsSearch ==
  /\ lock = "delete" /\ del.frontier = {}
  /\ items' = [i \in DOMAIN items \ del.found |-> items[i]]
  /\ content' = content \ del.found
  /\ lock' = "free"
  /\ UNCHANGED <<nextId, saved, del>>

DeleteRemove ==
  /\ lock = "delete" /\ del.frontier = {}
  /\ items' = [i \in DOMAIN items \ del.found |-> items[i]]
  /\ content' = content \ del.found
  /\ lock' = "free"
  /\ del' = NoDelete
  /\ UNCHANGED <<nextId, saved>>

-----------------------------------------------------------------------------
(* seed_from_scenario: seed the root, then every item whose parent is       *)
(* there, until none is left or none can be added.                         *)

SeedBegin ==
  /\ lock = "free"
  /\ lock' = "seed"
  /\ \/ UNCHANGED items
     \/ \E a \in Actor : items' = [items EXCEPT ![Root].role[a] = Owner]
  /\ UNCHANGED <<content, nextId, saved, del>>

\* bump_next_id: the counter moves past the number of a seeded item_<n>.
BumpNextId(i) ==
  nextId' = IF i \in Nat /\ i >= nextId THEN Successor(i) ELSE nextId

\* Mutant: the parent may be any id that the seed data uses.
SeedItemBeforeParent(i, p, a, kind, withContent) ==
  /\ lock = "seed"
  /\ i # Root /\ i \notin DOMAIN items
  /\ BumpNextId(i)
  /\ \E q \in {p} \cup SeedId : Insert(i, NewItem(kind, q, a))
  /\ content' = IF withContent THEN content \cup {i} ELSE content
  /\ UNCHANGED <<saved, lock, del>>

\* seed_item; content that does not decode is not stored and ends the loop.
SeedItem(i, p, a, kind, withContent) ==
  /\ lock = "seed"
  /\ i # Root /\ i \notin DOMAIN items
  /\ p # NoParent => p \in DOMAIN items /\ items[p].kind = "folder"
  /\ BumpNextId(i)
  /\ Insert(i, NewItem(kind, p, a))
  /\ content' = IF withContent THEN content \cup {i} ELSE content
  /\ UNCHANGED <<saved, lock, del>>

SeedEnd ==
  /\ lock = "seed"
  /\ lock' = "free"
  /\ UNCHANGED <<items, content, nextId, saved, del>>

-----------------------------------------------------------------------------
(* The specification. *)

Request ==
  \/ \E a \in Actor, p \in DOMAIN items, kind \in {"file", "folder"} :
       CreateItem(a, p, kind)
  \/ \E a \in Actor, p \in DOMAIN items : UploadContent(a, p)
  \/ \E a, target \in Actor, i \in DOMAIN items, role \in GrantableRoles :
       SetPermission(a, i, target, role)
  \/ \E a \in Actor, i, p \in DOMAIN items : MoveItem(a, i, p)
  \/ \E a \in Actor, i \in DOMAIN items, p \in DOMAIN items \cup {NoParent} :
       UpdateItem(a, i, p)
  \/ \E a \in Actor, i \in DOMAIN items : DeleteStart(a, i)

Seeding ==
  \/ SeedBegin
  \/ \E i \in SeedId, p \in DOMAIN items \cup {NoParent}, a \in Actor,
        kind \in {"file", "folder"}, withContent \in BOOLEAN :
       SeedItem(i, p, a, kind, withContent)
  \/ SeedEnd

Next ==
  \/ Request \/ Seeding
  \/ DeleteVisit \/ DeleteRemove
  \/ Reset \/ Snapshot \/ Restore

Spec == Init /\ [][Next]_vars

\* A delete that has started keeps the CPU: its loop has no await in it.
FairSpec == Spec /\ WF_vars(DeleteVisit) /\ WF_vars(DeleteRemove)

-----------------------------------------------------------------------------
(* Properties. *)

DriveOK(its, cnt, next) ==
  /\ its \in [DOMAIN its -> Item]
  /\ DOMAIN its \subseteq Id
  /\ cnt \subseteq Id
  /\ next \in Nat

\* The shape of the state; a running delete has found items of the tree only,
\* and without a running delete there is none.
TypeOK ==
  /\ DriveOK(items, content, nextId)
  /\ saved = [items |-> saved.items, content |-> saved.content,
              nextId |-> saved.nextId]
  /\ DriveOK(saved.items, saved.content, saved.nextId)
  /\ lock \in {"free", "delete", "seed"}
  /\ del = [target |-> del.target, frontier |-> del.frontier,
            found |-> del.found, odd |-> del.odd]
  /\ del.frontier \subseteq del.found /\ del.found \subseteq DOMAIN items
  /\ lock # "delete" => del = NoDelete

\* has_orphans, with the root present: after any sequence of creates, moves,
\* cascade deletes, seeds and restores every parent link leads to an item.
Rooted(its) ==
  /\ Root \in DOMAIN its /\ its[Root].parent = NoParent
  /\ \A i \in DOMAIN its : its[i].parent \in DOMAIN its \cup {NoParent}

NoOrphans == Rooted(items)

\* A cascade delete removes the content of every descendant, so the content
\* store never keeps bytes of an item that is gone.
ContentOwned == content \subseteq DOMAIN items

\* The counter is past the number of every item, generated or seeded, so a
\* created item never replaces one that exists.
Fresh(its, next) == \A n \in DOMAIN its \cap Nat : n < next

FreshIds == Fresh(items, nextId)

\* Cascade delete removes the target and everything below it, and nothing
\* else, whatever order seeds, moves and deletes built the tree in.
DeleteExact ==
  [][lock = "delete" /\ lock' = "free" =>
       DOMAIN items' = DOMAIN items \ Below(del.target)]_vars

\* No cycle of parent links: every set of items has a member whose parent is
\* not in the set.
Tree(its) ==
  \A S \in SUBSET DOMAIN its :
    S # {} => \E i \in S : its[i].parent \notin S

Acyclic == Tree(items)

\* A cascade delete ends and gives the runtime mutex back.
DeleteTerminates == lock = "delete" ~> lock = "free"
=============================================================================

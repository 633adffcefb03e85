------------------------------- MODULE DriveSeed -------------------------------
(***************************************************************************)
(* The initial state of a Drive scenario: what validate_scenario makes of   *)
(* it and how seed_from_scenario stores it (twins/crates/twin-drive).  The  *)
(* files come in any order; a file whose parent is not there yet is tried   *)
(* again in the next round, until a round stores nothing.  Names, owners    *)
(* and contents are left out.                                              *)
(***************************************************************************)
EXTENDS Integers, Sequences, FiniteSets

CONSTANT MaxFiles   \* bound: files of an initial state

ASSUME SeedAssumption == MaxFiles \in Nat

-----------------------------------------------------------------------------
(* Files. *)

FileId == {"root", "a", "b", "c"}
SeedFile == [id : FileId, parent : FileId \cup {"none"}, kind : {"file", "folder"}]

\* Initial states; of one file alone there is little to say.
InitialStates == UNION {[1..n -> SeedFile] : n \in 2..MaxFiles}

IdsIn(files) == {files[k].id : k \in 1..Len(files)}

-----------------------------------------------------------------------------
(* validate_scenario: unique ids, the root among them and without a parent, *)
(* and every parent among them, of whatever kind and wherever it is.        *)

Valid(files) ==
  /\ Cardinality(IdsIn(files)) = Len(files)
  /\ "root" \in IdsIn(files)
  /\ \A k \in 1..Len(files) : files[k].parent # "none" =>
       files[k].id # "root" /\ files[k].parent \in IdsIn(files)

-----------------------------------------------------------------------------
(* seed_from_scenario.  The twin was reset: it has its root, a folder, and  *)
(* seed_root changes neither its kind nor its place.                       *)

Start(files) ==
  [items |-> [i \in {"root"} |-> [parent |-> "none", kind |-> "folder"]],
   pending |-> {k \in 1..Len(files) : files[k].id # "root"}]

\* seed_item: a new id, and a parent that is a folder already.
Accepts(items, f) ==
  /\ f.id \notin DOMAIN items
  /\ f.parent = "none" \/ (f.parent \in DOMAIN items /\ items[f.parent].kind = "folder")

WithFile(items, f) ==
  [i \in DOMAIN items \cup {f.id} |->
     IF i = f.id THEN [parent |-> f.parent, kind |-> f.kind] ELSE items[i]]

\* A file that is stored is pending no more.
Tried(s, files, k) ==
  IF k \in s.pending /\ Accepts(s.items, files[k])
  THEN [items |-> WithFile(s.items, files[k]), pending |-> s.pending \ {k}]
  ELSE s

\* One pass over the pending files, in their order.
Round(s, files) ==
  LET pass[k \in 0..Len(files)] == IF k = 0 THEN s ELSE Tried(pass[k - 1], files, k)
  IN pass[Len(files)]

\* Mutant: what a first pass does not store is given up.
SeedOnce(files) == Round(Start(files), files)

\* A round that stores nothing is the last but one; so is any round after it.
Seed(files) ==
  LET after[n \in 0..Len(files)] ==
        IF n = 0 THEN Start(files) ELSE Round(after[n - 1], files)
  IN after[Len(files)]

Seeded(files) == Seed(files).pending = {}

-----------------------------------------------------------------------------
(* What a seed should do, whatever the order of the files. *)

Others(files) == {f \in {files[k] : k \in 1..Len(files)} : f.id # "root"}

ParentsAreFolders(files) ==
  \A f \in Others(files) : f.parent \in {"none", "root"} \/
    \E g \in Others(files) : g.id = f.parent /\ g.kind = "folder"

\* No set of files has all its parents within itself.
NoCycle(files) ==
  \A S \in (SUBSET Others(files)) \ {{}} : \E f \in S : \A g \in S : f.parent # g.id

\* Files in any order are stored, each with its parent, exactly if they are a
\* forest of folders below the root; and of what validate_scenario accepts,
\* that fails for two reasons only, a cycle and a file for a parent.
SeedsForest(files) ==
  LET distinct == Cardinality({k \in 1..Len(files) : files[k].id # "root"})
                    = Cardinality(IdsIn(files) \ {"root"})
      forest == ParentsAreFolders(files) /\ NoCycle(files)
  IN /\ Seeded(files) <=> distinct /\ forest
     /\ Seeded(files) => \A f \in Others(files) :
          Seed(files).items[f.id] = [parent |-> f.parent, kind |-> f.kind]
     /\ Valid(files) => distinct

SeedsForests == \A files \in InitialStates : SeedsForest(files)
=============================================================================

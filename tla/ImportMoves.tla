----------------------------- MODULE ImportMoves -----------------------------
(***************************************************************************)
(* What an import does to the files of a repository.  The plan gives every *)
(* file a place in the layout of the blueprint, and the gates and the      *)
(* scorecard look at the tree that results when all files move at once;    *)
(* the branch that is pushed comes from `git mv -f`, file by file.         *)
(*                                                                         *)
(* repo_import.py, import_rules.py.  A tree has a content at each path.    *)
(***************************************************************************)
EXTENDS Naturals

CONSTANTS
  FileCount,   \* the files of a repository have the first numbers, in the order of the inventory
  PathCount,   \* ...the other paths of layouts and quarantine the next ones
  Contents,
  QuarantineOf,   \* quarantine_path of a source
  Groups,      \* primary content of the family: the repository's own wins
  NoFile, Scaffolded, Unmapped, Refused

Sources == 1..FileCount
Paths   == 1..PathCount

ASSUME MovesAssumption ==
  /\ FileCount \in Nat /\ PathCount \in Nat /\ FileCount <= PathCount
  /\ QuarantineOf \in [Sources -> Paths]
  /\ \A group \in Groups : group \subseteq Paths
  /\ NoFile \notin Contents

-----------------------------------------------------------------------------
(* The plan *)

(* _classify_sources: where a file goes that no rule or override places.   *)
Placed(outcome, quarantine) ==
  [p \in DOMAIN outcome |-> IF outcome[p] # Unmapped THEN outcome[p]
                            ELSE IF quarantine THEN QuarantineOf[p] ELSE p]

(* plan.ok: no two files have one place. *)
PlanOk(place) == \A p, q \in DOMAIN place : place[p] = place[q] => p = q

Occupied(place) == {place[p] : p \in DOMAIN place}

(* _scaffold_gaps *)
Scaffold(place, reference) ==
  (reference \ Occupied(place)) \ UNION {group \in Groups : group \cap Occupied(place) # {}}

(* materialize_reorganized_tree: what gates and scorecard are given. *)
After(tree, place, reference) ==
  [q \in Paths |->
     IF q \in Occupied(place) THEN tree[CHOOSE p \in DOMAIN place : place[p] = q]
     ELSE IF q \in Scaffold(place, reference) THEN Scaffolded ELSE NoFile]

-----------------------------------------------------------------------------
(* apply_import *)

Renames(place) == {p \in DOMAIN place : place[p] # p}

(* git mv -f, for a source that is still there. *)
MoveFile(tree, place, p) ==
  IF tree[p] = NoFile THEN tree ELSE [tree EXCEPT ![place[p]] = tree[p], ![p] = NoFile]

(* The tree after each file of the inventory has had its turn. *)
Turns(tree, place) ==
  LET after[i \in 0..FileCount] ==
        IF i = 0 THEN tree
        ELSE IF i \in Renames(place) THEN MoveFile(after[i-1], place, i) ELSE after[i-1]
  IN  after

Moved(tree, place) == Turns(tree, place)[FileCount]

(* Mutant: digests are not compared.                                       *)
Unverified(tree, moved, place) == TRUE

(* Every file that is where a rename has led has the digest of its source. *)
Verified(tree, moved, place) ==
  \A p \in Renames(place) : moved[place[p]] \in {NoFile, tree[p]}

(* The scaffold leaves files that are there alone. *)
Applied(tree, place, reference) ==
  LET moved == Moved(tree, place) IN
  IF ~Verified(tree, moved, place) THEN Refused
  ELSE [q \in Paths |-> IF moved[q] = NoFile /\ q \in Scaffold(place, reference)
                        THEN Scaffolded ELSE moved[q]]

-----------------------------------------------------------------------------
Repositories(files) ==
  {[p \in Paths |-> IF p \in files THEN c[p] ELSE NoFile] : c \in [files -> Contents]}

(* A file is moved onto one whose turn to move comes later. *)
Overruns(place) == \E p, q \in Renames(place) : p < q /\ place[p] = q

Twins(tree) == \E p, q \in Sources : p # q /\ tree[p] # NoFile /\ tree[p] = tree[q]

(* What is pushed is what was gated: `git mv` in sequence gives the tree of *)
(* the plan, unless a file is moved onto one that is still to move.  Then   *)
(* the digests give it away, as long as no two files are alike.             *)
AppliedIsPlanned ==
  \A files \in SUBSET Sources : \A tree \in Repositories(files) :
    \A outcome \in [files -> (Paths \ {QuarantineOf[p] : p \in Sources}) \cup {Unmapped}] :
      \A quarantine \in BOOLEAN : \A reference \in SUBSET Sources :
        LET place == Placed(outcome, quarantine)
            result == Applied(tree, place, reference) IN
        PlanOk(place) =>
          \/ result = After(tree, place, reference)
          \/ Overruns(place) /\ (result = Refused \/ Twins(tree))
=============================================================================

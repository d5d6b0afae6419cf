------------------------------- MODULE Prune -------------------------------
(***************************************************************************)
(* Dead code elimination: prune_dead_code of src/compiler/analysis/mod.rs. *)
(* A module is a sequence of top-level items; metadata around an item is   *)
(* already unwrapped, and calls is what get_calls returns for it.  The     *)
(* worklist is kept as in the code: a stack of definitions on which one    *)
(* may lie several times, a set of names reached and a set of names        *)
(* visited, with one step per iteration of each loop.                      *)
(***************************************************************************)
EXTENDS Naturals, Sequences

Item == [kind : {"define", "shape", "import", "other"}, name : STRING,
         exported : BOOLEAN, calls : SUBSET STRING]

VARIABLES items,      \* the module
          phase,      \* which loop is running
          scan,       \* its position in the module
          reachable,  \* names found to be in use
          visited,    \* names of the definitions taken from the stack
          toVisit     \* the stack, of positions in the module

pruneVars == <<items, phase, scan, reachable, visited, toVisit>>

Positions    == 1 .. Len(items)
IsDefine(i)  == items[i].kind = "define"
IsRoot(i)    == \/ IsDefine(i) /\ (items[i].name = "main" \/ items[i].exported)
                \/ items[i].kind = "shape" /\ items[i].exported
RootNames    == {items[i].name : i \in {j \in Positions : IsRoot(j)}}

PruneTypeOK ==
  /\ items \in Seq(Item)
  /\ phase \in {"roots", "visit", "rescan", "kept"}
  /\ scan \in 1 .. Len(items) + 1
  /\ reachable \subseteq STRING /\ visited \subseteq STRING
  /\ toVisit \in Seq(Positions)

Begin ==
  /\ phase = "roots" /\ scan = 1
  /\ reachable = {} /\ visited = {} /\ toVisit = <<>>

PruneInit == items \in Seq(Item) /\ Begin

-----------------------------------------------------------------------------
(* The first loop collects the roots; a shape is not put on the stack.     *)
CollectRoot ==
  /\ phase = "roots" /\ scan \in Positions
  /\ reachable' = IF IsRoot(scan) THEN reachable \cup {items[scan].name} ELSE reachable
  /\ toVisit' = IF IsRoot(scan) /\ IsDefine(scan) THEN Append(toVisit, scan) ELSE toVisit
  /\ scan' = scan + 1
  /\ UNCHANGED <<items, phase, visited>>

RootsCollected ==
  /\ phase = "roots" /\ scan \notin Positions
  /\ phase' = "visit"
  /\ UNCHANGED <<items, scan, reachable, visited, toVisit>>

(* Mutants of Visit: a name is visited once, the top is not taken off.     *)
VisitOnce ==
  /\ phase = "visit" /\ toVisit # <<>>
  /\ LET top == toVisit[Len(toVisit)]
     IN  /\ reachable' = IF items[top].name \in visited THEN reachable ELSE reachable \cup items[top].calls
         /\ visited' = visited \cup {items[top].name}
  /\ toVisit' = SubSeq(toVisit, 1, Len(toVisit) - 1)
  /\ phase' = "rescan" /\ scan' = 1
  /\ UNCHANGED items

VisitPeeking ==
  /\ phase = "visit" /\ toVisit # <<>>
  /\ LET top == toVisit[Len(toVisit)]
     IN  /\ reachable' = reachable \cup items[top].calls
         /\ visited' = visited \cup {items[top].name}
  /\ phase' = "rescan" /\ scan' = 1
  /\ UNCHANGED <<items, toVisit>>

(* The definition on top of the stack is marked and what it calls reached. *)
Visit ==
  /\ phase = "visit" /\ toVisit # <<>>
  /\ LET top == toVisit[Len(toVisit)]
     IN  /\ reachable' = reachable \cup items[top].calls
         /\ visited' = visited \cup {items[top].name}
  /\ toVisit' = SubSeq(toVisit, 1, Len(toVisit) - 1)
  /\ phase' = "rescan" /\ scan' = 1
  /\ UNCHANGED items

(* Every definition reached and not visited is pushed, again if need be.   *)
Rescan ==
  /\ phase = "rescan" /\ scan \in Positions
  /\ toVisit' = IF /\ IsDefine(scan)
                   /\ items[scan].name \in reachable
                   /\ items[scan].name \notin visited
                THEN Append(toVisit, scan) ELSE toVisit
  /\ scan' = scan + 1
  /\ UNCHANGED <<items, phase, reachable, visited>>

Rescanned ==
  /\ phase = "rescan" /\ scan \notin Positions
  /\ phase' = "visit"
  /\ UNCHANGED <<items, scan, reachable, visited, toVisit>>

NothingToVisit ==
  /\ phase = "visit" /\ toVisit = <<>>
  /\ phase' = "kept"
  /\ UNCHANGED <<items, scan, reachable, visited, toVisit>>

PruneNext == CollectRoot \/ RootsCollected \/ Visit \/ Rescan \/ Rescanned \/ NothingToVisit

PruneSpec == PruneInit /\ [][PruneNext]_pruneVars

(* The filter at the end; a mutant keeps of the shapes only those exported.*)
KeptExported(i) ==
  \/ items[i].kind \in {"define", "import"} /\ items[i].name \in reachable
  \/ items[i].kind = "shape" /\ items[i].exported
  \/ items[i].kind = "other"

Kept(i) ==
  \/ items[i].kind \in {"define", "import", "shape"} /\ items[i].name \in reachable
  \/ items[i].kind = "shape" /\ items[i].exported
  \/ items[i].kind = "other"

-----------------------------------------------------------------------------
(* A set of names is closed if it has the roots and, with a definition,    *)
(* all that the definition calls.                                          *)
ClosedUnderCalls(S) ==
  /\ RootNames \subseteq S
  /\ \A i \in Positions : IsDefine(i) /\ items[i].name \in S => items[i].calls \subseteq S

(* A definition named as a root is one.  Otherwise (an exported and a      *)
(* private definition of one name, or an exported shape named as a         *)
(* function) the second is kept but never visited.                         *)
RootsAgree == \A i \in Positions : IsDefine(i) /\ items[i].name \in RootNames => IsRoot(i)

(* Every name of the module.                                               *)
Mentioned == UNION {{items[i].name} \cup items[i].calls : i \in Positions}

(* What is kept is exactly what the roots reach: everything in use is      *)
(* kept, and a name is in each set that is closed under calls.             *)
KeepsExactlyReachable ==
  phase = "kept" =>
    /\ RootsAgree => ClosedUnderCalls(reachable)
    /\ \A S \in SUBSET Mentioned : ClosedUnderCalls(S) => reachable \subseteq S
=============================================================================

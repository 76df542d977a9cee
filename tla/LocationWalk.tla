---------------------------- MODULE LocationWalk ----------------------------
(***************************************************************************)
(* LocationsManager.get_all_children: the recursive walk that collects the *)
(* locations below a given one from a list of all locations, which was     *)
(* read before and does not change. Nothing keeps the parents from forming *)
(* circles or from being gone. The set of visited locations is shared by   *)
(* all calls of a walk; the order of the list is left open.                *)
(***************************************************************************)
EXTENDS Naturals, Sequences, FiniteSets

CONSTANTS PublicIds,    \* public_ids of locations but the root, now or earlier
          MaxDepth      \* calls that fit on the interpreter's stack

ASSUME PublicIdsAssumption == PublicIds \subseteq Nat \ {0, 1}
ASSUME MaxDepthAssumption == MaxDepth \in Nat \ {0}

VARIABLES
  parentOf,     \* the parent of each location in the list, 1 for the root; 0 of
                \* one that is not in it
  target,       \* the location the walk starts from
  calls,        \* the calls under way, the last one running
  visited,      \* locations some call was made for
  outcome,      \* "walking", "done" or "failed"
  collected     \* what the first call has returned: how often each location

walkVars == <<parentOf, target, calls, visited, outcome, collected>>

ChildrenIn(S) == {l \in PublicIds : parentOf[l] \in S}

\* Everything below l: in every set that has the children of l and of its own.
Under(l) == {k \in PublicIds : \A S \in SUBSET PublicIds :
               ChildrenIn(S \cup {l}) \subseteq S => k \in S}

\* A list of locations, by how often each is in it.
Nothing == [l \in PublicIds |-> 0]
ListOf(S) == [l \in PublicIds |-> IF l \in S THEN 1 ELSE 0]
Extended(list, other) == [l \in PublicIds |-> list[l] + other[l]]

\* A call starts with the direct children, and has all of them before it.
Call(l) == [of |-> l, children |-> ListOf(ChildrenIn({l})), todo |-> ChildrenIn({l})]

\* Mutant: children count as visited from when they are collected.
MarkAll(S, l) == S \cup {l} \cup ChildrenIn({l})

\* What a call for l marks as visited.
Mark(S, l) == S \cup {l}

\* The list, the location and its place in the tree are whatever the requests
\* have made of them; the location itself may be gone from the list by now.
WalkInit == /\ parentOf \in [PublicIds -> PublicIds \cup {0, 1}]
            /\ target \in PublicIds
            /\ calls = <<Call(target)>>
            /\ visited = Mark({}, target)
            /\ outcome = "walking"
            /\ collected = Nothing

Depth == Len(calls)
Running == calls[Depth]

\* Mutant: only the location itself is kept from being walked again.
OtherThanSelf(child) == child # Running.of

MayWalk(child) == child \notin visited

\* The running call comes to its next child, in the order of the list.
Take(child) == [calls EXCEPT ![Depth].todo = @ \ {child}]

\* It was visited already.
Skip == /\ outcome = "walking"
        /\ \E child \in Running.todo : ~MayWalk(child) /\ calls' = Take(child)
        /\ UNCHANGED <<parentOf, target, visited, outcome, collected>>

Descend == /\ outcome = "walking" /\ Depth < MaxDepth
           /\ \E child \in Running.todo :
                /\ MayWalk(child)
                /\ calls' = Append(Take(child), Call(child))
                /\ visited' = Mark(visited, child)
           /\ UNCHANGED <<parentOf, target, outcome, collected>>

\* RecursionError: every call on the stack raises in its turn.
TooDeep == /\ outcome = "walking" /\ Depth = MaxDepth
           /\ \E child \in Running.todo : MayWalk(child)
           /\ calls' = <<>>
           /\ outcome' = "failed"
           /\ UNCHANGED <<parentOf, target, visited, collected>>

\* The calling one extends its list by what the running one returns.
Return == /\ outcome = "walking" /\ Depth > 1 /\ Running.todo = {}
          /\ calls' = [i \in 1..(Depth - 1) |->
                         IF i = Depth - 1
                           THEN [calls[i] EXCEPT !.children = Extended(@, Running.children)]
                           ELSE calls[i]]
          /\ UNCHANGED <<parentOf, target, visited, outcome, collected>>

Finish == /\ outcome = "walking" /\ Depth = 1 /\ Running.todo = {}
          /\ calls' = <<>>
          /\ collected' = Running.children
          /\ outcome' = "done"
          /\ UNCHANGED <<parentOf, target, visited>>

Ended == outcome # "walking" /\ UNCHANGED walkVars

WalkNext == Skip \/ Descend \/ TooDeep \/ Return \/ Finish \/ Ended

WalkSpec == WalkInit /\ [][WalkNext]_walkVars

----------------------------------------------------------------------------
\* The walk, cut short at visited locations, collects everything below its
\* location and nothing twice, whatever circles, orphans and double locations
\* the list has.
WalkFindsAllBelow == outcome = "done" => collected = ListOf(Under(target))

\* A walk fails only on a list that really has a chain of children too long
\* for the interpreter's stack, never for a circle or for many short ones.
FailsOnlyOnLongChains ==
  outcome = "failed" =>
    \E chain \in [1..(MaxDepth + 1) -> PublicIds] :
      /\ chain[1] = target
      /\ \A i \in 1..MaxDepth : parentOf[chain[i + 1]] = chain[i]
      /\ \A i, j \in 1..(MaxDepth + 1) : chain[i] = chain[j] => i = j
=============================================================================

----------------------------- MODULE GraphEditor -----------------------------
(***************************************************************************)
(* The CI explorer of the web frontend (graph-editor.component.ts with the *)
(* services GraphData, GraphExpansion, GraphPath and GraphRootNode): a     *)
(* root object, the objects related to it, and whatever the user expands   *)
(* from there. Requests are asynchronous, none is ever cancelled, and the  *)
(* loader covers the page only after a second, so the user goes on         *)
(* clicking while answers are on their way. An answer works on the arrays  *)
(* its request was given: the ones shown, unless they have been replaced   *)
(* by new ones meanwhile. The context menu and the keyboard act on the     *)
(* node selected last, which outlives the graph it was selected in.        *)
(* Layout, labels, relation filters and the connection details are left    *)
(* out.                                                                    *)
(***************************************************************************)
EXTENDS Naturals, FiniteSets, Sequences, SequencesExt

CONSTANTS Objects,     \* public_ids of objects
          Children,    \* their relations: the objects below each object
          TypeOf,      \* the type of each object
          Start,       \* the object whose page is opened
          Filters,     \* types filters the user may set; {} lets all types pass
          None,        \* no navigation; no node
          MaxLoads,    \* requests of loadInitialGraph on their way at once (bound)
          MaxClicks    \* what the user does beside collapsing (bound)

ASSUME ObjectsAssumption == Start \in Objects /\ None \notin Objects /\ IsFiniteSet(Objects)
ASSUME ChildrenAssumption == Children \in [Objects -> SUBSET Objects]
ASSUME FiltersAssumption == {} \in Filters
ASSUME BoundsAssumption == MaxLoads \in Nat \ {0} /\ MaxClicks \in Nat

VARIABLES
  rootInput,    \* rootNodeId as the page gives it: the object the route has resolved
  nav,          \* the object a navigation of the page is resolving
  rootNodeId,   \* the component's own root
  typesFilter,  \* the filter in force, changed by the form as it is edited
  shown,        \* this.nodes
  joins,        \* this.connections
  mapped,       \* nodeInstanceMap
  expanded,     \* nodes whose expanded flag is set
  selected,     \* selectedNode, shown or not
  loads,        \* requests of loadInitialGraph without an answer, in order
  expansions,   \* requests of expandNodeInstance without an answer
  skip,         \* skipBackendEdgesDuringExpansion, one flag for all expansions
  counter,      \* loadingCounter of the loader
  left,         \* clicks left
  chosen,       \* history: the root the user has asked for last
  applied,      \* history: the filter the last load was asked with
  ways          \* history: what has come in the way of a true picture

graph == <<shown, joins, mapped, expanded>>
page == <<rootInput, nav, chosen>>
vars == <<page, rootNodeId, typesFilter, graph, selected, loads, expansions, skip,
          counter, left, applied, ways>>

----------------------------------------------------------------------------
(* Nodes. A node's uid is told apart by the objects on the way from the     *)
(* root to it, its side, and a number among nodes that agree in both.       *)

Sides == {"root", "parent", "child"}
Id(n) == Last(n.path)
IsRoot(n) == n.side = "root"
Node(path, side, copy) == [path |-> path, side |-> side, copy |-> copy]
Under(m, n) == m.side = n.side /\ IsStrictPrefix(n.path, m.path)

\* A connection runs from the node on the lower level to the one on the next;
\* from and to are the two ids it is deleted by.
Join(n, m, from, to) ==
  [up |-> IF m.side = "parent" THEN m ELSE n, down |-> IF m.side = "parent" THEN n ELSE m,
   ids |-> {from, to}]
Touches(j, S) == j.up \in S \/ j.down \in S

FreshCopy(path, side, used) ==
  CHOOSE k \in 0..Cardinality(used) :
    /\ Node(path, side, k) \notin used
    /\ \A i \in 0..(k - 1) : Node(path, side, i) \in used
New(path, side, used) == Node(path, side, FreshCopy(path, side, used))
Loading == {e.node : e \in expansions}      \* isLoading
Selected == {selected} \ {None}
Kept == Loading \cup Selected               \* shown or not, they are referred to
InUse == shown \cup mapped \cup Kept

\* What the backend answers: the neighbours that pass the filter, by relations or
\* by locations, never the object itself.
Related(id, side, filter) ==
  {o \in Objects \ {id} : /\ IF side = "parent" THEN id \in Children[o] ELSE o \in Children[id]
                          /\ filter = {} \/ TypeOf[o] \in filter}

\* Mutant: connections are kept whatever has become of their nodes.
KeepAll(js, nodes) == js

\* GraphPathService.validateConnections, with a new array as result.
ValidateConnections(js, nodes) == {j \in js : j.up \in nodes /\ j.down \in nodes}

----------------------------------------------------------------------------
(* Loading. *)

Init == /\ rootInput = Start /\ nav = None /\ chosen = Start
        /\ rootNodeId = Start
        /\ typesFilter = {} /\ applied = {}
        /\ shown = {} /\ joins = {} /\ mapped = {} /\ expanded = {} /\ selected = None
        /\ loads = <<[root |-> Start, filter |-> {}, late |-> FALSE]>>
        /\ expansions = {}
        /\ skip = FALSE
        /\ counter = 1
        /\ left = MaxClicks
        /\ ways = {}

Click == left > 0 /\ left' = left - 1

\* The request of loadInitialGraph, for a root and a filter just set.
Ask(root, filter) ==
  /\ Len(loads) < MaxLoads
  /\ loads' = Append(loads, [root |-> root, filter |-> filter, late |-> FALSE])
  /\ counter' = counter + 1
  /\ applied' = filter

\* loadInitialGraph(true) empties the arrays in place. A node selected keeps its flag.
EmptyGraph == shown' = {} /\ joins' = {} /\ mapped' = {} /\ expanded' = expanded \cap Selected

\* History: the requests asked before the i-th one are late now.
Rest(i) == [k \in 1..(Len(loads) - 1) |->
              IF k < i THEN [loads[k] EXCEPT !.late = TRUE] ELSE loads[k + 1]]

\* Mutant: the arrays of expansions on their way stay the ones shown.
StillAttached(nodesToo) == expansions

\* The expansions on their way, when this.connections (and this.nodes) is replaced.
Detached(nodesToo) ==
  {[e EXCEPT !.nodesLive = @ /\ ~nodesToo, !.joinsLive = FALSE] : e \in expansions}

\* The nodes of an answer: the root, its parents and its children; an object
\* that is both is shown twice.
AnsweredNodes(l) ==
  {New(<<l.root>>, "root", Kept)}
    \cup {New(<<l.root, o>>, "parent", Kept) : o \in Related(l.root, "parent", l.filter)}
    \cup {New(<<l.root, o>>, "child", Kept) : o \in Related(l.root, "child", l.filter)}

\* mergeEdges: the relations in the answer, unless an expansion has it skipped.
AnsweredJoins(nodes) ==
  IF skip THEN {}
  ELSE {Join(n, m, Id(n), Id(m)) : n \in {x \in nodes : IsRoot(x)}, m \in {x \in nodes : ~IsRoot(x)}}

\* An answer to the i-th request comes in: paintInitial.
Paint(i) ==
  LET nodes == AnsweredNodes(loads[i])
  IN  /\ i \in DOMAIN loads
      /\ shown' = nodes /\ mapped' = nodes /\ expanded' = expanded \cap Selected
      /\ joins' = ValidateConnections(AnsweredJoins(nodes), nodes)
      /\ expansions' = Detached(TRUE)
      /\ loads' = Rest(i)
      /\ counter' = counter - 1
      /\ ways' = (ways \ {"crossed", "failed", "skipped", "late", "deleted", "stale"})
                   \cup (IF loads[i].late THEN {"crossed"} ELSE {})
                   \cup (IF skip THEN {"skipped"} ELSE {})
      /\ UNCHANGED <<page, rootNodeId, typesFilter, selected, skip, left, applied>>

\* The i-th request fails: a toast, and the graph stays as it is.
LoadFails(i) ==
  /\ i \in DOMAIN loads
  /\ loads' = Rest(i)
  /\ counter' = counter - 1
  /\ ways' = ways \cup (IF loads[i].late THEN {} ELSE {"failed"})
  /\ UNCHANGED <<page, rootNodeId, typesFilter, graph, selected, expansions, skip, left, applied>>

----------------------------------------------------------------------------
(* Filters and the root. *)

\* applyFilters, clearFilters, applyProfile.
ApplyFilters(f) ==
  /\ Click
  /\ Ask(rootNodeId, f)
  /\ typesFilter' = f
  /\ EmptyGraph
  /\ ways' = ways \ {"edited"}
  /\ UNCHANGED <<page, rootNodeId, selected, expansions, skip>>

\* setupFormSubscriptions: the form writes through before "Apply".
EditFilterForm(f) ==
  /\ Click
  /\ f # typesFilter
  /\ typesFilter' = f
  /\ ways' = ways \cup {"edited"}
  /\ UNCHANGED <<page, rootNodeId, graph, selected, loads, expansions, skip, counter, applied>>

\* onRootNodeSelected of the page: a navigation, which cancels an earlier one,
\* unless the page shows the object already.
OnRootNodeSelected(id) == nav' = IF id = rootInput THEN nav ELSE id

\* The flag of a node that is neither shown nor selected is out of reach.
SelectedIs(n) == selected' = n /\ expanded' = expanded \cap (shown \cup mapped \cup {n})

\* onRightClick, selectNode, clearSelection.
Select(n) ==
  /\ Click
  /\ n # selected
  /\ SelectedIs(n)
  /\ UNCHANGED <<page, rootNodeId, typesFilter, shown, joins, mapped, loads, expansions, skip,
                 counter, applied, ways>>

\* selectAsRootNode: the graph stays until the answer comes in.
SelectAsRootNode(n) ==
  /\ Click
  /\ SelectedIs(n)
  /\ Ask(Id(n), typesFilter)
  /\ rootNodeId' = Id(n)
  /\ OnRootNodeSelected(Id(n))
  /\ chosen' = Id(n)
  /\ ways' = (ways \ {"edited", "overtaken", "unresolved"})
                \cup (IF nav' \in {None, Id(n)} THEN {} ELSE {"overtaken"})
  /\ UNCHANGED <<rootInput, typesFilter, shown, joins, mapped, expansions, skip>>

\* openSelectedObject: the page's selector of objects.
OpenSelectedObject(id) ==
  /\ Click
  /\ id # rootInput
  /\ nav' = id
  /\ chosen' = id
  /\ ways' = ways \ {"overtaken", "unresolved"}
  /\ UNCHANGED <<rootInput, rootNodeId, typesFilter, graph, selected, loads, expansions, skip,
                 counter, applied>>

\* Mutant: the component keeps its own root when the page has another.
KeepRoot == rootNodeId' = rootNodeId

TakeRoot == rootNodeId' = nav

\* The navigation ends, and ngOnChanges follows.
NavigationEnds ==
  /\ nav # None
  /\ rootInput' = nav /\ nav' = None
  /\ TakeRoot
  /\ Ask(rootNodeId', typesFilter)
  /\ EmptyGraph
  /\ ways' = ways \ {"edited"}
  /\ UNCHANGED <<chosen, typesFilter, selected, expansions, skip, left>>

\* The resolver passes on the error of getObject: the page stays as it is.
NavigationFails ==
  /\ nav # None
  /\ nav' = None
  /\ ways' = ways \cup (IF nav = rootNodeId THEN {} ELSE {"unresolved"})
  /\ UNCHANGED <<rootInput, chosen, rootNodeId, typesFilter, graph, selected, loads, expansions,
                 skip, counter, left, applied>>

----------------------------------------------------------------------------
(* Expanding and collapsing. *)

\* toggleRootExpansion: everything but the root goes, or it is loaded again.
CollapseRootNode(root) ==
  /\ root \in shown /\ IsRoot(root)
  /\ \E n \in shown : ~IsRoot(n)
  /\ LET others == {n \in shown : ~IsRoot(n)}
     IN  /\ shown' = shown \ others
         /\ mapped' = mapped \ others
         /\ joins' = {j \in joins : ~Touches(j, others)}
         /\ expanded' = expanded \ ((others \ Selected) \cup {root})
  /\ UNCHANGED <<page, rootNodeId, typesFilter, selected, loads, expansions, skip, counter, left,
                 applied, ways>>

ExpandRootNode(root) ==
  /\ shown = {root} /\ IsRoot(root)
  /\ rootNodeId' = Id(root)
  /\ Click
  /\ Ask(Id(root), typesFilter)
  /\ EmptyGraph
  /\ chosen' = IF nav = None THEN Id(root) ELSE chosen
  /\ ways' = ways \ {"edited"}
  /\ UNCHANGED <<rootInput, nav, typesFilter, selected, expansions, skip>>

\* expandNodeInstance, up to its request. The node selected may be one of an
\* earlier graph: its neighbours go into the arrays of this one.
ExpandNodeInstance(n) ==
  /\ Click
  /\ n \notin Loading \cup expanded
  /\ ~IsRoot(n)
  /\ expanded' = expanded \cup {n}
  /\ expansions' = expansions \cup
       {[node |-> n, filter |-> typesFilter, nodesLive |-> TRUE, joinsLive |-> TRUE]}
  /\ skip' = TRUE
  /\ counter' = counter + 1
  /\ ways' = ways \cup (IF n \in shown THEN {} ELSE {"stale"})
  /\ UNCHANGED <<page, rootNodeId, typesFilter, shown, joins, mapped, selected, loads, applied>>

\* Its end, whatever the answer: this.connections becomes a new array.
EndExpansion(e, connections) ==
  /\ joins' = ValidateConnections(connections, mapped')
  /\ expansions' = {[x EXCEPT !.joinsLive = FALSE] : x \in expansions \ {e}}
  /\ skip' = FALSE
  /\ counter' = counter - 1

\* The answer: nodes and connections go into the arrays the request was given.
Attach(e) ==
  LET n == e.node
      new == {New(Append(n.path, o), n.side, InUse) : o \in Related(Id(n), n.side, e.filter)}
  IN  /\ e \in expansions
      /\ shown' = shown \cup (IF e.nodesLive THEN new ELSE {})
      /\ mapped' = mapped \cup new
      /\ EndExpansion(e, joins \cup (IF e.joinsLive THEN {Join(n, m, Id(n), Id(n)) : m \in new} ELSE {}))
      /\ ways' = ways \cup (IF e.nodesLive /\ new # {} /\ (~e.joinsLive \/ n \notin shown)
                             THEN {"late"} ELSE {})
      /\ UNCHANGED <<page, rootNodeId, typesFilter, expanded, selected, loads, left, applied>>

ExpansionFails(e) ==
  /\ e \in expansions
  /\ expanded' = expanded \ {e.node}
  /\ UNCHANGED mapped
  /\ EndExpansion(e, joins)
  /\ UNCHANGED <<page, rootNodeId, typesFilter, shown, selected, loads, left, applied, ways>>

\* Mutant: only what hangs directly on the node is found.
FirstHop(n) ==
  {m \in mapped : \E j \in joins : IF n.side = "child" THEN j.up = n /\ j.down = m
                                                    ELSE j.down = n /\ j.up = m}

\* One hop away from the root.
Hop(S) ==
  {m \in mapped : \E j \in joins, n \in S : IF n.side = "child" THEN j.up = n /\ j.down = m
                                                            ELSE j.down = n /\ j.up = m}

\* getDescendantInstancesFromSpecificNode.
Descendants(n) ==
  LET found[k \in 0..Cardinality(joins)] == IF k = 0 THEN {n} ELSE found[k - 1] \cup Hop(found[k - 1])
  IN  found[Cardinality(joins)] \ {n}

\* Mutant: a node may be collapsed while it is loading.
MayCollapseAnyTime(n) == n \in expanded /\ ~IsRoot(n)

\* toggleExpand.
MayCollapse(n) == n \in expanded \ Loading /\ ~IsRoot(n)

CollapseNodeInstance(n) ==
  LET victims == Descendants(n)
  IN  /\ MayCollapse(n)
      /\ shown' = shown \ victims
      /\ mapped' = mapped \ (victims \cap shown)
      /\ joins' = {j \in joins : ~Touches(j, victims)}
      /\ expanded' = expanded \ ((victims \ Selected) \cup {n})
      /\ UNCHANGED <<page, rootNodeId, typesFilter, selected, loads, expansions, skip, counter,
                     left, applied, ways>>

\* deleteSelectedNodes: by ids, in the arrays only. A selection of any ids comes
\* about: it outlives the graph it was made in.
DeleteSelectedNodes(ids) ==
  /\ Click
  /\ \E n \in shown : Id(n) \in ids
  /\ shown' = {n \in shown : Id(n) \notin ids}
  /\ joins' = {j \in joins : j.ids \cap ids = {}}
  /\ expansions' = Detached(TRUE)
  /\ SelectedIs(None)
  /\ ways' = ways \cup {"deleted"}
  /\ UNCHANGED <<page, rootNodeId, typesFilter, mapped, loads, skip, counter, applied>>

----------------------------------------------------------------------------
Answers ==
  \/ \E i \in DOMAIN loads : Paint(i) \/ LoadFails(i)
  \/ \E e \in expansions : Attach(e) \/ ExpansionFails(e)

Clicks ==
  \/ \E f \in Filters : ApplyFilters(f) \/ EditFilterForm(f)
  \/ \E n \in shown \cup {None} : Select(n)
  \/ \E n \in shown : CollapseRootNode(n) \/ ExpandRootNode(n)
  \/ \E n \in shown \cup Selected : \/ SelectAsRootNode(n)
                                   \/ ExpandNodeInstance(n)
                                   \/ CollapseNodeInstance(n)
  \/ \E id \in Objects : OpenSelectedObject(id)
  \/ \E ids \in SUBSET Objects : DeleteSelectedNodes(ids)

Next == Answers \/ NavigationEnds \/ NavigationFails \/ Clicks

Spec == Init /\ [][Next]_vars

----------------------------------------------------------------------------
(* Properties. *)

Requests == [node : shown \cup mapped \cup Loading, filter : Filters, nodesLive : BOOLEAN, joinsLive : BOOLEAN]

\* Types; the loader counts the requests on their way, connections have their
\* nodes in the map, and a node on its way is not expanded again.
TypeOK ==
  /\ {rootInput, rootNodeId, chosen} \subseteq Objects /\ nav \in Objects \cup {None}
  /\ typesFilter \in Filters /\ applied \in Filters
  /\ \A n \in InUse : n.side \in Sides /\ Range(n.path) \subseteq Objects
  /\ \A j \in joins : {j.up, j.down} \subseteq mapped
  /\ \A l \in Range(loads) : l.root \in Objects /\ l.filter \in Filters
  /\ expansions \subseteq Requests /\ Cardinality(Loading) = Cardinality(expansions)
  /\ counter = Len(loads) + Cardinality(expansions)

Quiet == loads = <<>> /\ nav = None

\* At rest the graph shown is that of the object chosen last, unless the last
\* load failed, an earlier one was answered after it, the object could not be
\* resolved, or the user came back to the page's own object while the page was on
\* its way to another: that navigation is not cancelled (onRootNodeSelected). The
\* last exception is a node selected in an earlier graph and expanded in this one.
RootIsChosen ==
  Quiet /\ ways \cap {"crossed", "failed", "overtaken", "unresolved", "stale"} = {} =>
    rootNodeId = chosen /\ \A n \in shown : n.path[1] = chosen

\* At rest every node shown passes the filter of the last load, unless loads
\* failed or were answered out of order, or the form was edited but not applied.
FilterHolds ==
  Quiet /\ ways \cap {"crossed", "failed", "edited"} = {} /\ applied # {} =>
    \A n \in shown : IsRoot(n) \/ TypeOf[Id(n)] \in applied

\* The nodes that n hangs on, by the connections shown.
HangsOn(n) == {m \in shown : \E j \in joins : /\ {j.up, j.down} = {m, n}
                                              /\ Len(m.path) < Len(n.path)}

\* What is shown is a tree: one root, every other node hangs on the node it was
\* loaded from and on no other, and no object is twice below one node. There are
\* three exceptions until the next load: nodes were deleted; the last load was
\* drawn while an expansion had connections skipped; an expansion was answered
\* after another one had replaced the connections, or after its node had gone.
ShownIsTree ==
  ways \cap {"deleted", "skipped", "late"} = {} =>
    /\ \A n \in shown : ~IsRoot(n) =>
         \E m \in HangsOn(n) : HangsOn(n) = {m} /\ m.path = Front(n.path)
    /\ \A m, n \in shown : (IsRoot(m) /\ IsRoot(n)) \/ (m.path = n.path /\ m.side = n.side) => m = n

\* "Collapses a node instance, removing its children": all of what was loaded
\* from the node goes and nothing else, unless nodes were deleted or an answer
\* came late.
CollapseIsExact ==
  [][ways \cap {"deleted", "late"} = {} => \A n \in shown : CollapseNodeInstance(n) =>
       shown' = {m \in shown : ~Under(m, n)}]_vars
=============================================================================

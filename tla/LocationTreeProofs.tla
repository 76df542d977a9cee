-------------------------- MODULE LocationTreeProofs --------------------------
(***************************************************************************)
(* Proofs about LocationTree for any workers, objects and bounds: type     *)
(* correctness, that a deletion leaves nothing under what it deletes but   *)
(* what came too late, and that only moves and inserts under an id not yet *)
(* given close circles; and about LocationWalk for any locations and any   *)
(* size of the stack: that the walk collects what is below a location.     *)
(***************************************************************************)
EXTENDS LocationTree, LocationWalk, TLAPS

Locations == [obj : Objs, parent : 1..MaxLoc]
Kinds == {"unplace", "one", "locations", "children"}
DeletionLabels == {"removeFirst", "read", "check", "collect", "dropBelow", "dropOwn", "reread",
                   "recollect", "removeChildren", "remove"}

(* What a request carries, by how far it has come; n is the next public_id.  *)
MoveOK(r) == r.obj \in Objs /\ r.parent \in 1..MaxLoc

RelabelOK(r, n) == "rest" \in DOMAIN r /\ r.rest \subseteq {l \in LocIds : l < n}

DeletionOK(r) ==
  /\ {"kind", "obj", "loc", "below", "under", "rest"} \subseteq DOMAIN r
  /\ r.kind \in Kinds /\ r.obj \in Objs /\ r.below \subseteq LocIds
  /\ r.at \in {"check", "collect", "dropBelow", "dropOwn"} => r.loc \in LocIds
  /\ r.at = "check" => r.kind = "one"
  /\ r.at \in {"collect", "dropBelow"} => r.kind \in {"locations", "children"}
  /\ r.at \in {"removeFirst", "read", "check"} => r.below = {}

RequestOK(r, n) == /\ "at" \in DOMAIN r /\ r.at \in {"idle", "move", "relabel"} \cup DeletionLabels
                   /\ r.at = "move" => MoveOK(r)
                   /\ r.at = "relabel" => RelabelOK(r, n)
                   /\ r.at \in DeletionLabels => DeletionOK(r)

RequestsOK == /\ req = [w \in Workers |-> req[w]]
              /\ \A w \in Workers : RequestOK(req[w], nextLoc)

LocsOK == /\ locs \in [LocIds -> {NoLoc} \cup Locations]
          /\ \A l \in LocIds : There(l) => l < nextLoc
          /\ nextLoc \in 2..(MaxLoc + 1)

RestOK == /\ nameless \in {NoLoc} \cup Locations
          /\ objs \subseteq Objs
          /\ started \in 0..MaxRequests

\* The documents that labels alone were written to.
BareOK == \A l \in bare : l \in LocIds /\ l < nextLoc /\ ~There(l)

HistoryOK == /\ cut \subseteq LocIds /\ late \subseteq LocIds
             /\ ahead \subseteq LocIds /\ moved \subseteq LocIds

TypeInv == RequestsOK /\ LocsOK /\ RestOK /\ HistoryOK

LEMMA TypeInvImpliesTypeOK == TypeInv /\ BareOK => TypeOK
<1> SUFFICES ASSUME TypeInv, BareOK PROVE TypeOK
  OBVIOUS
<1>1. ASSUME NEW w \in Workers
      PROVE  /\ req[w].at \notin {"idle", "relabel"} => req[w].obj \in Objs
             /\ At(w, "relabel") => req[w].rest \subseteq LocIds
             /\ req[w].at \in {"check", "collect", "dropBelow", "dropOwn"} => req[w].loc \in LocIds
  <2>1. RequestOK(req[w], nextLoc)
    BY DEF TypeInv, RequestsOK
  <2> QED BY <2>1 DEF At, RequestOK, MoveOK, RelabelOK, DeletionOK, DeletionLabels
<1> QED BY <1>1 DEF TypeInv, LocsOK, RestOK, HistoryOK, BareOK, TypeOK, Locations, Parents

----------------------------------------------------------------------------
(* Locations and what is below them. *)

\* A location that is there has an object and a parent, one that is not has
\* the parent 0, which is nobody's public_id.
LEMMA LocationShape ==
  ASSUME LocsOK, NEW l \in LocIds
  PROVE  /\ There(l) => locs[l].obj \in Objs /\ locs[l].parent \in 1..MaxLoc
         /\ ~There(l) => locs[l].obj = None /\ locs[l].parent = 0
         /\ locs[l].parent \in Nat
BY LocationBounds DEF LocsOK, There, NoLoc, Locations

LEMMA LocationsOfThere ==
  ASSUME LocsOK, NEW o \in Objs, NEW l \in LocationsOf(o)
  PROVE  l \in LocIds /\ There(l)
BY LocationShape, NoneAssumption DEF LocationsOf

\* What is below l is closed: a child of l, or of what is below it, is below l.
LEMMA BelowClosed ==
  ASSUME NEW l
  PROVE  Below(l) \subseteq LocIds /\ ChildrenOf(Below(l) \cup {l}) \subseteq Below(l)
<1>1. ASSUME NEW k \in ChildrenOf(Below(l) \cup {l}), NEW S \in SUBSET LocIds,
             ChildrenOf(S \cup {l}) \subseteq S
      PROVE  k \in S
  <2>1. Below(l) \subseteq S
    BY <1>1 DEF Below
  <2>2. k \in ChildrenOf(S \cup {l})
    BY <1>1, <2>1 DEF ChildrenOf
  <2> QED BY <1>1, <2>2
<1>2. ChildrenOf(Below(l) \cup {l}) \subseteq LocIds
  BY DEF ChildrenOf
<1> QED BY <1>1, <1>2 DEF Below

\* And it is the smallest such set.
LEMMA BelowLeast ==
  ASSUME NEW l, NEW S \in SUBSET LocIds, ChildrenOf(S \cup {l}) \subseteq S
  PROVE  Below(l) \subseteq S
BY DEF Below

----------------------------------------------------------------------------
(* The steps, one by one. *)

LEMMA SetRequest ==
  ASSUME NEW w \in Workers, req = [v \in Workers |-> req[v]], NEW r, req' = [req EXCEPT ![w] = r]
  PROVE  /\ req'[w] = r /\ \A u \in Workers \ {w} : req'[u] = req[u]
         /\ req' = [v \in Workers |-> req'[v]]
OBVIOUS

\* A step of w that lets the counter grow, and gives w a good request.
LEMMA RequestsStep ==
  ASSUME RequestsOK, nextLoc \in Nat, nextLoc' \in Nat, nextLoc <= nextLoc', NEW w \in Workers,
         NEW r, req' = [req EXCEPT ![w] = r], RequestOK(r, nextLoc')
  PROVE  /\ RequestsOK' /\ req'[w] = r /\ \A u \in Workers \ {w} : req'[u] = req[u]
<1>1. /\ req'[w] = r /\ \A u \in Workers \ {w} : req'[u] = req[u]
      /\ req' = [v \in Workers |-> req'[v]]
  BY SetRequest DEF RequestsOK
<1>2. \A u \in Workers : RequestOK(req[u], nextLoc')
  BY LocationBounds DEF RequestsOK, RequestOK, RelabelOK, LocIds
<1> QED BY <1>1, <1>2 DEF RequestsOK

LEMMA CounterStays ==
  ASSUME TypeInv, UNCHANGED nextLoc
  PROVE  nextLoc \in Nat /\ nextLoc' \in Nat /\ nextLoc <= nextLoc'
<1>1. nextLoc \in Nat
  BY LocationBounds DEF TypeInv, LocsOK
<1> QED BY <1>1

LEMMA AnswerStep ==
  ASSUME TypeInv, NEW w \in Workers, NEW how, Answer(w, how), UNCHANGED nextLoc
  PROVE  RequestsOK' /\ req'[w].at = "idle" /\ \A u \in Workers \ {w} : req'[u] = req[u]
<1>1. RequestOK(Idle(how), nextLoc') /\ Idle(how).at = "idle"
  BY DEF RequestOK, Idle, DeletionLabels
<1>2. req' = [req EXCEPT ![w] = Idle(how)]
  BY DEF Answer
<1> QED BY <1>1, <1>2, CounterStays, RequestsStep DEF TypeInv

\* A step that takes a deletion to label, with location l.
LEMMA DeletionStep ==
  ASSUME TypeInv, NEW w \in Workers, req[w].at \in DeletionLabels, UNCHANGED nextLoc,
         NEW label \in DeletionLabels, NEW l,
         req' = [req EXCEPT ![w].at = label, ![w].loc = l],
         label \in {"check", "collect", "dropBelow", "dropOwn"} => l \in LocIds,
         label = "check" => req[w].kind = "one",
         label \in {"collect", "dropBelow"} => req[w].kind \in {"locations", "children"},
         label \in {"removeFirst", "read", "check"} => req[w].below = {}
  PROVE  /\ RequestsOK' /\ \A u \in Workers \ {w} : req'[u] = req[u]
         /\ req'[w].at = label /\ req'[w].loc = l
         /\ req'[w].kind = req[w].kind /\ req'[w].below = req[w].below
         /\ req'[w].obj = req[w].obj
<1> DEFINE r == req[w]
           s == [r EXCEPT !.at = label, !.loc = l]
<1>1. DeletionOK(r) /\ "at" \in DOMAIN r
  BY DEF TypeInv, RequestsOK, RequestOK
<1>2. /\ s.at = label /\ s.loc = l /\ DOMAIN s = DOMAIN r
      /\ s.kind = r.kind /\ s.below = r.below /\ s.obj = r.obj
  BY <1>1 DEF DeletionOK
<1>3. req' = [req EXCEPT ![w] = s]
  OBVIOUS
<1> HIDE DEF s
<1>4. RequestOK(s, nextLoc')
  BY <1>1, <1>2 DEF RequestOK, DeletionOK, DeletionLabels
<1> QED BY <1>2, <1>3, <1>4, CounterStays, RequestsStep DEF TypeInv

LEMMA SameLocs ==
  ASSUME LocsOK, UNCHANGED <<locs, nextLoc>>
  PROVE  LocsOK'
BY DEF LocsOK, There

LEMMA DropLocs ==
  ASSUME LocsOK, NEW S, Drop(S), UNCHANGED nextLoc
  PROVE  LocsOK' /\ \A l \in LocIds : locs'[l] = IF l \in S THEN NoLoc ELSE locs[l]
BY DEF LocsOK, There, Drop

Others(w) == \A u \in Workers \ {w} : req'[u] = req[u]

\* No deletion of w is past its look at the children.
Harmless(w) == ~At(w, "dropBelow") /\ (At(w, "dropOwn") => req[w].kind = "unplace")

(* What a step of w can be, to the locations and to what is doomed.         *)
Calm(w) == /\ UNCHANGED <<locs, moved>> /\ Others(w) /\ Harmless(w)'

Moves(w) == /\ Others(w) /\ Harmless(w)'
            /\ \E l \in LocIds : /\ There(l) /\ moved' = moved \cup {l}
                                 /\ \A k \in LocIds \ {l} : locs'[k] = locs[k]
                                 /\ There(l)'

Collects(w) == /\ UNCHANGED <<locs, moved>> /\ Others(w)
               /\ req'[w].at = "dropBelow" /\ req'[w].loc = req[w].loc
               /\ req'[w].below = Below(req[w].loc)

Checks(w) == /\ UNCHANGED <<locs, moved>> /\ Others(w)
             /\ req'[w].at = "dropOwn" /\ req'[w].loc = req[w].loc /\ req'[w].below = {}
             /\ ChildrenOf({req[w].loc}) = {}

DropsBelow(w) == /\ UNCHANGED moved /\ Others(w)
                 /\ At(w, "dropBelow") /\ req'[w].at = "dropOwn"
                 /\ req'[w].loc = req[w].loc /\ req'[w].below = req[w].below
                 /\ \A l \in LocIds : locs'[l] = IF l \in req[w].below THEN NoLoc ELSE locs[l]

DropsOwn(w) == /\ UNCHANGED moved /\ Others(w)
               /\ At(w, "dropOwn") /\ Harmless(w)'
               /\ \A l \in LocIds : locs'[l] = IF l = req[w].loc THEN NoLoc ELSE locs[l]

Inserts == /\ UNCHANGED <<req, moved>>
           /\ nextLoc \in LocIds /\ ~There(nextLoc) /\ locs'[nextLoc] # NoLoc
           /\ \A k \in LocIds \ {nextLoc} : locs'[k] = locs[k]

Types == RequestsOK' /\ LocsOK' /\ RestOK' /\ moved' \subseteq LocIds

LEMMA CalmAnswer ==
  ASSUME TypeInv, NEW w \in Workers, NEW how, Answer(w, how), UNCHANGED <<locs, nextLoc, moved>>, RestOK'
  PROVE  Types /\ Calm(w)
<1>1. RequestsOK' /\ req'[w].at = "idle" /\ Others(w)
  BY AnswerStep DEF Others
<1> QED BY <1>1, SameLocs DEF Types, Calm, Harmless, At, TypeInv, HistoryOK

LEMMA BeginStep ==
  ASSUME TypeInv, NEW w \in Workers, NEW r, Begin(w, r), RequestOK(r, nextLoc),
         r.at \in {"move", "relabel", "read", "removeFirst"}
  PROVE  Types /\ Calm(w)
<1>1. UNCHANGED <<locs, nextLoc, nameless, objs, moved>> /\ req' = [req EXCEPT ![w] = r]
  BY DEF Begin, db
<1>2. RequestsOK' /\ req'[w] = r /\ Others(w)
  BY <1>1, CounterStays, RequestsStep DEF TypeInv, Others
<1>3. started' \in 0..MaxRequests
  BY LocationBounds DEF Begin, TypeInv, RestOK
<1> QED BY <1>1, <1>2, <1>3, SameLocs DEF Types, Calm, Harmless, At, TypeInv, RestOK, HistoryOK

LEMMA StartStep ==
  ASSUME TypeInv, NEW w \in Workers, Start(w)
  PROVE  Types /\ Calm(w)
<1>1. ASSUME NEW o \in Objs, NEW p \in Parents, StartMove(w, o, p) PROVE Types /\ Calm(w)
  <2> DEFINE r == [at |-> "move", obj |-> o, parent |-> p]
  <2>1. RequestOK(r, nextLoc)
    BY DEF RequestOK, MoveOK, Parents, DeletionLabels
  <2> QED BY <1>1, <2>1, BeginStep DEF StartMove
<1>0. ASSUME NEW S \in SUBSET LocIds, StartRelabel(w, S) PROVE Types /\ Calm(w)
  <2> DEFINE r == [at |-> "relabel", rest |-> S]
  <2>1. \A l \in S : l < nextLoc
    BY <1>0 DEF StartRelabel, TypeInv, LocsOK
  <2>2. RequestOK(r, nextLoc)
    BY <2>1 DEF RequestOK, RelabelOK, DeletionLabels
  <2> QED BY <1>0, <2>2, BeginStep DEF StartRelabel
<1>2. ASSUME NEW o \in Objs, NEW label \in {"read", "removeFirst"}, NEW kind \in Kinds
      PROVE  LET r == Deletion(label, kind, o)
             IN  RequestOK(r, nextLoc) /\ r.at \in {"move", "relabel", "read", "removeFirst"}
  BY DEF Deletion, RequestOK, DeletionOK, DeletionLabels
<1>3. \A o \in Objs : StartUnplace(w, o) \/ StartDelete(w, o) \/ StartDeleteLocations(w, o)
                      \/ StartDeleteChildren(w, o) => Types /\ Calm(w)
  BY <1>2, BeginStep DEF StartUnplace, StartDelete, StartDeleteLocations, StartDeleteChildren, Kinds
<1> QED BY <1>0, <1>1, <1>3 DEF Start

\* update_location, on one of the object's locations or on none.
LEMMA MoveStep ==
  ASSUME TypeInv, NEW w \in Workers, Move(w)
  PROVE  Types /\ (Calm(w) \/ Moves(w))
<1> DEFINE r == req[w]
<1>1. MoveOK(r) /\ UNCHANGED <<nextLoc, objs, started>>
  BY DEF Move, At, TypeInv, RequestsOK, RequestOK
<1>2. CASE /\ nameless' = [obj |-> r.obj, parent |-> r.parent] \/ UNCHANGED nameless
           /\ UNCHANGED <<locs, moved>> /\ \E how : Answer(w, how)
  <2>1. RestOK'
    BY <1>1, <1>2 DEF RestOK, TypeInv, MoveOK, Locations
  <2> QED BY <1>1, <1>2, <2>1, CalmAnswer
<1>3. ASSUME NEW l \in LocationsOf(r.obj), locs' = [locs EXCEPT ![l].parent = r.parent],
             moved' = moved \cup {l}, UNCHANGED nameless, Answer(w, "done")
      PROVE  Types /\ Moves(w)
  <2>1. l \in LocIds /\ There(l)
    BY <1>1, LocationsOfThere DEF MoveOK, TypeInv
  <2>2. RequestsOK' /\ req'[w].at = "idle" /\ Others(w)
    BY <1>1, <1>3, AnswerStep DEF Others
  <2>3. locs[l] \in Locations
    BY <2>1 DEF TypeInv, LocsOK, There
  <2>4. locs'[l] = [obj |-> locs[l].obj, parent |-> r.parent]
        /\ \A k \in LocIds \ {l} : locs'[k] = locs[k]
    BY <1>3, <2>1, <2>3 DEF TypeInv, LocsOK, Locations
  <2>5. locs'[l] \in Locations /\ locs'[l] # NoLoc
    BY <1>1, <2>3, <2>4, NoneAssumption DEF Locations, MoveOK, NoLoc
  <2>6. locs' \in [LocIds -> {NoLoc} \cup Locations]
    BY <1>3, <2>4, <2>5 DEF TypeInv, LocsOK
  <2>7. \A k \in LocIds : There(k)' => k < nextLoc'
    BY <1>1, <2>1, <2>4 DEF TypeInv, LocsOK, There
  <2>8. LocsOK'
    BY <1>1, <2>6, <2>7 DEF TypeInv, LocsOK
  <2>9. RestOK' /\ moved' \subseteq LocIds
    BY <1>1, <1>3, <2>1 DEF TypeInv, RestOK, HistoryOK
  <2> QED BY <1>3, <2>1, <2>2, <2>4, <2>5, <2>8, <2>9 DEF Types, Moves, Harmless, At, There
<1> QED BY <1>2, <1>3 DEF Move

\* update_location by public_id, label by label.
LEMMA RelabelStep ==
  ASSUME TypeInv, NEW w \in Workers, Relabel(w)
  PROVE  Types /\ Calm(w) /\ (BareOK => BareOK')
<1> DEFINE r == req[w]
<1>1. /\ r.at = "relabel" /\ RelabelOK(r, nextLoc) /\ "at" \in DOMAIN r
      /\ UNCHANGED <<locs, nextLoc, nameless, objs, started, moved>>
  BY DEF Relabel, At, TypeInv, RequestsOK, RequestOK
<1>2. RestOK'
  BY <1>1 DEF TypeInv, RestOK
<1>3. CASE Answer(w, "done") /\ UNCHANGED bare
  BY <1>1, <1>2, <1>3, CalmAnswer DEF BareOK, There
<1>4. ASSUME NEW l \in r.rest, bare' = IF There(l) THEN bare ELSE bare \cup {l},
             req' = [req EXCEPT ![w].rest = @ \ {l}]
      PROVE  Types /\ Calm(w) /\ (BareOK => BareOK')
  <2> DEFINE s == [r EXCEPT !.rest = @ \ {l}]
  <2>1. s.at = "relabel" /\ "at" \in DOMAIN s /\ RelabelOK(s, nextLoc')
    BY <1>1 DEF RelabelOK
  <2>2. req' = [req EXCEPT ![w] = s]
    BY <1>4
  <2> HIDE DEF s
  <2>3. RequestOK(s, nextLoc')
    BY <2>1 DEF RequestOK, DeletionLabels
  <2>4. RequestsOK' /\ Others(w) /\ req'[w] = s
    BY <1>1, <2>2, <2>3, CounterStays, RequestsStep DEF TypeInv, Others
  <2>5. BareOK => BareOK'
    BY <1>1, <1>4 DEF RelabelOK, BareOK, There
  <2> QED BY <1>1, <1>2, <2>1, <2>4, <2>5, SameLocs DEF Types, Calm, Harmless, At, TypeInv, HistoryOK
<1> QED BY <1>3, <1>4 DEF Relabel

LEMMA DeletionHere ==
  ASSUME TypeInv, NEW w \in Workers, req[w].at \in DeletionLabels
  PROVE  DeletionOK(req[w])
BY DEF TypeInv, RequestsOK, RequestOK

\* Changing fields of a deletion but for its kind, object and location.
LEMMA FieldsStep ==
  ASSUME TypeInv, NEW w \in Workers, req[w].at \in DeletionLabels, UNCHANGED nextLoc,
         NEW s, req' = [req EXCEPT ![w] = s],
         s.at \in DeletionLabels, DOMAIN s = DOMAIN req[w], s.kind = req[w].kind,
         s.obj = req[w].obj, s.loc = req[w].loc, s.below \subseteq LocIds,
         s.at \in {"check", "collect", "dropBelow", "dropOwn"} => s.loc \in LocIds,
         s.at = "check" => s.kind = "one",
         s.at \in {"collect", "dropBelow"} => s.kind \in {"locations", "children"},
         s.at \in {"removeFirst", "read", "check"} => s.below = {}
  PROVE  RequestsOK' /\ Others(w) /\ req'[w] = s
<1>1. DeletionOK(req[w]) /\ "at" \in DOMAIN req[w]
  BY DEF TypeInv, RequestsOK, RequestOK
<1>2. DeletionOK(s)
  BY <1>1 DEF DeletionOK
<1>3. RequestOK(s, nextLoc')
  BY <1>1, <1>2 DEF RequestOK, DeletionLabels
<1> QED BY <1>3, CounterStays, RequestsStep DEF TypeInv, Others

LEMMA GoToStep ==
  ASSUME TypeInv, NEW w \in Workers, req[w].at \in DeletionLabels, UNCHANGED nextLoc,
         NEW label \in DeletionLabels, GoTo(w, label),
         label \in {"check", "collect", "dropBelow", "dropOwn"} => req[w].loc \in LocIds,
         label = "check" => req[w].kind = "one",
         label \in {"collect", "dropBelow"} => req[w].kind \in {"locations", "children"},
         label \in {"removeFirst", "read", "check"} => req[w].below = {}
  PROVE  /\ RequestsOK' /\ Others(w)
         /\ req'[w].at = label /\ req'[w].loc = req[w].loc
         /\ req'[w].kind = req[w].kind /\ req'[w].below = req[w].below
<1> DEFINE r == req[w]
           s == [r EXCEPT !.at = label]
<1>1. DeletionOK(r) /\ "at" \in DOMAIN r
  BY DeletionHere DEF TypeInv, RequestsOK, RequestOK
<1>2. /\ s.at = label /\ s.below = r.below /\ DOMAIN s = DOMAIN r
      /\ s.kind = r.kind /\ s.obj = r.obj /\ s.loc = r.loc
  BY <1>1 DEF DeletionOK
<1>3. req' = [req EXCEPT ![w] = s]
  BY DEF GoTo
<1> HIDE DEF s
<1>4. RequestsOK' /\ Others(w) /\ req'[w] = s
  BY <1>1, <1>2, <1>3, FieldsStep DEF DeletionOK
<1> QED BY <1>2, <1>4

LEMMA SameRest ==
  ASSUME TypeInv, UNCHANGED <<nameless, started>>, objs' \subseteq objs
  PROVE  RestOK'
BY DEF TypeInv, RestOK

LEMMA RemoveObjectFirstStep ==
  ASSUME TypeInv, NEW w \in Workers, RemoveObjectFirst(w)
  PROVE  Types /\ Calm(w)
<1>1. /\ req[w].at = "removeFirst" /\ req[w].at \in DeletionLabels /\ GoTo(w, "read")
      /\ UNCHANGED <<locs, nextLoc, nameless, started, moved>> /\ objs' \subseteq objs
  BY DEF RemoveObjectFirst, At, DeletionLabels
<1>2. DeletionOK(req[w])
  BY <1>1, DeletionHere
<1>3. RequestsOK' /\ Others(w) /\ req'[w].at = "read"
  BY <1>1, <1>2, GoToStep DEF DeletionOK, DeletionLabels
<1> QED BY <1>1, <1>3, SameLocs, SameRest DEF Types, Calm, Harmless, At, TypeInv, HistoryOK

LEMMA ReadLocationStep ==
  ASSUME TypeInv, NEW w \in Workers, ReadLocation(w)
  PROVE  Types /\ Calm(w)
<1> DEFINE r == req[w]
<1>1. /\ r.at = "read" /\ r.at \in DeletionLabels
      /\ UNCHANGED <<locs, nextLoc, nameless, objs, started, moved>>
  BY DEF ReadLocation, At, DeletionLabels, db
<1>2. DeletionOK(r) /\ r.below = {}
  BY <1>1, DeletionHere DEF DeletionOK
<1>3. RestOK'
  BY <1>1, SameRest
<1>4. CASE \E how : Answer(w, how)
  BY <1>1, <1>3, <1>4, CalmAnswer
<1>5. ASSUME NEW l \in LocationsOf(r.obj), req' = [req EXCEPT ![w].loc = l, ![w].at = WithLocation[r.kind]]
      PROVE  Types /\ Calm(w)
  <2> DEFINE label == WithLocation[r.kind]
  <2>1. l \in LocIds
    BY DEF LocationsOf
  <2>2. /\ label \in DeletionLabels
        /\ label \in {"check", "collect", "dropBelow", "dropOwn"}
        /\ label = "check" => r.kind = "one"
        /\ label \in {"collect", "dropBelow"} => r.kind \in {"locations", "children"}
        /\ label # "dropBelow" /\ (label = "dropOwn" => r.kind = "unplace")
    BY <1>2 DEF WithLocation, DeletionLabels, DeletionOK, Kinds
  <2> HIDE DEF label
  <2>3. req' = [req EXCEPT ![w].at = label, ![w].loc = l]
    BY <1>5 DEF label
  <2>4. RequestsOK' /\ Others(w) /\ req'[w].at = label /\ req'[w].kind = r.kind
    BY <1>1, <1>2, <2>1, <2>2, <2>3, DeletionStep DEF Others
  <2> QED BY <1>1, <1>3, <2>2, <2>4, SameLocs DEF Types, Calm, Harmless, At, TypeInv, HistoryOK
<1>6. ASSUME NEW label \in {"remove", "reread"}, GoTo(w, label)
      PROVE  Types /\ Calm(w)
  <2>1. RequestsOK' /\ Others(w) /\ req'[w].at = label
    BY <1>1, <1>6, GoToStep DEF DeletionLabels
  <2> QED BY <1>1, <1>3, <2>1, SameLocs DEF Types, Calm, Harmless, At, TypeInv, HistoryOK
<1> QED BY <1>4, <1>5, <1>6 DEF ReadLocation

\* The request of handle_delete_object_location goes on only without children.
LEMMA CheckStep ==
  ASSUME TypeInv, NEW w \in Workers, Check(w)
  PROVE  Types /\ (Calm(w) \/ Checks(w))
<1>1. /\ req[w].at = "check" /\ req[w].at \in DeletionLabels
      /\ UNCHANGED <<locs, nextLoc, nameless, objs, started, moved>>
  BY DEF Check, At, DeletionLabels, db
<1>2. DeletionOK(req[w]) /\ req[w].below = {} /\ req[w].loc \in LocIds
  BY <1>1, DeletionHere DEF DeletionOK
<1>3. RestOK'
  BY <1>1, SameRest
<1>4. CASE Answer(w, "refused")
  BY <1>1, <1>3, <1>4, CalmAnswer
<1>5. CASE GoTo(w, "dropOwn") /\ ChildrenOf({req[w].loc}) = {}
  <2>1. /\ RequestsOK' /\ Others(w) /\ req'[w].at = "dropOwn"
        /\ req'[w].loc = req[w].loc /\ req'[w].below = {}
    BY <1>1, <1>2, <1>5, GoToStep DEF DeletionLabels
  <2> QED BY <1>1, <1>3, <1>5, <2>1, SameLocs DEF Types, Checks, TypeInv, HistoryOK
<1> QED BY <1>4, <1>5 DEF Check

LEMMA CollectStep ==
  ASSUME TypeInv, NEW w \in Workers, Collect(w)
  PROVE  Types /\ Collects(w)
<1> DEFINE r == req[w]
           below == Below(r.loc)
           under == {locs[l].obj : l \in Below(r.loc)}
           s == [r EXCEPT !.at = "dropBelow", !.below = below, !.under = under]
<1>1. /\ r.at = "collect" /\ r.at \in DeletionLabels
      /\ UNCHANGED <<locs, nextLoc, nameless, objs, started, moved>>
  BY DEF Collect, At, DeletionLabels, db
<1>2. DeletionOK(r) /\ "at" \in DOMAIN r
  BY <1>1, DeletionHere DEF TypeInv, RequestsOK, RequestOK
<1>3. r.loc \in LocIds /\ r.kind \in {"locations", "children"} /\ below \subseteq LocIds
  BY <1>1, <1>2, BelowClosed DEF DeletionOK
<1> HIDE DEF below, under
<1>4. /\ s.at = "dropBelow" /\ s.below = below /\ DOMAIN s = DOMAIN r
      /\ s.kind = r.kind /\ s.obj = r.obj /\ s.loc = r.loc
  BY <1>2 DEF DeletionOK
<1>5. req' = [req EXCEPT ![w] = s]
  BY DEF Collect, below, under
<1> HIDE DEF s
<1>6. RequestsOK' /\ Others(w) /\ req'[w] = s
  BY <1>1, <1>3, <1>4, <1>5, FieldsStep DEF DeletionLabels
<1> QED BY <1>1, <1>4, <1>6, SameLocs, SameRest DEF Types, Collects, TypeInv, HistoryOK, below

LEMMA DropBelowStep ==
  ASSUME TypeInv, NEW w \in Workers, DropBelow(w)
  PROVE  Types /\ DropsBelow(w)
<1>1. /\ req[w].at = "dropBelow" /\ req[w].at \in DeletionLabels /\ GoTo(w, "dropOwn")
      /\ UNCHANGED <<nextLoc, nameless, objs, started, moved>> /\ Drop(req[w].below)
  BY DEF DropBelow, At, DeletionLabels
<1>2. req[w].loc \in LocIds
  BY <1>1, DeletionHere DEF DeletionOK
<1>3. /\ RequestsOK' /\ Others(w) /\ req'[w].at = "dropOwn"
      /\ req'[w].loc = req[w].loc /\ req'[w].below = req[w].below
  BY <1>1, <1>2, GoToStep DEF DeletionLabels
<1>4. LocsOK' /\ \A l \in LocIds : locs'[l] = IF l \in req[w].below THEN NoLoc ELSE locs[l]
  BY <1>1, DropLocs DEF TypeInv
<1> QED BY <1>1, <1>3, <1>4, SameRest DEF Types, DropsBelow, At, TypeInv, HistoryOK

LEMMA DropOwnStep ==
  ASSUME TypeInv, NEW w \in Workers, DropOwn(w)
  PROVE  Types /\ DropsOwn(w)
<1>1. /\ req[w].at = "dropOwn" /\ req[w].at \in DeletionLabels
      /\ UNCHANGED <<nextLoc, nameless, objs, started, moved>> /\ Drop({req[w].loc})
  BY DEF DropOwn, At, DeletionLabels
<1>2. RequestsOK' /\ Others(w) /\ req'[w].at \in {"idle", "remove", "reread"}
  <2>1. ASSUME NEW label \in {"remove", "reread"}, GoTo(w, label)
        PROVE  RequestsOK' /\ Others(w) /\ req'[w].at = label
    BY <1>1, <2>1, GoToStep DEF DeletionLabels
  <2>2. CASE Answer(w, "done")
    BY <1>1, <2>2, AnswerStep DEF Others
  <2> QED BY <2>1, <2>2 DEF DropOwn
<1>3. LocsOK' /\ \A l \in LocIds : locs'[l] = IF l = req[w].loc THEN NoLoc ELSE locs[l]
  BY <1>1, DropLocs DEF TypeInv
<1> QED BY <1>1, <1>2, <1>3, SameRest DEF Types, DropsOwn, Harmless, At, TypeInv, HistoryOK

LEMMA RereadStep ==
  ASSUME TypeInv, NEW w \in Workers, Reread(w)
  PROVE  Types /\ Calm(w)
<1>1. /\ req[w].at = "reread" /\ req[w].at \in DeletionLabels
      /\ UNCHANGED <<locs, nextLoc, nameless, objs, started, moved>>
  BY DEF Reread, At, DeletionLabels, db
<1>2. RestOK'
  BY <1>1, SameRest
<1>3. CASE Answer(w, "refused")
  BY <1>1, <1>2, <1>3, CalmAnswer
<1>4. ASSUME NEW l, req' = [req EXCEPT ![w].at = "recollect", ![w].loc = l]
      PROVE  Types /\ Calm(w)
  <2>1. RequestsOK' /\ Others(w) /\ req'[w].at = "recollect"
    BY <1>1, <1>4, DeletionStep DEF DeletionLabels, Others
  <2> QED BY <1>1, <1>2, <2>1, SameLocs DEF Types, Calm, Harmless, At, TypeInv, HistoryOK
<1>5. CASE GoTo(w, "remove")
  <2>1. RequestsOK' /\ Others(w) /\ req'[w].at = "remove"
    BY <1>1, <1>5, GoToStep DEF DeletionLabels
  <2> QED BY <1>1, <1>2, <2>1, SameLocs DEF Types, Calm, Harmless, At, TypeInv, HistoryOK
<1> QED BY <1>3, <1>4, <1>5 DEF Reread

\* Both steps set what is left to remove.
LEMMA RestStep ==
  ASSUME TypeInv, NEW w \in Workers, req[w].at \in {"recollect", "removeChildren"}, UNCHANGED nextLoc,
         NEW rest, req' = [req EXCEPT ![w].at = "removeChildren", ![w].rest = rest]
  PROVE  RequestsOK' /\ Others(w) /\ req'[w].at = "removeChildren"
<1> DEFINE r == req[w]
           s == [r EXCEPT !.at = "removeChildren", !.rest = rest]
<1>1. r.at \in DeletionLabels
  BY DEF DeletionLabels
<1>2. DeletionOK(r) /\ "at" \in DOMAIN r
  BY <1>1, DeletionHere DEF TypeInv, RequestsOK, RequestOK
<1>3. /\ s.at = "removeChildren" /\ s.below = r.below /\ DOMAIN s = DOMAIN r
      /\ s.kind = r.kind /\ s.obj = r.obj /\ s.loc = r.loc
  BY <1>2 DEF DeletionOK
<1>4. req' = [req EXCEPT ![w] = s]
  OBVIOUS
<1> HIDE DEF s
<1>5. RequestsOK' /\ Others(w) /\ req'[w] = s
  BY <1>1, <1>2, <1>3, <1>4, FieldsStep DEF DeletionLabels, DeletionOK
<1> QED BY <1>3, <1>5

LEMMA RecollectStep ==
  ASSUME TypeInv, NEW w \in Workers, Recollect(w)
  PROVE  Types /\ Calm(w)
<1>1. /\ req[w].at = "recollect" /\ UNCHANGED <<locs, nextLoc, nameless, objs, started, moved>>
      /\ \E rest : req' = [req EXCEPT ![w].at = "removeChildren", ![w].rest = rest]
  BY DEF Recollect, At, db
<1>2. RequestsOK' /\ Others(w) /\ req'[w].at = "removeChildren"
  BY <1>1, RestStep
<1> QED BY <1>1, <1>2, SameLocs, SameRest DEF Types, Calm, Harmless, At, TypeInv, HistoryOK

LEMMA RemoveChildStep ==
  ASSUME TypeInv, NEW w \in Workers, RemoveChild(w)
  PROVE  Types /\ Calm(w)
<1>1. /\ req[w].at = "removeChildren" /\ req[w].at \in DeletionLabels /\ objs' \subseteq objs
      /\ UNCHANGED <<locs, nextLoc, nameless, started, moved>>
  BY DEF RemoveChild, At, DeletionLabels
<1>2. ASSUME NEW o \in req[w].rest, req' = [req EXCEPT ![w].rest = @ \ {o}]
      PROVE  RequestsOK' /\ Others(w) /\ req'[w].at = "removeChildren"
  <2> DEFINE rest == req[w].rest \ {o}
  <2>1. req = [v \in Workers |-> req[v]] /\ DeletionOK(req[w]) /\ "at" \in DOMAIN req[w]
    BY <1>1 DEF TypeInv, RequestsOK, RequestOK
  <2>2. req' = [req EXCEPT ![w].at = "removeChildren", ![w].rest = rest]
    BY <1>1, <1>2, <2>1 DEF DeletionOK
  <2> QED BY <1>1, <2>2, RestStep
<1>3. ASSUME GoTo(w, "remove")
      PROVE  RequestsOK' /\ Others(w) /\ req'[w].at = "remove"
  BY <1>1, <1>3, GoToStep DEF DeletionLabels
<1>4. RequestsOK' /\ Others(w) /\ req'[w].at \in {"remove", "removeChildren"}
  BY <1>2, <1>3 DEF RemoveChild
<1> QED BY <1>1, <1>4, SameLocs, SameRest DEF Types, Calm, Harmless, At, TypeInv, HistoryOK

LEMMA RemoveTargetStep ==
  ASSUME TypeInv, NEW w \in Workers, RemoveTarget(w)
  PROVE  Types /\ Calm(w)
<1>1. /\ Answer(w, "done") /\ UNCHANGED <<locs, nextLoc, nameless, started, moved>>
      /\ objs' \subseteq objs
  BY DEF RemoveTarget
<1> QED BY <1>1, SameRest, CalmAnswer

LEMMA CrashStep ==
  ASSUME TypeInv, NEW w \in Workers, Crash(w)
  PROVE  Types /\ Calm(w)
<1>1. Answer(w, "killed") /\ UNCHANGED <<locs, nextLoc, nameless, objs, started, moved>>
  BY DEF Crash, db
<1> QED BY <1>1, SameRest, CalmAnswer

\* The location gets the next public_id, under any parent.
LEMMA InsertStep ==
  ASSUME TypeInv, NEW o \in Objs, NEW p \in Parents, InsertLocation(o, p)
  PROVE  Types /\ Inserts
<1> DEFINE n == nextLoc
           loc == [obj |-> o, parent |-> p]
<1>1. /\ n \in LocIds /\ nextLoc' = n + 1 /\ locs' = [locs EXCEPT ![n] = loc]
      /\ UNCHANGED <<nameless, objs, req, moved>>
  BY DEF InsertLocation
<1>2. n \in 2..MaxLoc /\ n \in Nat /\ p \in 1..MaxLoc
  BY <1>1, LocationBounds DEF LocIds, Parents
<1>3. ~There(n)
  BY <1>1, <1>2 DEF TypeInv, LocsOK
<1>4. loc \in Locations /\ loc # NoLoc
  BY <1>2, NoneAssumption DEF Locations, NoLoc
<1>5. locs'[n] = loc /\ \A k \in LocIds \ {n} : locs'[k] = locs[k]
  BY <1>1 DEF TypeInv, LocsOK
<1>6. LocsOK'
  <2>1. locs' \in [LocIds -> {NoLoc} \cup Locations]
    BY <1>1, <1>4 DEF TypeInv, LocsOK
  <2>2. nextLoc' \in 2..(MaxLoc + 1)
    BY <1>1, <1>2, LocationBounds
  <2>3. ASSUME NEW l \in LocIds, There(l)' PROVE l < nextLoc'
    <3>1. CASE l = n
      BY <1>1, <1>2, <3>1
    <3>2. CASE l # n
      <4>1. There(l)
        BY <1>5, <2>3, <3>2 DEF There
      <4>2. l < n /\ l \in Nat
        BY <4>1 DEF TypeInv, LocsOK, LocIds
      <4> QED BY <1>1, <1>2, <4>2
    <3> QED BY <3>1, <3>2
  <2> QED BY <2>1, <2>2, <2>3 DEF LocsOK
<1>7. RequestsOK'
  <2>1. ASSUME NEW w \in Workers PROVE RequestOK(req[w], nextLoc')
    <3>1. RequestOK(req[w], n)
      BY DEF TypeInv, RequestsOK
    <3> QED BY <1>1, <1>2, <3>1 DEF RequestOK, RelabelOK, LocIds
  <2> QED BY <1>1, <2>1 DEF TypeInv, RequestsOK
<1>8. RestOK'
  BY <1>1, LocationBounds DEF InsertLocation, TypeInv, RestOK
<1> QED BY <1>1, <1>3, <1>4, <1>5, <1>6, <1>7, <1>8 DEF Types, Inserts, There, TypeInv, HistoryOK

\* Everything a step can be.
StepOf(w) == Calm(w) \/ Moves(w) \/ Collects(w) \/ Checks(w) \/ DropsBelow(w) \/ DropsOwn(w)

LEMMA NextKinds ==
  ASSUME TypeInv, Next
  PROVE  /\ Types /\ History
         /\ Inserts \/ \E w \in Workers : StepOf(w)
<1>1. ASSUME NEW w \in Workers, Start(w) \/ Step(w) \/ Crash(w)
      PROVE  Types /\ StepOf(w)
  BY <1>1, StartStep, MoveStep, RelabelStep, RemoveObjectFirstStep, ReadLocationStep, CheckStep, CollectStep,
     DropBelowStep, DropOwnStep, RereadStep, RecollectStep, RemoveChildStep, RemoveTargetStep,
     CrashStep DEF Step, StepOf
<1> QED BY <1>1, InsertStep DEF Next

LEMMA TypeInvStep ==
  ASSUME TypeInv, [Next]_vars
  PROVE  TypeInv'
<1>1. CASE Next
  <2>1. cut' \subseteq LocIds /\ late' \subseteq LocIds /\ ahead' \subseteq LocIds
    BY <1>1 DEF Next, History, TypeInv, HistoryOK
  <2> QED BY <1>1, <2>1, NextKinds DEF Types, TypeInv, HistoryOK
<1>2. CASE UNCHANGED vars
  BY <1>2 DEF vars, db, TypeInv, RequestsOK, LocsOK, There, RestOK, HistoryOK
<1> QED BY <1>1, <1>2

LEMMA TypeInvInit == Init => TypeInv
<1> SUFFICES ASSUME Init PROVE TypeInv
  OBVIOUS
<1>1. RequestsOK
  BY DEF Init, RequestsOK, RequestOK, Idle, DeletionLabels
<1>2. nextLoc \in Nat /\ nextLoc \in 2..(MaxLoc + 1)
  BY LocationBounds DEF Init
<1>3. locs \in [LocIds -> {NoLoc} \cup Locations]
  BY DEF Init, Locations
<1>4. \A l \in LocIds : There(l) => l < nextLoc
  BY DEF Init
<1>5. RestOK
  BY LocationBounds DEF Init, RestOK
<1> QED BY <1>1, <1>2, <1>3, <1>4, <1>5 DEF Init, TypeInv, LocsOK, HistoryOK

\* But for Relabel no step adds to the documents without object and parent, and
\* no step puts a location at an id that was given before.
LEMMA BareStep ==
  ASSUME TypeInv, BareOK, [Next]_vars
  PROVE  BareOK'
<1>1. CASE UNCHANGED vars
  BY <1>1 DEF vars, db, BareOK, There
<1>2. ASSUME NEW w \in Workers, Relabel(w) PROVE BareOK'
  BY <1>2, RelabelStep
<1>3. ASSUME Next, ~\E w \in Workers : Relabel(w) PROVE BareOK'
  <2>1. bare' \subseteq bare
    BY <1>3 DEF Next, Start, Step, Crash, StartMove, StartRelabel, StartUnplace, StartDelete,
       StartDeleteLocations, StartDeleteChildren, Begin, db, Move, RemoveObjectFirst, ReadLocation, Check,
       Collect, DropBelow, DropOwn, Drop, Reread, Recollect, RemoveChild, RemoveTarget, InsertLocation
  <2>2. nextLoc \in Nat /\ LocIds \subseteq Nat
    BY LocationBounds DEF TypeInv, LocsOK, LocIds
  <2>3. nextLoc' = nextLoc \/ nextLoc' = nextLoc + 1
    BY <1>3 DEF Next, Start, Step, Crash, StartMove, StartRelabel, StartUnplace, StartDelete,
       StartDeleteLocations, StartDeleteChildren, Begin, db, Move, RemoveObjectFirst, ReadLocation, Check,
       Collect, DropBelow, DropOwn, Drop, Reread, Recollect, RemoveChild, RemoveTarget, InsertLocation
  <2>4. ASSUME NEW l \in LocIds PROVE locs'[l] # NoLoc => There(l) \/ l = nextLoc
    <3>1. CASE Inserts
      BY <3>1 DEF Inserts, There
    <3>2. ASSUME NEW w \in Workers, Calm(w) \/ Collects(w) \/ Checks(w)
          PROVE  locs'[l] # NoLoc => There(l)
      BY <3>2 DEF Calm, Collects, Checks, There
    <3>3. ASSUME NEW w \in Workers, Moves(w) PROVE locs'[l] # NoLoc => There(l)
      BY <3>3 DEF Moves, There
    <3>4. ASSUME NEW w \in Workers, DropsBelow(w) \/ DropsOwn(w) PROVE locs'[l] # NoLoc => There(l)
      BY <3>4 DEF DropsBelow, DropsOwn, There
    <3> QED BY <1>3, <3>1, <3>2, <3>3, <3>4, NextKinds DEF StepOf
  <2>5. ASSUME NEW l \in bare' PROVE l \in LocIds /\ l < nextLoc' /\ locs'[l] = NoLoc
    <3>1. l \in LocIds /\ l < nextLoc /\ ~There(l)
      BY <2>1, <2>5 DEF BareOK
    <3>2. l \in Nat /\ l < nextLoc' /\ l # nextLoc
      BY <2>2, <2>3, <3>1
    <3> QED BY <2>4, <3>1, <3>2
  <2> QED BY <2>5 DEF BareOK, There
<1> QED BY <1>1, <1>2, <1>3

\* Every reachable state of the location tree has its type: the counter of the
\* inserts gave all ids of locations, and the documents that come back when
\* types_routes' update_location finds no location to label stand at such ids too,
\* never beside a location.
THEOREM TypeCorrect == Spec => []TypeOK
<1>1. Init => TypeInv /\ BareOK
  BY TypeInvInit DEF Init, BareOK
<1>2. TypeInv /\ BareOK /\ [Next]_vars => (TypeInv /\ BareOK)'
  BY TypeInvStep, BareStep
<1> QED BY <1>1, <1>2, TypeInvImpliesTypeOK, PTL DEF Spec

----------------------------------------------------------------------------
(* Circles come from parents named without a look. *)

\* A location that was never moved, and not inserted under an id still to be
\* given, is younger than its parent.
ParentsOlder == \A l \in LocIds \ (moved \cup ahead) : There(l) => locs[l].parent < l

\* Without such a location below it, l is not below itself: what is below l
\* and younger than l is closed under children.
LEMMA NoCircle ==
  ASSUME TypeInv, ParentsOlder, NEW l \in LocIds, l \in Below(l)
  PROVE  Below(l) \cap (moved \cup ahead) # {}
<1> SUFFICES ASSUME Below(l) \cap (moved \cup ahead) = {} PROVE FALSE
  OBVIOUS
<1> DEFINE S == {k \in Below(l) : l < k}
<1>1. LocIds \subseteq Nat /\ Below(l) \subseteq LocIds
  BY BelowClosed DEF LocIds
<1>2. ASSUME NEW k \in ChildrenOf(S \cup {l}) PROVE k \in S
  <2>1. k \in LocIds /\ locs[k].parent \in S \cup {l}
    BY DEF ChildrenOf
  <2>2. k \in Below(l)
    BY <2>1, BelowClosed DEF ChildrenOf
  <2>3. There(k)
    <3>1. locs[k].parent \in LocIds
      BY <1>1, <2>1
    <3> QED BY <2>1, <3>1, LocationShape DEF TypeInv, LocIds
  <2>4. locs[k].parent < k
    BY <2>1, <2>2, <2>3 DEF ParentsOlder
  <2>5. l < k
    <3>1. PICK p \in Nat : p = locs[k].parent /\ (p = l \/ l < p) /\ p < k
      BY <1>1, <2>1, <2>4
    <3> QED BY <1>1, <2>1, <3>1
  <2> QED BY <2>2, <2>5
<1>3. Below(l) \subseteq S
  BY <1>1, <1>2, BelowLeast
<1> QED BY <1>1, <1>3

LEMMA ParentsOlderStep ==
  ASSUME TypeInv, ParentsOlder, [Next]_vars
  PROVE  ParentsOlder'
<1>1. CASE UNCHANGED vars
  BY <1>1 DEF vars, db, ParentsOlder, There
<1>2. CASE Next
  <2>0. ahead \subseteq ahead'
    BY <1>2 DEF Next, History
  <2>1. CASE Inserts
    <3>1. ASSUME nextLoc \notin ahead' PROVE locs'[nextLoc].parent < nextLoc
      <4>1. nextLoc \in LocIds /\ ~(locs'[nextLoc].parent >= nextLoc)
        <5> DEFINE n == nextLoc
        <5>1. n \in LocIds /\ ~There(n) /\ locs'[n] # NoLoc
          BY <2>1 DEF Inserts
        <5>2. \A l \in LocIds : ~There(l) /\ locs'[l] # NoLoc /\ locs'[l].parent >= n => l \in ahead'
          BY <1>2 DEF Next, History, There
        <5> HIDE DEF n
        <5>3. ~(locs'[n].parent >= n)
          BY <3>1, <5>1, <5>2 DEF n
        <5> QED BY <5>1, <5>3 DEF n
      <4>2. locs'[nextLoc].parent \in Nat /\ nextLoc \in Nat
        <5>1. locs' \in [LocIds -> {NoLoc} \cup Locations]
          BY <1>2, NextKinds DEF Types, LocsOK
        <5> QED BY <4>1, <5>1, LocationBounds DEF NoLoc, Locations, LocIds
      <4> QED BY <4>1, <4>2
    <3> QED BY <2>0, <2>1, <3>1 DEF Inserts, ParentsOlder, There
  <2>2. ASSUME NEW w \in Workers, StepOf(w) PROVE ParentsOlder'
    <3>1. CASE Calm(w) \/ Collects(w) \/ Checks(w)
      BY <2>0, <3>1 DEF Calm, Collects, Checks, ParentsOlder, There
    <3>2. CASE Moves(w)
      BY <2>0, <3>2 DEF Moves, ParentsOlder, There
    <3>3. CASE DropsBelow(w) \/ DropsOwn(w)
      BY <2>0, <3>3 DEF DropsBelow, DropsOwn, ParentsOlder, There
    <3> QED BY <2>2, <3>1, <3>2, <3>3 DEF StepOf
  <2> QED BY <1>2, <2>1, <2>2, NextKinds
<1> QED BY <1>1, <1>2

\* Only update_location by object, and insert_cmdb_location under an id that it
\* gives itself or that is given later, make a location one of those below itself.
THEOREM CirclesComeFromBlindParents == Spec => []CirclesNeedBlindParents
<1>1. Init => TypeInv /\ ParentsOlder
  BY TypeInvInit DEF Init, ParentsOlder
<1>2. TypeInv /\ ParentsOlder /\ [Next]_vars => (TypeInv /\ ParentsOlder)'
  BY TypeInvStep, ParentsOlderStep
<1>3. TypeInv /\ ParentsOlder => CirclesNeedBlindParents
  BY NoCircle DEF CirclesNeedBlindParents
<1> QED BY <1>1, <1>2, <1>3, PTL DEF Spec

----------------------------------------------------------------------------
(* Nothing is left under what a deletion cut. *)

\* Past its look at the children a deletion knows every location under those
\* it is to delete, but for the ones that came too late.
KnownBelow(w) ==
  \A l \in LocIds : locs[l].parent \in Doomed(w) =>
    l \in late \/ (At(w, "dropBelow") /\ l \in req[w].below)

CutInv == NothingLeftUnderCut /\ \A w \in Workers : KnownBelow(w)

LEMMA LateGrows ==
  ASSUME Next
  PROVE  late \subseteq late'
BY DEF Next, History

\* What a step puts under a doomed or a cut location is late.
LEMMA LateCatches ==
  ASSUME Next, NEW l \in LocIds, locs'[l].parent \in AllDoomed' \cup AllDoomed \cup cut'
  PROVE  l \in late' \/ locs'[l].parent = locs[l].parent
BY DEF Next, History

\* A request that goes on as it was still knows what is below.
LEMMA KnownBelowStays ==
  ASSUME Next, NEW w \in Workers, KnownBelow(w), req'[w] = req[w]
  PROVE  KnownBelow(w)'
<1>1. Doomed(w)' = Doomed(w)
  BY DEF Doomed, At
<1>2. ASSUME NEW l \in LocIds, locs'[l].parent \in Doomed(w)'
      PROVE  l \in late' \/ (At(w, "dropBelow")' /\ l \in req'[w].below)
  <2>1. late \subseteq late' /\ (l \in late' \/ locs'[l].parent = locs[l].parent)
    BY <1>2, LateGrows, LateCatches DEF AllDoomed
  <2> QED BY <1>1, <1>2, <2>1 DEF KnownBelow, At
<1> QED BY <1>2 DEF KnownBelow

LEMMA HarmlessKnows ==
  ASSUME NEW w \in Workers, Harmless(w)
  PROVE  Doomed(w) = {}
BY DEF Harmless, Doomed

LEMMA CutInvStep ==
  ASSUME TypeInv, CutInv, [Next]_vars
  PROVE  CutInv'
<1>1. CASE UNCHANGED vars
  BY <1>1 DEF vars, db, CutInv, NothingLeftUnderCut, KnownBelow, Doomed, At
<1>2. CASE Next
  <2>1. ASSUME NEW w \in Workers, StepOf(w) PROVE KnownBelow(w)'
    <3> SUFFICES ASSUME NEW l \in LocIds, locs'[l].parent \in Doomed(w)'
                 PROVE  l \in late' \/ (At(w, "dropBelow")' /\ l \in req'[w].below)
      BY DEF KnownBelow
    <3>0. late \subseteq late' /\ (l \in late' \/ locs'[l].parent = locs[l].parent)
      BY <1>2, LateGrows, LateCatches DEF AllDoomed
    <3>1. CASE Harmless(w)'
      BY <3>1, HarmlessKnows DEF Harmless, Doomed
    <3>2. CASE Collects(w)
      <4>1. locs[l].parent \in Below(req[w].loc) \cup {req[w].loc}
        BY <3>2 DEF Collects, Doomed, At
      <4>2. l \in Below(req[w].loc)
        BY <4>1, BelowClosed DEF ChildrenOf
      <4> QED BY <3>2, <4>2 DEF Collects, At
    <3>3. CASE Checks(w)
      <4>1. locs[l].parent \in {req[w].loc}
        BY <3>3 DEF Checks, Doomed, At
      <4> QED BY <3>3, <4>1 DEF Checks, ChildrenOf
    <3>4. CASE DropsBelow(w)
      <4>1. Doomed(w)' \subseteq Doomed(w)
        BY <3>4 DEF DropsBelow, Doomed, At
      <4>2. l \notin req[w].below \/ l \in late'
        <5>1. Doomed(w)' \subseteq LocIds
          BY <3>4, <4>1 DEF DropsBelow, Doomed, At, TypeInv, RequestsOK, RequestOK, DeletionOK,
                            DeletionLabels
        <5>2. 0 \notin LocIds
          BY DEF LocIds
        <5> QED BY <3>4, <5>1, <5>2 DEF DropsBelow, NoLoc
      <4> QED BY <3>0, <4>1, <4>2 DEF CutInv, KnownBelow
    <3> QED BY <2>1, <3>1, <3>2, <3>3, <3>4 DEF StepOf, Calm, Moves, DropsOwn
  <2>2. ASSUME NEW l \in LocIds, locs'[l].parent \in cut', l \notin late'
        PROVE  FALSE
    <3>1. PICK p : /\ p = locs[l].parent /\ p = locs'[l].parent
                   /\ l \notin late /\ p \in cut' /\ p \notin cut
      BY <1>2, <2>2, LateGrows, LateCatches DEF CutInv, NothingLeftUnderCut
    <3>2. PICK w \in Workers : req'[w] # req[w] /\ p \in Doomed(w)
      BY <1>2, <3>1 DEF Next, History
    <3>3. p \in LocIds /\ locs[p] # NoLoc /\ locs'[p] = NoLoc
      BY <1>2, <3>1 DEF Next, History, There
    <3>4. StepOf(w)
      BY <1>2, <3>2, NextKinds DEF Inserts, StepOf, Calm, Moves, Collects, Checks, DropsBelow,
                                   DropsOwn, Others
    <3>5. ~Calm(w) /\ ~Collects(w) /\ ~Checks(w) /\ ~Moves(w)
      BY <3>3 DEF Calm, Collects, Checks, Moves, There
    <3>6. KnownBelow(w)
      BY DEF CutInv
    <3>7. CASE DropsBelow(w)
      <4>1. l \in req[w].below
        BY <3>1, <3>2, <3>6 DEF KnownBelow
      <4>2. locs'[l].parent = 0
        BY <3>7, <4>1 DEF DropsBelow, NoLoc
      <4> QED BY <3>1, <3>3, <4>2 DEF LocIds
    <3>8. CASE DropsOwn(w)
      BY <3>1, <3>2, <3>6, <3>8 DEF KnownBelow, DropsOwn, At
    <3> QED BY <3>4, <3>5, <3>7, <3>8 DEF StepOf
  <2>3. NothingLeftUnderCut'
    BY <2>2 DEF NothingLeftUnderCut
  <2>4. ASSUME NEW u \in Workers PROVE KnownBelow(u)'
    <3>1. CASE req'[u] = req[u]
      BY <1>2, <3>1, KnownBelowStays DEF CutInv
    <3>2. CASE req'[u] # req[u]
      <4>1. StepOf(u)
        BY <1>2, <3>2, NextKinds DEF Inserts, StepOf, Calm, Moves, Collects, Checks, DropsBelow,
                                     DropsOwn, Others
      <4> QED BY <2>1, <4>1
    <3> QED BY <3>1, <3>2
  <2> QED BY <2>3, <2>4 DEF CutInv
<1> QED BY <1>1, <1>2

LEMMA CutInvInit == Init => CutInv
BY DEF Init, CutInv, NothingLeftUnderCut, KnownBelow, Doomed, At, Idle

\* delete_object_with_child_objects, delete_object_with_child_locations and
\* delete_cmdb_object leave nothing under the locations they delete, but what
\* was put there after they had looked.
THEOREM NothingLeft == Spec => []NothingLeftUnderCut
<1>1. Init => TypeInv /\ CutInv
  BY TypeInvInit, CutInvInit
<1>2. TypeInv /\ CutInv /\ [Next]_vars => (TypeInv /\ CutInv)'
  BY TypeInvStep, CutInvStep
<1>3. CutInv => NothingLeftUnderCut
  BY DEF CutInv
<1> QED BY <1>1, <1>2, <1>3, PTL DEF Spec


----------------------------------------------------------------------------
(* The walk of get_all_children. *)

Calls == [of : PublicIds, children : [PublicIds -> Nat], todo : SUBSET PublicIds]

WalkType == /\ parentOf \in [PublicIds -> PublicIds \cup {0, 1}]
            /\ target \in PublicIds
            /\ calls \in Seq(Calls) /\ Len(calls) <= MaxDepth
            /\ visited \subseteq PublicIds
            /\ outcome \in {"walking", "done", "failed"}

\* What is visited is the location or below it.
VisitedBelow == target \in visited /\ visited \subseteq {target} \cup Under(target)

\* The calls under way are for a chain of different locations, each the child
\* of the one before, and have only children of theirs still before them.
CallsChained ==
  outcome = "walking" =>
    /\ Len(calls) > 0 /\ calls[1].of = target
    /\ \A i \in 1..Len(calls) : calls[i].of \in visited /\ calls[i].todo \subseteq ChildrenIn({calls[i].of})
    /\ \A i \in 1..(Len(calls) - 1) : parentOf[calls[i + 1].of] = calls[i].of
    /\ \A i, j \in 1..Len(calls) : calls[i].of = calls[j].of => i = j

\* Call i has l in its list, and no other one has.
HeldBy(l, i) == calls[i].children[l] = 1 /\ \A j \in 1..Len(calls) : j # i => calls[j].children[l] = 0

\* The children of visited locations are in the list of one call, once, and
\* others in none.
ChildrenHeld ==
  outcome = "walking" =>
    \A l \in PublicIds :
      IF parentOf[l] \in visited THEN \E i \in 1..Len(calls) : HeldBy(l, i)
                                 ELSE \A i \in 1..Len(calls) : calls[i].children[l] = 0

\* A child of a visited location is visited or still before some call.
ChildrenAhead ==
  outcome = "walking" =>
    \A l \in PublicIds : parentOf[l] \in visited =>
      l \in visited \/ \E i \in 1..Len(calls) : l \in calls[i].todo

\* The inductive invariant.
WalkInv == WalkType /\ VisitedBelow /\ CallsChained /\ ChildrenHeld /\ ChildrenAhead

LEMMA UnderClosed ==
  ASSUME WalkType, NEW l \in PublicIds, parentOf[l] \in {target} \cup Under(target)
  PROVE  l \in Under(target)
<1> SUFFICES ASSUME NEW S \in SUBSET PublicIds, ChildrenIn(S \cup {target}) \subseteq S
             PROVE  l \in S
  BY DEF Under
<1> QED BY DEF Under, ChildrenIn

LEMMA UnderLeast ==
  ASSUME NEW S \in SUBSET PublicIds, ChildrenIn(S \cup {target}) \subseteq S
  PROVE  Under(target) \subseteq S
BY DEF Under

LEMMA CallParts ==
  ASSUME NEW l \in PublicIds
  PROVE  /\ Call(l) \in Calls /\ Call(l).of = l /\ Call(l).todo = ChildrenIn({l})
         /\ \A k \in PublicIds : Call(l).children[k] = IF parentOf[k] = l THEN 1 ELSE 0
BY DEF Call, Calls, ListOf, ChildrenIn

\* A call that has taken a child is the same but for what is before it.
LEMMA TakeParts ==
  ASSUME WalkType, Len(calls) > 0, NEW child \in PublicIds
  PROVE  /\ Take(child) \in Seq(Calls) /\ Len(Take(child)) = Len(calls)
         /\ \A i \in 1..Len(calls) : /\ Take(child)[i].of = calls[i].of
                                     /\ Take(child)[i].children = calls[i].children
                                     /\ i # Depth => Take(child)[i].todo = calls[i].todo
         /\ Take(child)[Depth].todo = Running.todo \ {child}
<1> DEFINE n == Len(calls)
           c == [calls[n] EXCEPT !.todo = @ \ {child}]
<1>1. n \in 1..n /\ n \in Nat /\ calls[n] \in Calls /\ \A i \in 1..n : calls[i] \in Calls
  BY DEF WalkType
<1>2. c \in Calls /\ c.of = calls[n].of /\ c.children = calls[n].children /\ c.todo = calls[n].todo \ {child}
  BY <1>1 DEF Calls
<1>3. Take(child) = [calls EXCEPT ![n] = c]
  BY DEF Take, Depth
<1> HIDE DEF c
<1>4. /\ [calls EXCEPT ![n] = c] \in Seq(Calls) /\ Len([calls EXCEPT ![n] = c]) = n
      /\ [calls EXCEPT ![n] = c][n] = c
      /\ \A i \in 1..n : i # n => [calls EXCEPT ![n] = c][i] = calls[i]
  BY <1>1, <1>2 DEF WalkType
<1> QED BY <1>1, <1>2, <1>3, <1>4 DEF Depth, Running

LEMMA WalkInitHolds ==
  ASSUME WalkInit, PublicIdsAssumption, MaxDepthAssumption
  PROVE  WalkInv
<1>1. Call(target) \in Calls /\ visited = {target} /\ calls = <<Call(target)>>
  BY CallParts DEF WalkInit, Mark
<1>2. Len(calls) = 1 /\ calls[1] = Call(target) /\ calls \in Seq(Calls)
  BY <1>1
<1>3. WalkType
  BY <1>1, <1>2, MaxDepthAssumption DEF WalkInit, WalkType
<1>4. /\ calls[1].of = target /\ calls[1].todo = ChildrenIn({target})
      /\ \A k \in PublicIds : calls[1].children[k] = IF parentOf[k] = target THEN 1 ELSE 0
  <2>1. target \in PublicIds
    BY DEF WalkInit
  <2> QED BY <1>2, <2>1, CallParts
<1>5. VisitedBelow /\ CallsChained
  BY <1>1, <1>2, <1>4 DEF VisitedBelow, CallsChained
<1>6. ChildrenHeld
  <2>1. \A l \in PublicIds : parentOf[l] = target => HeldBy(l, 1)
    <3>1. \A j \in 1..Len(calls) : j = 1
      BY <1>2
    <3>2. \A l \in PublicIds : parentOf[l] = target => calls[1].children[l] = 1
      BY <1>4
    <3> QED BY <3>1, <3>2 DEF HeldBy
  <2>2. \A l \in PublicIds : parentOf[l] # target => calls[1].children[l] = 0
    BY <1>4
  <2>3. ASSUME NEW l \in PublicIds
        PROVE  IF parentOf[l] \in visited THEN \E i \in 1..1 : HeldBy(l, i)
                                          ELSE \A i \in 1..1 : calls[i].children[l] = 0
    <3>1. CASE parentOf[l] = target
      <4>1. 1 \in 1..1 /\ HeldBy(l, 1) /\ parentOf[l] \in visited
        BY <1>1, <2>1, <3>1
      <4> QED BY <4>1
    <3>2. CASE parentOf[l] # target
      <4>1. parentOf[l] \notin visited /\ \A i \in 1..1 : calls[i].children[l] = 0
        BY <1>1, <2>2, <3>2
      <4> QED BY <4>1
    <3> QED BY <3>1, <3>2
  <2> QED BY <1>2, <2>3 DEF ChildrenHeld
<1>7. ChildrenAhead
  BY <1>1, <1>2, <1>4 DEF ChildrenAhead, ChildrenIn
<1> QED BY <1>3, <1>5, <1>6, <1>7 DEF WalkInv

\* While it walks, a call is running and every call is one.
LEMMA WalkingParts ==
  ASSUME WalkInv, outcome = "walking"
  PROVE  /\ Len(calls) \in Nat \ {0} /\ Depth = Len(calls) /\ Depth \in 1..Len(calls)
         /\ \A i \in 1..Len(calls) :
              /\ calls[i] \in Calls /\ calls[i].of \in PublicIds /\ calls[i].todo \subseteq PublicIds
              /\ \A l \in PublicIds : calls[i].children[l] \in Nat
         /\ Running.todo \subseteq ChildrenIn({Running.of}) /\ Running.of \in visited
<1>1. Len(calls) \in Nat \ {0} /\ Depth = Len(calls) /\ Depth \in 1..Len(calls)
  BY DEF WalkInv, WalkType, CallsChained, Depth
<1>2. \A i \in 1..Len(calls) : calls[i] \in Calls
  BY <1>1 DEF WalkInv, WalkType
<1>3. \A i \in 1..Len(calls) : /\ calls[i].of \in PublicIds /\ calls[i].todo \subseteq PublicIds
                               /\ \A l \in PublicIds : calls[i].children[l] \in Nat
  BY <1>2 DEF Calls
<1>4. Running.todo \subseteq ChildrenIn({Running.of}) /\ Running.of \in visited
  BY <1>1 DEF WalkInv, CallsChained, Running
<1> QED BY <1>1, <1>2, <1>3, <1>4

LEMMA SkipHolds ==
  ASSUME WalkInv, Skip
  PROVE  WalkInv'
<1>1. PICK child \in Running.todo : ~MayWalk(child) /\ calls' = Take(child)
  BY DEF Skip
<1>2. /\ parentOf' = parentOf /\ target' = target /\ visited' = visited /\ outcome' = outcome
      /\ outcome = "walking"
  BY DEF Skip
<1>3. child \in PublicIds /\ child \in visited
  BY <1>1, <1>2, WalkingParts DEF MayWalk, Running
<1>4. /\ calls' \in Seq(Calls) /\ Len(calls') = Len(calls)
      /\ \A i \in 1..Len(calls) : /\ calls'[i].of = calls[i].of
                                  /\ calls'[i].children = calls[i].children
                                  /\ i # Depth => calls'[i].todo = calls[i].todo
      /\ calls'[Depth].todo = Running.todo \ {child}
  BY <1>1, <1>2, <1>3, TakeParts, WalkingParts DEF WalkInv
<1>5. \A i \in 1..Len(calls) : calls'[i].todo \subseteq calls[i].todo /\ calls[i].todo \subseteq calls'[i].todo \cup {child}
  BY <1>4 DEF Running
<1>6. WalkType' /\ VisitedBelow'
  BY <1>2, <1>4 DEF WalkInv, WalkType, VisitedBelow, Under, ChildrenIn
<1>7. CallsChained'
  <2>1. \A S : ChildrenIn(S)' = ChildrenIn(S)
    BY <1>2 DEF ChildrenIn
  <2>2. \A i \in 1..Len(calls) : calls'[i].of \in visited /\ calls'[i].todo \subseteq ChildrenIn({calls'[i].of})
    BY <1>2, <1>4, <1>5 DEF WalkInv, CallsChained
  <2> QED BY <1>2, <1>4, <2>1, <2>2, WalkingParts DEF WalkInv, CallsChained
<1>8. ChildrenHeld'
  BY <1>2, <1>4, WalkingParts DEF WalkInv, ChildrenHeld, HeldBy
<1>9. ChildrenAhead'
  BY <1>2, <1>3, <1>4, <1>5, WalkingParts DEF WalkInv, ChildrenAhead
<1> QED BY <1>6, <1>7, <1>8, <1>9 DEF WalkInv

LEMMA DescendHolds ==
  ASSUME WalkInv, Descend
  PROVE  WalkInv'
<1>1. PICK child \in Running.todo :
        MayWalk(child) /\ calls' = Append(Take(child), Call(child)) /\ visited' = visited \cup {child}
  BY DEF Descend, Mark
<1>2. /\ parentOf' = parentOf /\ target' = target /\ outcome' = outcome
      /\ outcome = "walking" /\ Len(calls) < MaxDepth
  BY DEF Descend, Depth
<1>0. PICK n \in Nat : n = Len(calls)
  BY <1>2, WalkingParts
<1>3. /\ child \in PublicIds /\ child \notin visited /\ parentOf[child] = calls[n].of
      /\ n \in Nat \ {0} /\ Depth = n
  BY <1>0, <1>1, <1>2, WalkingParts DEF MayWalk, ChildrenIn, Running
<1>4. /\ calls' \in Seq(Calls) /\ Len(calls') = n + 1
      /\ \A i \in 1..n : /\ calls'[i].of = calls[i].of
                         /\ calls'[i].children = calls[i].children
                         /\ calls'[i].todo \subseteq calls[i].todo
                         /\ calls[i].todo \subseteq calls'[i].todo \cup {child}
      /\ calls'[n + 1] = Call(child)
  <2>1. /\ Take(child) \in Seq(Calls) /\ Len(Take(child)) = n
        /\ \A i \in 1..n : /\ Take(child)[i].of = calls[i].of
                           /\ Take(child)[i].children = calls[i].children
                           /\ i # Depth => Take(child)[i].todo = calls[i].todo
        /\ Take(child)[Depth].todo = Running.todo \ {child}
    BY <1>0, <1>2, <1>3, TakeParts, WalkingParts DEF WalkInv
  <2>2. Call(child) \in Calls
    BY <1>3, CallParts
  <2>3. /\ calls' \in Seq(Calls) /\ Len(calls') = n + 1 /\ calls'[n + 1] = Call(child)
        /\ \A i \in 1..n : calls'[i] = Take(child)[i]
    BY <1>1, <1>3, <2>1, <2>2
  <2> QED BY <1>3, <2>1, <2>3 DEF Running
<1>5. /\ calls'[n + 1].of = child /\ calls'[n + 1].todo = ChildrenIn({child})
      /\ \A k \in PublicIds : calls'[n + 1].children[k] = IF parentOf[k] = child THEN 1 ELSE 0
  <2>1. /\ Call(child).of = child /\ Call(child).todo = ChildrenIn({child})
        /\ \A k \in PublicIds : Call(child).children[k] = IF parentOf[k] = child THEN 1 ELSE 0
    BY <1>3, CallParts
  <2>2. calls'[n + 1] = Call(child)
    BY <1>4
  <2> QED BY <2>1, <2>2
<1>6. WalkType'
  <2>1. Len(calls') <= MaxDepth
    BY <1>0, <1>2, <1>4, MaxDepthAssumption
  <2> QED BY <1>1, <1>2, <1>3, <1>4, <2>1 DEF WalkInv, WalkType
<1>7. VisitedBelow'
  <2>1. child \in Under(target)
    BY <1>0, <1>2, <1>3, UnderClosed, WalkingParts DEF WalkInv, VisitedBelow, Running
  <2>2. Under(target)' = Under(target)
    BY <1>2 DEF Under, ChildrenIn
  <2> QED BY <1>0, <1>1, <1>2, <2>1, <2>2 DEF WalkInv, VisitedBelow
<1>8. CallsChained'
  <2>1. /\ n > 0 /\ calls[1].of = target
        /\ \A i \in 1..n : calls[i].of \in visited /\ calls[i].todo \subseteq ChildrenIn({calls[i].of})
        /\ \A i \in 1..(n - 1) : parentOf[calls[i + 1].of] = calls[i].of
        /\ \A i, j \in 1..n : calls[i].of = calls[j].of => i = j
    BY <1>0, <1>2 DEF WalkInv, CallsChained
  <2>2. calls'[1].of = target
    BY <1>4, <2>1
  <2>3. \A S : ChildrenIn(S)' = ChildrenIn(S)
    BY <1>2 DEF ChildrenIn
  <2>4. ASSUME NEW i \in 1..(n + 1) PROVE calls'[i].of \in visited' /\ calls'[i].todo \subseteq ChildrenIn({calls'[i].of})
    <3>1. CASE i \in 1..n
      BY <1>1, <1>4, <2>1, <3>1
    <3>2. CASE i = n + 1
      BY <1>1, <1>5, <3>2
    <3>3. i \in 1..n \/ i = n + 1
      BY <1>0
    <3> QED BY <3>1, <3>2, <3>3
  <2>5. ASSUME NEW i \in 1..n PROVE parentOf[calls'[i + 1].of] = calls'[i].of
    <3>1. CASE i \in 1..(n - 1)
      <4>1. i \in 1..n /\ i + 1 \in 1..n
        BY <3>1
      <4> QED BY <1>4, <2>1, <3>1, <4>1
    <3>2. CASE i = n
      BY <1>3, <1>4, <1>5, <3>2
    <3> QED BY <1>0, <3>1, <3>2
  <2>6. ASSUME NEW i \in 1..(n + 1), NEW j \in 1..(n + 1), calls'[i].of = calls'[j].of PROVE i = j
    <3>1. \A k \in 1..n : calls'[k].of = calls[k].of /\ calls[k].of \in visited
      BY <1>4, <2>1
    <3>2. CASE i \in 1..n /\ j \in 1..n
      BY <2>1, <2>6, <3>1, <3>2
    <3>3. CASE i = n + 1 \/ j = n + 1
      BY <1>3, <1>5, <2>6, <3>1, <3>3
    <3> QED BY <3>2, <3>3
  <2>7. Len(calls') = n + 1 /\ Len(calls') > 0 /\ Len(calls') - 1 = n
    BY <1>4
  <2> QED BY <1>2, <2>2, <2>3, <2>4, <2>5, <2>6, <2>7 DEF CallsChained
<1>9. ChildrenHeld'
  <2> SUFFICES ASSUME NEW l \in PublicIds
               PROVE  IF parentOf[l] \in visited' THEN \E i \in 1..(n + 1) : HeldBy(l, i)'
                                                  ELSE \A i \in 1..(n + 1) : calls'[i].children[l] = 0
    BY <1>2, <1>4 DEF ChildrenHeld
  <2>1. CASE parentOf[l] \in visited
    <3>1. PICK i \in 1..n : HeldBy(l, i)
      BY <1>0, <1>2, <2>1 DEF WalkInv, ChildrenHeld
    <3>2. parentOf[l] # child
      BY <1>3, <2>1
    <3>3. HeldBy(l, i)'
      <4>1. calls'[i].children[l] = 1
        BY <1>4, <3>1 DEF HeldBy
      <4>2. ASSUME NEW j \in 1..(n + 1), j # i PROVE calls'[j].children[l] = 0
        <5>1. CASE j \in 1..n
          BY <1>0, <1>4, <3>1, <4>2, <5>1 DEF HeldBy
        <5>2. CASE j = n + 1
          BY <1>5, <3>2, <5>2
        <5> QED BY <5>1, <5>2
      <4> QED BY <1>4, <4>1, <4>2 DEF HeldBy
    <3> QED BY <1>1, <1>3, <2>1, <3>3
  <2>2. CASE parentOf[l] = child
    <3>1. \A i \in 1..n : calls[i].children[l] = 0
      BY <1>0, <1>2, <1>3, <2>2 DEF WalkInv, ChildrenHeld
    <3>2. HeldBy(l, n + 1)'
      BY <1>3, <1>4, <1>5, <2>2, <3>1 DEF HeldBy
    <3> QED BY <1>1, <1>3, <2>2, <3>2
  <2>3. CASE parentOf[l] \notin visited'
    <3>1. parentOf[l] \notin visited /\ parentOf[l] # child
      BY <1>1, <2>3
    <3>2. \A i \in 1..n : calls[i].children[l] = 0
      BY <1>0, <1>2, <3>1 DEF WalkInv, ChildrenHeld
    <3> QED BY <1>3, <1>4, <1>5, <2>3, <3>1, <3>2
  <2> QED BY <1>1, <2>1, <2>2, <2>3
<1>10. ChildrenAhead'
  <2> SUFFICES ASSUME NEW l \in PublicIds, parentOf[l] \in visited', l \notin visited'
               PROVE  \E i \in 1..(n + 1) : l \in calls'[i].todo
    BY <1>2, <1>4 DEF ChildrenAhead
  <2>1. CASE parentOf[l] = child
    BY <1>3, <1>5, <2>1 DEF ChildrenIn
  <2>2. CASE parentOf[l] \in visited
    <3>1. PICK i \in 1..n : l \in calls[i].todo
      BY <1>0, <1>1, <1>2, <2>2 DEF WalkInv, ChildrenAhead
    <3>2. l \in calls'[i].todo
      BY <1>1, <1>4, <3>1
    <3> QED BY <1>3, <3>2
  <2> QED BY <1>1, <2>1, <2>2
<1> QED BY <1>0, <1>6, <1>7, <1>8, <1>9, <1>10 DEF WalkInv

LEMMA ReturnHolds ==
  ASSUME WalkInv, Return
  PROVE  WalkInv'
<1>0. PICK n \in Nat : n = Len(calls)
  BY WalkingParts DEF Return
<1>00. PICK m \in Nat : m = n - 1
  BY <1>0 DEF Return, Depth
<1> DEFINE c == [calls[m] EXCEPT !.children = Extended(@, calls[n].children)]
<1>1. /\ parentOf' = parentOf /\ target' = target /\ outcome' = outcome /\ visited' = visited
      /\ outcome = "walking" /\ n > 1 /\ calls[n].todo = {}
      /\ calls' = [i \in 1..m |-> IF i = m THEN c ELSE calls[i]]
  BY <1>0, <1>00 DEF Return, Depth, Running
<1>2. n \in Nat /\ m \in 1..n /\ m \in Nat /\ \A i \in 1..n : calls[i] \in Calls
  BY <1>0, <1>00, <1>1, WalkingParts
<1>3. /\ c \in Calls /\ c.of = calls[m].of /\ c.todo = calls[m].todo
      /\ \A l \in PublicIds : c.children[l] = calls[m].children[l] + calls[n].children[l]
  <2>1. calls[m] \in Calls /\ calls[n] \in Calls
    BY <1>0, <1>00, <1>1, <1>2
  <2>2. Extended(calls[m].children, calls[n].children) \in [PublicIds -> Nat]
    BY <2>1 DEF Calls, Extended
  <2> QED BY <2>1, <2>2 DEF Calls, Extended
<1> HIDE DEF c
<1>4. /\ calls' \in Seq(Calls) /\ Len(calls') = m
      /\ calls'[m] = c /\ \A i \in 1..m : i # m => calls'[i] = calls[i]
  BY <1>0, <1>00, <1>1, <1>2, <1>3
<1>5. \A i \in 1..m : calls'[i].of = calls[i].of /\ calls'[i].todo = calls[i].todo
  BY <1>3, <1>4
<1>6. WalkType' /\ VisitedBelow'
  <2>1. Len(calls') <= MaxDepth
    BY <1>0, <1>00, <1>4, MaxDepthAssumption DEF WalkInv, WalkType
  <2>2. WalkType'
    BY <1>1, <1>4, <2>1 DEF WalkInv, WalkType
  <2>3. Under(target)' = Under(target)
    BY <1>1 DEF Under, ChildrenIn
  <2> QED BY <1>1, <2>2, <2>3 DEF WalkInv, VisitedBelow
<1>7. CallsChained'
  <2>1. /\ calls[1].of = target
        /\ \A i \in 1..n : calls[i].of \in visited /\ calls[i].todo \subseteq ChildrenIn({calls[i].of})
        /\ \A i \in 1..(n - 1) : parentOf[calls[i + 1].of] = calls[i].of
        /\ \A i, j \in 1..n : calls[i].of = calls[j].of => i = j
    BY <1>0, <1>1 DEF WalkInv, CallsChained
  <2>2. \A S : ChildrenIn(S)' = ChildrenIn(S)
    BY <1>1 DEF ChildrenIn
  <2>3. m > 0 /\ \A i \in 1..m : i \in 1..n
    BY <1>00, <1>1
  <2>4. \A i \in 1..(m - 1) : i \in 1..(n - 1) /\ i \in 1..m /\ i + 1 \in 1..m
    BY <1>00, <1>1
  <2>5. \A i \in 1..(m - 1) : parentOf[calls'[i + 1].of] = calls'[i].of
    BY <1>5, <2>1, <2>4
  <2>6. calls'[1].of = target
    BY <1>5, <2>1, <2>3
  <2>7. \A i \in 1..m : calls'[i].of \in visited /\ calls'[i].todo \subseteq ChildrenIn({calls'[i].of})
    BY <1>5, <2>1, <2>3
  <2>8. ASSUME NEW i \in 1..m, NEW j \in 1..m, calls'[i].of = calls'[j].of PROVE i = j
    BY <1>5, <2>1, <2>3, <2>8
  <2> QED BY <1>1, <1>4, <2>2, <2>3, <2>5, <2>6, <2>7, <2>8 DEF CallsChained
<1>8. ChildrenHeld'
  <2> SUFFICES ASSUME NEW l \in PublicIds
               PROVE  IF parentOf[l] \in visited THEN \E i \in 1..m : HeldBy(l, i)'
                                                 ELSE \A i \in 1..m : calls'[i].children[l] = 0
    BY <1>0, <1>00, <1>1, <1>4 DEF ChildrenHeld
  <2>1. CASE parentOf[l] \in visited
    <3>1. PICK i \in 1..n : HeldBy(l, i)
      BY <1>0, <1>00, <1>1, <2>1 DEF WalkInv, ChildrenHeld
    <3>2. CASE i < m
      <4>1. c.children[l] = 0
        BY <1>0, <1>00, <1>1, <1>2, <1>3, <3>1, <3>2 DEF HeldBy
      <4>2. HeldBy(l, i)'
        BY <1>0, <1>00, <1>2, <1>4, <3>1, <3>2, <4>1 DEF HeldBy
      <4> QED BY <1>0, <1>00, <1>2, <2>1, <3>2, <4>2
    <3>3. CASE i \in {m, n}
      <4>1. c.children[l] = 1
        BY <1>0, <1>00, <1>1, <1>2, <1>3, <3>1, <3>3 DEF HeldBy
      <4>2. \A j \in 1..m : j # m => calls'[j].children[l] = 0
        BY <1>0, <1>00, <1>2, <1>4, <3>1, <3>3 DEF HeldBy
      <4>3. HeldBy(l, m)'
        BY <1>0, <1>00, <1>2, <1>4, <4>1, <4>2 DEF HeldBy
      <4> QED BY <1>0, <1>00, <1>1, <1>2, <2>1, <4>3
    <3> QED BY <1>0, <1>00, <1>2, <3>2, <3>3
  <2>2. CASE parentOf[l] \notin visited
    <3>1. \A i \in 1..n : calls[i].children[l] = 0
      BY <1>0, <1>00, <1>1, <2>2 DEF WalkInv, ChildrenHeld
    <3>2. c.children[l] = 0
      BY <1>0, <1>00, <1>1, <1>2, <1>3, <3>1
    <3> QED BY <1>0, <1>00, <1>2, <1>4, <2>2, <3>1, <3>2
  <2> QED BY <2>1, <2>2
<1>9. ChildrenAhead'
  <2> SUFFICES ASSUME NEW l \in PublicIds, parentOf[l] \in visited, l \notin visited
               PROVE  \E i \in 1..m : l \in calls'[i].todo
    BY <1>0, <1>00, <1>1, <1>4 DEF ChildrenAhead
  <2>1. PICK i \in 1..n : l \in calls[i].todo
    BY <1>0, <1>00, <1>1 DEF WalkInv, ChildrenAhead
  <2> QED BY <1>0, <1>00, <1>1, <1>2, <1>5, <2>1
<1> QED BY <1>6, <1>7, <1>8, <1>9 DEF WalkInv

\* A walk at its end has visited everything below its location.
LEMMA AllVisited ==
  ASSUME WalkInv, Finish
  PROVE  \A l \in PublicIds : l \in Under(target) <=> parentOf[l] \in visited
<1> DEFINE S == {l \in PublicIds : parentOf[l] \in visited}
<1>1. outcome = "walking" /\ Len(calls) = 1 /\ calls[1].todo = {}
  BY DEF Finish, Depth, Running
<1>2. S \subseteq visited
  BY <1>1 DEF WalkInv, ChildrenAhead
<1>3. ChildrenIn(S \cup {target}) \subseteq S
  BY <1>2 DEF WalkInv, VisitedBelow, ChildrenIn
<1>4. Under(target) \subseteq S
  BY <1>3, UnderLeast
<1>5. \A l \in S : l \in Under(target)
  BY UnderClosed DEF WalkInv, VisitedBelow
<1> QED BY <1>4, <1>5 DEF Under

LEMMA FinishHolds ==
  ASSUME WalkInv, Finish
  PROVE  WalkInv' /\ collected' = ListOf(Under(target)) /\ Under(target)' = Under(target)
<1>1. /\ parentOf' = parentOf /\ target' = target /\ visited' = visited /\ outcome' = "done"
      /\ outcome = "walking" /\ Len(calls) = 1 /\ calls' = <<>> /\ collected' = calls[1].children
  BY DEF Finish, Depth, Running
<1>2. Under(target)' = Under(target)
  BY <1>1 DEF Under, ChildrenIn
<1>3. WalkInv'
  BY <1>1, <1>2, MaxDepthAssumption DEF WalkInv, WalkType, VisitedBelow, CallsChained, ChildrenHeld, ChildrenAhead
<1>4. \A l \in PublicIds : calls[1].children[l] = IF l \in Under(target) THEN 1 ELSE 0
  BY <1>1, AllVisited DEF WalkInv, ChildrenHeld, HeldBy
<1>5. calls[1].children \in [PublicIds -> Nat]
  BY <1>1, WalkingParts DEF Calls
<1> QED BY <1>1, <1>2, <1>3, <1>4, <1>5 DEF ListOf

\* A chain of children too long for the stack.
LongChain ==
  \E chain \in [1..(MaxDepth + 1) -> PublicIds] :
    /\ chain[1] = target
    /\ \A i \in 1..MaxDepth : parentOf[chain[i + 1]] = chain[i]
    /\ \A i, j \in 1..(MaxDepth + 1) : chain[i] = chain[j] => i = j

LEMMA TooDeepHolds ==
  ASSUME WalkInv, TooDeep
  PROVE  WalkInv' /\ LongChain
<1>1. PICK child \in Running.todo : MayWalk(child)
  BY DEF TooDeep
<1>2. /\ parentOf' = parentOf /\ target' = target /\ visited' = visited /\ outcome' = "failed"
      /\ outcome = "walking" /\ Len(calls) = MaxDepth /\ calls' = <<>>
  BY DEF TooDeep, Depth
<1>3. WalkInv'
  BY <1>2, MaxDepthAssumption
  DEF WalkInv, WalkType, VisitedBelow, CallsChained, ChildrenHeld, ChildrenAhead, Under, ChildrenIn
<1> DEFINE M == MaxDepth
           chain == [i \in 1..(M + 1) |-> IF i = M + 1 THEN child ELSE calls[i].of]
<1>4. child \in PublicIds /\ child \notin visited /\ parentOf[child] = calls[M].of
  BY <1>1, <1>2, WalkingParts DEF MayWalk, ChildrenIn, Running
<1>5. /\ M \in Nat \ {0} /\ calls[1].of = target
      /\ \A i \in 1..M : calls[i].of \in PublicIds /\ calls[i].of \in visited
      /\ \A i \in 1..(M - 1) : parentOf[calls[i + 1].of] = calls[i].of
      /\ \A i, j \in 1..M : calls[i].of = calls[j].of => i = j
  BY <1>2, MaxDepthAssumption, WalkingParts DEF WalkInv, CallsChained
<1>6. chain \in [1..(M + 1) -> PublicIds] /\ chain[1] = target
  BY <1>4, <1>5
<1>7. \A i \in 1..M : parentOf[chain[i + 1]] = chain[i]
  BY <1>4, <1>5
<1>8. \A i, j \in 1..(M + 1) : chain[i] = chain[j] => i = j
  BY <1>4, <1>5
<1> QED BY <1>3, <1>6, <1>7, <1>8 DEF LongChain

LEMMA WalkStepHolds ==
  ASSUME WalkInv, WalkFindsAllBelow, FailsOnlyOnLongChains, [WalkNext]_walkVars
  PROVE  WalkInv' /\ WalkFindsAllBelow' /\ FailsOnlyOnLongChains'
<1>1. CASE Skip
  BY <1>1, SkipHolds DEF Skip, WalkFindsAllBelow, FailsOnlyOnLongChains
<1>2. CASE Descend
  BY <1>2, DescendHolds DEF Descend, WalkFindsAllBelow, FailsOnlyOnLongChains
<1>3. CASE TooDeep
  BY <1>3, TooDeepHolds DEF TooDeep, LongChain, WalkFindsAllBelow, FailsOnlyOnLongChains
<1>4. CASE Return
  BY <1>4, ReturnHolds DEF Return, WalkFindsAllBelow, FailsOnlyOnLongChains
<1>5. CASE Finish
  <2>1. WalkInv' /\ collected' = ListOf(Under(target)) /\ Under(target)' = Under(target) /\ outcome' = "done"
    BY <1>5, FinishHolds DEF Finish
  <2>2. WalkFindsAllBelow'
    BY <2>1 DEF WalkFindsAllBelow, ListOf
  <2> QED BY <2>1, <2>2 DEF FailsOnlyOnLongChains
<1>6. CASE UNCHANGED walkVars
  BY <1>6 DEF walkVars, WalkInv, WalkType, VisitedBelow, CallsChained, ChildrenHeld, HeldBy, ChildrenAhead,
              Under, ChildrenIn, WalkFindsAllBelow, ListOf, FailsOnlyOnLongChains
<1> QED BY <1>1, <1>2, <1>3, <1>4, <1>5, <1>6 DEF WalkNext, Ended

LEMMA WalkHolds == WalkSpec => [](WalkInv /\ WalkFindsAllBelow /\ FailsOnlyOnLongChains)
<1>1. WalkInit => WalkInv /\ WalkFindsAllBelow /\ FailsOnlyOnLongChains
  <2> SUFFICES ASSUME WalkInit PROVE WalkInv /\ WalkFindsAllBelow /\ FailsOnlyOnLongChains
    OBVIOUS
  <2>1. WalkInv
    BY WalkInitHolds, PublicIdsAssumption, MaxDepthAssumption
  <2> QED BY <2>1 DEF WalkInit, WalkFindsAllBelow, FailsOnlyOnLongChains
<1>2. /\ WalkInv /\ WalkFindsAllBelow /\ FailsOnlyOnLongChains
      /\ [WalkNext]_walkVars
      => (WalkInv /\ WalkFindsAllBelow /\ FailsOnlyOnLongChains)'
  BY WalkStepHolds
<1> QED BY <1>1, <1>2, PTL DEF WalkSpec

\* However the parents of the locations are tangled, and in whatever order the
\* children are taken, a walk of get_all_children that ends without an error
\* has collected exactly what is below its location, each location once.
THEOREM WalkFindsAll == WalkSpec => []WalkFindsAllBelow
BY WalkHolds, PTL

\* And only a chain of children too long for the interpreter's stack makes a
\* walk end with an error.
THEOREM FailsOnLongChains == WalkSpec => []FailsOnlyOnLongChains
BY WalkHolds, PTL

\* What LocationTree takes to be below a location is what a walk of the list
\* read in that state collects.
LEMMA WalkOfTheTree ==
  ASSUME PublicIds = LocIds, parentOf = [l \in LocIds |-> locs[l].parent], NEW l \in LocIds
  PROVE  Under(l) = Below(l)
BY DEF Under, Below, ChildrenIn, ChildrenOf
===============================================================================

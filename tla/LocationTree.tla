---------------------------- MODULE LocationTree ----------------------------
(***************************************************************************)
(* The location tree: documents of framework.locations, each with a        *)
(* public_id, the object it stands for and the public_id of its parent.    *)
(* Location routes and object deletions change it from several workers,    *)
(* one database call at a time; only handle_delete_object_location looks   *)
(* for children, and nothing checks that a parent exists or that an insert *)
(* or a move keeps the tree a tree. Saving a type writes its labels to the *)
(* locations of its objects. What a deletion does to the other collections *)
(* is the subject of ObjectDeletion.                                       *)
(***************************************************************************)
EXTENDS Naturals, FiniteSets

CONSTANTS Workers,      \* gunicorn workers
          Objs,         \* objects
          None,         \* no document, no object
          MaxLoc,       \* largest public_id of a location (bound)
          MaxRequests   \* requests that are ever started (bound)

ASSUME NoneAssumption == None \notin Objs
ASSUME LocationBounds == MaxLoc \in Nat /\ MaxRequests \in Nat

Root == 1                   \* the root location, which is never deleted
LocIds == 2..MaxLoc         \* all others
NoLoc == [obj |-> None, parent |-> 0]

VARIABLES
  locs,         \* locations by public_id; NoLoc when there is none
  nextLoc,      \* the next public_id of the counter
  nameless,     \* the location document that has no public_id, or NoLoc
  bare,         \* documents with a public_id, but neither object nor parent
  objs,         \* objects that exist
  req,          \* the request each worker is serving
  started,      \* number of requests so far
  cut,          \* history: locations deleted by a deletion that minds children
  late,         \* history: locations put under one of those too late for it
  ahead,        \* history: locations inserted under an id not given before
  moved         \* history: locations that update_location has moved

db == <<locs, nextLoc, nameless, bare, objs>>
vars == <<db, req, started, cut, late, ahead, moved>>

There(l) == locs[l] # NoLoc
LocationsOf(o) == {l \in LocIds : locs[l].obj = o}
HasLocation(o) == LocationsOf(o) # {} \/ nameless.obj = o
ChildrenOf(S) == {l \in LocIds : locs[l].parent \in S}

\* get_all_children on the locations as they are now: everything below l. The
\* walk the code does is the subject of LocationWalk.
Below(l) == {k \in LocIds : \A S \in SUBSET LocIds :
               (ChildrenOf(S \cup {l}) \subseteq S) => k \in S}

\* What a client may name as a parent: any integer, of a location that is
\* there, that is gone, that is still to be given its id, or none ever.
Parents == 1..MaxLoc

At(w, label) == req[w].at = label
GoTo(w, label) == req' = [req EXCEPT ![w].at = label]

\* Between two requests; how tells what became of the last one.
Idle(how) == [at |-> "idle", last |-> how]
Answer(w, how) == req' = [req EXCEPT ![w] = Idle(how)]

\* Existing objects may have a location, under one given earlier.
Init == /\ objs \in SUBSET Objs
        /\ nextLoc \in 2..(MaxLoc + 1)
        /\ locs \in [LocIds -> {NoLoc} \cup [obj : objs, parent : 1..MaxLoc]]
        /\ \A l \in LocIds : There(l) =>
             /\ l < nextLoc /\ locs[l].parent < l
             /\ locs[l].parent # Root => There(locs[l].parent)
        /\ nameless = NoLoc /\ bare = {}
        /\ req = [w \in Workers |-> Idle("done")]
        /\ started = 0
        /\ cut = {} /\ late = {} /\ ahead = {} /\ moved = {}

\* A worker takes request r.
Begin(w, r) == /\ At(w, "idle")
               /\ started < MaxRequests
               /\ started' = started + 1
               /\ req' = [req EXCEPT ![w] = r]
               /\ UNCHANGED <<db, moved>>

----------------------------------------------------------------------------
(* location_routes.py *)

\* Mutant: the lowest free public_id instead of the counter's next one.
InsertReusingId(o, p) ==
  /\ started < MaxRequests
  /\ \E l \in LocIds : /\ ~There(l) /\ \A k \in LocIds : k < l => There(k)
                       /\ locs' = [locs EXCEPT ![l] = [obj |-> o, parent |-> p]]
                       /\ nextLoc' = IF l = nextLoc THEN l + 1 ELSE nextLoc
  /\ started' = started + 1
  /\ UNCHANGED <<nameless, bare, objs, req, moved>>

\* insert_cmdb_location: one insert under the parent the client names, with
\* the next id. The object may have a location already, or be gone; the parent
\* may be the very id the location gets, or the one its own child will get.
InsertLocation(o, p) ==
  /\ started < MaxRequests /\ nextLoc \in LocIds
  /\ locs' = [locs EXCEPT ![nextLoc] = [obj |-> o, parent |-> p]]
  /\ nextLoc' = nextLoc + 1
  /\ started' = started + 1
  /\ UNCHANGED <<nameless, bare, objs, req, moved>>

\* update_cmdb_location_for_object: 404 without a location of the object.
StartMove(w, o, p) == /\ HasLocation(o)
                      /\ Begin(w, [at |-> "move", obj |-> o, parent |-> p])

\* update_location by object_id: one of the object's documents gets the new
\* parent. When all are gone the update upserts a document without public_id,
\* which the unique index allows once in the collection.
Move(w) ==
  /\ At(w, "move")
  /\ \/ \E l \in LocationsOf(req[w].obj) :
          /\ locs' = [locs EXCEPT ![l].parent = req[w].parent]
          /\ moved' = moved \cup {l}
          /\ UNCHANGED nameless
          /\ Answer(w, "done")
     \/ /\ nameless.obj = req[w].obj \/ (~HasLocation(req[w].obj) /\ nameless = NoLoc)
        /\ nameless' = [obj |-> req[w].obj, parent |-> req[w].parent]
        /\ UNCHANGED <<locs, moved>>
        /\ Answer(w, "done")
     \/ /\ ~HasLocation(req[w].obj) /\ nameless # NoLoc
        /\ UNCHANGED <<locs, nameless, moved>>
        /\ Answer(w, "refused")
  /\ UNCHANGED <<nextLoc, bare, objs, started>>

(* types_routes.py: update_cmdb_type reads the locations of its type's objects
   and writes the type's labels to them, the newest first. *)

StartRelabel(w, S) == /\ \A l \in S : There(l)
                      /\ Begin(w, [at |-> "relabel", rest |-> S])

\* update_location by public_id, which upserts too: of a location deleted since
\* it was read, a document comes back with the labels and nothing else.
Relabel(w) ==
  /\ At(w, "relabel")
  /\ \/ \E l \in req[w].rest :
          /\ \A k \in req[w].rest : k <= l
          /\ bare' = IF There(l) THEN bare ELSE bare \cup {l}
          /\ req' = [req EXCEPT ![w].rest = @ \ {l}]
     \/ req[w].rest = {} /\ Answer(w, "done") /\ UNCHANGED bare
  /\ UNCHANGED <<locs, nextLoc, nameless, objs, started, moved>>

(* Deletions. "unplace" is delete_cmdb_location_for_object, "one"
   delete_cmdb_object, "locations" delete_cmdb_object_with_child_locations,
   "children" delete_object_with_child_objects. loc is the location the
   request works on, below what it has found below it, under their objects. *)

Deletion(label, kind, o) == [at |-> label, kind |-> kind, obj |-> o, loc |-> Root,
                             below |-> {}, under |-> {}, rest |-> {}]

StartUnplace(w, o) == HasLocation(o) /\ Begin(w, Deletion("read", "unplace", o))

StartDelete(w, o) == o \in objs /\ Begin(w, Deletion("read", "one", o))

\* Here the object goes before its locations.
StartDeleteLocations(w, o) == /\ o \in objs /\ HasLocation(o)
                              /\ Begin(w, Deletion("removeFirst", "locations", o))

StartDeleteChildren(w, o) == /\ o \in objs /\ HasLocation(o)
                             /\ Begin(w, Deletion("read", "children", o))

RemoveObjectFirst(w) == /\ At(w, "removeFirst")
                        /\ objs' = objs \ {req[w].obj}
                        /\ GoTo(w, "read")
                        /\ UNCHANGED <<locs, nextLoc, nameless, bare, started, moved>>

\* Mutant: without the early return for an object that has no location.
ReadLocationGoOn(w) ==
  /\ At(w, "read")
  /\ IF LocationsOf(req[w].obj) = {} THEN GoTo(w, "dropOwn")
     ELSE \E l \in LocationsOf(req[w].obj) :
            req' = [req EXCEPT ![w].loc = l, ![w].at = "dropOwn"]
  /\ UNCHANGED <<db, started, moved>>

\* What follows on the location of the object, by the kind of deletion.
WithLocation == [unplace |-> "dropOwn", one |-> "check", locations |-> "collect", children |-> "collect"]

\* get_location_for_object yields any one document of the object; the one
\* without public_id is an error (500), none is an answer of its own.
ReadLocation(w) ==
  /\ At(w, "read")
  /\ \/ \E l \in LocationsOf(req[w].obj) :
          req' = [req EXCEPT ![w].loc = l, ![w].at = WithLocation[req[w].kind]]
     \/ nameless.obj = req[w].obj /\ Answer(w, "refused")
     \/ /\ ~HasLocation(req[w].obj)
        /\ \/ req[w].kind = "unplace" /\ Answer(w, "refused")
           \/ req[w].kind = "one" /\ GoTo(w, "remove")
           \/ req[w].kind = "locations" /\ Answer(w, "done")
           \/ req[w].kind = "children" /\ GoTo(w, "reread")
  /\ UNCHANGED <<db, started, moved>>

\* handle_delete_object_location refuses (405) a location with children.
Check(w) ==
  /\ At(w, "check")
  /\ IF ChildrenOf({req[w].loc}) # {} \/ nameless.parent = req[w].loc
     THEN Answer(w, "refused") ELSE GoTo(w, "dropOwn")
  /\ UNCHANGED <<db, started, moved>>

\* Mutant: the next level only.
CollectNextLevel(w) ==
  /\ At(w, "collect")
  /\ req' = [req EXCEPT ![w].at = "dropBelow", ![w].below = ChildrenOf({req[w].loc})]
  /\ UNCHANGED <<db, started, moved>>

\* handle_delete_location_and_child_locations: read all locations and collect
\* the ones below, delete these, then the object's own.
Collect(w) ==
  /\ At(w, "collect")
  /\ req' = [req EXCEPT ![w].at = "dropBelow", ![w].below = Below(req[w].loc),
                        ![w].under = {locs[l].obj : l \in Below(req[w].loc)}]
  /\ UNCHANGED <<db, started, moved>>

Drop(S) == /\ locs' = [l \in LocIds |-> IF l \in S THEN NoLoc ELSE locs[l]]
           /\ bare' = bare \ S

DropBelow(w) ==
  /\ At(w, "dropBelow")
  /\ Drop(req[w].below)
  /\ GoTo(w, "dropOwn")
  /\ UNCHANGED <<nextLoc, nameless, objs, started, moved>>

DropOwn(w) ==
  /\ At(w, "dropOwn")
  /\ Drop({req[w].loc})
  /\ \/ req[w].kind = "one" /\ GoTo(w, "remove")
     \/ req[w].kind = "children" /\ GoTo(w, "reread")
     \/ req[w].kind \in {"unplace", "locations"} /\ Answer(w, "done")
  /\ UNCHANGED <<nextLoc, nameless, objs, started, moved>>

\* get_child_locations_object_ids, called after all that: it looks the
\* object's location up again, and everything below what it finds.
Reread(w) ==
  /\ At(w, "reread")
  /\ \/ \E l \in LocationsOf(req[w].obj) :
          req' = [req EXCEPT ![w].at = "recollect", ![w].loc = l]
     \/ nameless.obj = req[w].obj /\ Answer(w, "refused")
     \/ ~HasLocation(req[w].obj) /\ GoTo(w, "remove")
  /\ UNCHANGED <<db, started, moved>>

\* The objects of those locations that exist, one after the other.
Recollect(w) ==
  /\ At(w, "recollect")
  /\ req' = [req EXCEPT ![w].at = "removeChildren",
                        ![w].rest = {locs[l].obj : l \in Below(req[w].loc)} \cap objs]
  /\ UNCHANGED <<db, started, moved>>

RemoveChild(w) ==
  /\ At(w, "removeChildren")
  /\ \/ \E o \in req[w].rest : /\ objs' = objs \ {o}
                               /\ req' = [req EXCEPT ![w].rest = @ \ {o}]
     \/ req[w].rest = {} /\ GoTo(w, "remove") /\ UNCHANGED objs
  /\ UNCHANGED <<locs, nextLoc, nameless, bare, started, moved>>

RemoveTarget(w) ==
  /\ At(w, "remove")
  /\ objs' = objs \ {req[w].obj}
  /\ Answer(w, "done")
  /\ UNCHANGED <<locs, nextLoc, nameless, bare, started, moved>>

\* A worker is killed.
Crash(w) == ~At(w, "idle") /\ Answer(w, "killed") /\ UNCHANGED <<db, started, moved>>

----------------------------------------------------------------------------
\* The locations a deletion that minds children is past its look at.
Doomed(w) == IF At(w, "dropBelow") \/ (At(w, "dropOwn") /\ req[w].kind # "unplace")
             THEN req[w].below \cup {req[w].loc} ELSE {}
AllDoomed == UNION {Doomed(w) : w \in Workers}

\* What a step adds to the histories but for moved: the locations deleted by
\* the request that doomed them, those put under doomed or cut ones, and those
\* inserted under an id that is their own or younger.
History ==
  /\ cut' = cut \cup {l \in LocIds : /\ There(l) /\ ~There(l)'
                                     /\ \E w \in Workers : req'[w] # req[w] /\ l \in Doomed(w)}
  /\ late' = late \cup {l \in LocIds : /\ locs'[l].parent # locs[l].parent
                                       /\ locs'[l].parent \in AllDoomed' \cup AllDoomed \cup cut'}
  /\ ahead' = ahead \cup {l \in LocIds : ~There(l) /\ There(l)' /\ locs'[l].parent >= nextLoc}

Start(w) == \/ \E o \in Objs : \/ \E p \in Parents : StartMove(w, o, p)
                               \/ StartUnplace(w, o)
                               \/ StartDelete(w, o)
                               \/ StartDeleteLocations(w, o)
                               \/ StartDeleteChildren(w, o)
            \/ \E S \in SUBSET LocIds : StartRelabel(w, S)

Step(w) == \/ Move(w) \/ Relabel(w) \/ RemoveObjectFirst(w) \/ ReadLocation(w) \/ Check(w)
           \/ Collect(w) \/ DropBelow(w) \/ DropOwn(w)
           \/ Reread(w) \/ Recollect(w) \/ RemoveChild(w) \/ RemoveTarget(w)

Next == /\ \/ \E w \in Workers : Start(w) \/ Step(w) \/ Crash(w)
           \/ \E o \in Objs : \E p \in Parents : InsertLocation(o, p)
        /\ History

Spec == Init /\ [][Next]_vars

----------------------------------------------------------------------------
\* Ids that exist were given by the counter, those of documents without object
\* and parent too, which never stand beside the location itself; and the root is
\* never the location a deletion is about to drop. Parents need not exist.
TypeOK == /\ locs \in [LocIds -> {NoLoc} \cup [obj : Objs, parent : Parents]]
          /\ nextLoc \in 2..(MaxLoc + 1)
          /\ nameless \in {NoLoc} \cup [obj : Objs, parent : Parents]
          /\ \A l \in bare : l \in LocIds /\ l < nextLoc /\ ~There(l)
          /\ objs \subseteq Objs
          /\ \A l \in LocIds : There(l) => l < nextLoc
          /\ \A w \in Workers :
               /\ req[w].at \notin {"idle", "relabel"} => req[w].obj \in Objs
               /\ At(w, "relabel") => req[w].rest \subseteq LocIds
               /\ req[w].at \in {"check", "collect", "dropBelow", "dropOwn"} => req[w].loc \in LocIds
          /\ started \in 0..MaxRequests
          /\ cut \cup late \cup ahead \cup moved \subseteq LocIds

\* A deletion that minds children leaves nothing hanging in the air: what is
\* still under a location it deleted was put there after it had looked, by a
\* request that named a parent without looking.
NothingLeftUnderCut ==
  \A l \in LocIds : locs[l].parent \in cut => l \in late

\* Locations that are below themselves, and so under no root of the tree the
\* user sees, come from a parent that was named without a look: by a move, or
\* by an insert under an id that was not given yet. Whatever else happens, all
\* other inserts cannot close a circle, since no public_id is given twice.
CirclesNeedBlindParents ==
  \A l \in LocIds : There(l) /\ l \in Below(l) => Below(l) \cap (moved \cup ahead) # {}

\* What the docstring of delete_object_with_child_objects says ("Deletes an
\* object and all objects which are child objects of it in the location
\* tree"): when it is answered, the objects whose locations it found below
\* its own are gone.
ChildObjectsDeleted ==
  [][\A w \in Workers :
       (At(w, "remove") /\ req[w].kind = "children" /\ req'[w] = Idle("done"))
         => req[w].under \cap objs' = {}]_vars
=============================================================================

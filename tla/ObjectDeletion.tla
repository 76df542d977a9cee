--------------------------- MODULE ObjectDeletion ---------------------------
(***************************************************************************)
(* Deleting an object and everything that points at it. The routes of      *)
(* objects_routes.py run in the gunicorn sync workers, one request per     *)
(* worker, and change the collections of the database one call at a time,  *)
(* without transactions: between two calls of a request any other worker   *)
(* may run a call of its own, and a worker may be killed.                  *)
(*                                                                         *)
(* A document of the objects collection is reduced to the value of one     *)
(* field of type ref. Webhooks, object logs and the cloud item count leave *)
(* the collections below alone and swallow their errors; they are left     *)
(* out. All objects are of one type, whose active flag (and the user's ACL *)
(* for it) decides verify_access.                                          *)
(***************************************************************************)
EXTENDS Naturals, FiniteSets

CONSTANTS Workers,      \* gunicorn workers
          Objs,         \* public_ids of objects
          NoRef,        \* the empty value of a ref field
          Missing,      \* no document with that id
          MaxRequests   \* requests that are ever started (bound)

ASSUME SentinelsAssumption == /\ NoRef \notin Objs
                              /\ Missing \notin Objs
                              /\ NoRef # Missing
ASSUME MaxRequestsAssumption == MaxRequests \in Nat

VARIABLES
  doc,          \* framework.objects: the ref field of each document, or Missing
  group,        \* assigned_ids of a static object group
  relations,    \* framework.objectRelations, as <<parent, child>>
  place,        \* framework.locations: the object each object is placed under
  assessment,   \* whether each object has a risk assessment
  measures,     \* objects whose assessment has control measure assignments
  open,         \* the type is active and its ACL lets the users through
  relationLog,  \* relations whose deletion is in the object relation log
  req,          \* the request each worker is serving
  started,      \* number of requests so far
  cleaned,      \* history: absent objects some deletion was answered True for
  late,         \* history: traces written while or after their object's deletion
  stranded,     \* history: objects whose assignments lost their assessment
  unseen        \* history: relations no deletion could or did get round to log

data == <<group, relations, place, assessment, measures, open, relationLog>>
db == <<doc, data>>
history == <<cleaned, late, stranded, unseen>>
vars == <<db, req, started, history>>

Refs == Objs \cup {NoRef}
Pairs == {r \in Objs \X Objs : r[1] # r[2]}
Exists(o) == doc[o] # Missing
Present == {o \in Objs : Exists(o)}

\* An object is given a location and an assessment at most once each (bound),
\* so that both can be named by their object.
Located(o) == place[o] \notin {"never", "gone"}
Assessed(o) == assessment[o] = "there"

At(w, label) == req[w].at = label
GoTo(w, label) == req' = [req EXCEPT ![w].at = label]

\* A worker between two requests; how tells what became of the last one:
\* "done", "refused" (an HTTP error) or "killed".
Idle(how) == [at |-> "idle", last |-> how]
Answer(w, how) == req' = [req EXCEPT ![w] = Idle(how)]

\* Any database in which assignments belong to assessments.
Init == /\ doc \in [Objs -> Refs \cup {Missing}]
        /\ group \in SUBSET Objs
        /\ relations \in SUBSET Pairs
        /\ place \in [Objs -> Objs \cup {"never", "root"}]
        /\ assessment \in [Objs -> {"never", "there"}]
        /\ measures \in SUBSET {o \in Objs : Assessed(o)}
        /\ open \in BOOLEAN
        /\ relationLog = {}
        /\ req = [w \in Workers |-> Idle("done")]
        /\ started = 0
        /\ cleaned = {} /\ late = {} /\ stranded = {} /\ unseen = {}

\* A worker takes a request r.
Begin(w, r) == /\ At(w, "idle")
               /\ started < MaxRequests
               /\ started' = started + 1
               /\ req' = [req EXCEPT ![w] = r]

----------------------------------------------------------------------------
(* The deletion of one object (delete_cmdb_object) and of several
   (delete_many_cmdb_objects): ids are the objects asked for, obj the one in
   hand, rest the ones still to come, found the relations to be logged. *)

Deletion(label, kind, S, o) == [at |-> label, kind |-> kind, ids |-> S, obj |-> o,
                                rest |-> S \ {o}, found |-> {}]

\* get_object answers 404 for an object that is not there.
StartDelete(w, o) == /\ Exists(o)
                     /\ Begin(w, Deletion("locate", "one", {o}, o))
                     /\ UNCHANGED db

\* The loop runs over the documents found now; the ids asked for are theirs.
StartDeleteMany(w, S, o) == /\ S \subseteq Present
                            /\ Begin(w, Deletion("locations", "many", S, o))
                            /\ UNCHANGED db

\* handle_delete_object_location: an object without location is done here; a
\* location with children is refused with 405.
Locate(w) ==
  /\ At(w, "locate")
  /\ GoTo(w, IF Located(req[w].obj) THEN "children" ELSE "findAssessments")
  /\ UNCHANGED <<db, started>>

Children(w) ==
  /\ At(w, "children")
  /\ IF \E o \in Objs : place[o] = req[w].obj THEN Answer(w, "refused") ELSE GoTo(w, "unlocate")
  /\ UNCHANGED <<db, started>>

Unlocate(w) ==
  /\ At(w, "unlocate")
  /\ place' = [place EXCEPT ![req[w].obj] = "gone"]
  /\ GoTo(w, "findAssessments")
  /\ UNCHANGED <<doc, group, relations, assessment, measures, open, relationLog, started>>

\* A bulk deletion looks at the locations of all its objects once; any
\* location, and it is refused with 400.
Locations(w) ==
  /\ At(w, "locations")
  /\ IF \E o \in req[w].ids : Located(o) THEN Answer(w, "refused") ELSE GoTo(w, "findAssessments")
  /\ UNCHANGED <<db, started>>

\* delete_object_from_risk_assessment_cascade: find the assessments, delete
\* them, delete their assignments. No assessment, no look at assignments.
FindAssessments(w) ==
  /\ At(w, "findAssessments")
  /\ GoTo(w, IF Assessed(req[w].obj) THEN "dropAssessments" ELSE "verify")
  /\ UNCHANGED <<db, started>>

\* Mutant: the assessments go, their assignments stay.
DropAssessmentsOnly(w) ==
  /\ At(w, "dropAssessments")
  /\ assessment' = [assessment EXCEPT ![req[w].obj] = "gone"]
  /\ GoTo(w, "verify")
  /\ UNCHANGED <<doc, group, relations, place, measures, open, relationLog, started>>

DropAssessments(w) ==
  /\ At(w, "dropAssessments")
  /\ assessment' = [assessment EXCEPT ![req[w].obj] = "gone"]
  /\ GoTo(w, "dropMeasures")
  /\ UNCHANGED <<doc, group, relations, place, measures, open, relationLog, started>>

DropMeasures(w) ==
  /\ At(w, "dropMeasures")
  /\ measures' = measures \ {req[w].obj}
  /\ GoTo(w, "verify")
  /\ UNCHANGED <<doc, group, relations, place, assessment, open, relationLog, started>>

\* After delete_object. The routes ignore its result, False for an object
\* that somebody else has deleted meanwhile.
AfterObject(w) == GoTo(w, IF req[w].kind = "one" THEN "references" ELSE "findRelations")

\* delete_object reads object and type; an AccessDeniedError ends the request.
Verify(w) ==
  /\ At(w, "verify")
  /\ \/ ~Exists(req[w].obj) /\ AfterObject(w)
     \/ Exists(req[w].obj) /\ open /\ GoTo(w, "remove")
     \/ Exists(req[w].obj) /\ ~open /\ Answer(w, "refused")
  /\ UNCHANGED <<db, started>>

Remove(w) ==
  /\ At(w, "remove")
  /\ doc' = [doc EXCEPT ![req[w].obj] = Missing]
  /\ AfterObject(w)
  /\ UNCHANGED <<data, started>>

\* delete_all_object_references. It is the last call of a bulk deletion.
References(w) ==
  /\ At(w, "references")
  /\ doc' = [o \in Objs |-> IF doc[o] \in req[w].ids THEN NoRef ELSE doc[o]]
  /\ IF req[w].kind = "one" THEN GoTo(w, "groups") ELSE Answer(w, "done")
  /\ UNCHANGED <<data, started>>

\* Mutant: the object in hand only.
GroupsOfLast(w) ==
  /\ At(w, "groups")
  /\ group' = group \ {req[w].obj}
  /\ GoTo(w, IF req[w].kind = "one" THEN "findRelations" ELSE "references")
  /\ UNCHANGED <<doc, relations, place, assessment, measures, open, relationLog, started>>

\* remove_ids_from_static_groups.
Groups(w) ==
  /\ At(w, "groups")
  /\ group' = group \ req[w].ids
  /\ GoTo(w, IF req[w].kind = "one" THEN "findRelations" ELSE "references")
  /\ UNCHANGED <<doc, relations, place, assessment, measures, open, relationLog, started>>

\* Mutant: the object taken next is not struck off.
NextObjectKept(w) ==
  \/ req[w].kind = "one" /\ Answer(w, "done")
  \/ req[w].kind = "many" /\ req[w].rest = {} /\ GoTo(w, "groups")
  \/ \E o \in req[w].rest :
       req' = [req EXCEPT ![w] = [@ EXCEPT !.at = "findAssessments", !.obj = o, !.found = {}]]

\* The end of what is done for obj: a bulk deletion takes the next object, or
\* goes on to the groups when there is none.
NextObject(w) ==
  \/ req[w].kind = "one" /\ Answer(w, "done")
  \/ req[w].kind = "many" /\ req[w].rest = {} /\ GoTo(w, "groups")
  \/ \E o \in req[w].rest :
       req' = [req EXCEPT ![w] = [@ EXCEPT !.at = "findAssessments", !.obj = o,
                                           !.rest = req[w].rest \ {o}, !.found = {}]]

\* handle_delete_invalid_object_relations: find, delete by the same query, log
\* what was found.
RelationsOf(o) == {r \in relations : o \in {r[1], r[2]}}

FindRelations(w) ==
  /\ At(w, "findRelations")
  /\ IF RelationsOf(req[w].obj) = {} THEN NextObject(w)
     ELSE req' = [req EXCEPT ![w].at = "dropRelations",
                             ![w].found = RelationsOf(req[w].obj)]
  /\ UNCHANGED <<db, started>>

\* Mutant: what is to be logged is looked up after the deletion.
DropRelationsFirst(w) ==
  /\ At(w, "dropRelations")
  /\ relations' = relations \ RelationsOf(req[w].obj)
  /\ req' = [req EXCEPT ![w].at = "logRelations", ![w].found = {}]
  /\ UNCHANGED <<doc, group, place, assessment, measures, open, relationLog, started>>

DropRelations(w) ==
  /\ At(w, "dropRelations")
  /\ relations' = relations \ RelationsOf(req[w].obj)
  /\ GoTo(w, "logRelations")
  /\ UNCHANGED <<doc, group, place, assessment, measures, open, relationLog, started>>

LogRelations(w) ==
  /\ At(w, "logRelations")
  /\ relationLog' = relationLog \cup req[w].found
  /\ NextObject(w)
  /\ UNCHANGED <<doc, group, relations, place, assessment, measures, open, started>>

DeleteStep(w) ==
  \/ Locate(w) \/ Children(w) \/ Unlocate(w) \/ Locations(w)
  \/ FindAssessments(w) \/ DropAssessments(w) \/ DropMeasures(w)
  \/ Verify(w) \/ Remove(w) \/ References(w) \/ Groups(w)
  \/ FindRelations(w) \/ DropRelations(w) \/ LogRelations(w)

----------------------------------------------------------------------------
(* update_cmdb_object and update_cmdb_object_state: read the document, lay
   the values the client sent over it (Missing: it sent none), check the type,
   write the whole document back. The write upserts (BaseManager.update). *)

StartUpdate(w, o, sent) ==
  /\ Exists(o)
  /\ Begin(w, [at |-> "checkType", obj |-> o,
               value |-> IF sent = Missing THEN doc[o] ELSE sent])
  /\ UNCHANGED db

CheckType(w) == /\ At(w, "checkType")
                /\ IF open THEN GoTo(w, "write") ELSE Answer(w, "refused")
                /\ UNCHANGED <<db, started>>

Write(w) == /\ At(w, "write")
            /\ doc' = [doc EXCEPT ![req[w].obj] = req[w].value]
            /\ Answer(w, "done")
            /\ UNCHANGED <<data, started>>

(* insert_cmdb_object with an id of the client's: no document may have it, the
   type is checked, the document goes in. When the id has been taken meanwhile
   it gets a fresh one instead (see PublicIds), which is none of Objs. *)

StartInsert(w, o, value) ==
  /\ ~Exists(o)
  /\ Begin(w, [at |-> "checkTypeNew", obj |-> o, value |-> value])
  /\ UNCHANGED db

CheckTypeNew(w) == /\ At(w, "checkTypeNew")
                   /\ IF open THEN GoTo(w, "insert") ELSE Answer(w, "refused")
                   /\ UNCHANGED <<db, started>>

Insert(w) == /\ At(w, "insert")
             /\ doc' = [doc EXCEPT ![req[w].obj] = IF Exists(req[w].obj) THEN @ ELSE req[w].value]
             /\ Answer(w, "done")
             /\ UNCHANGED <<data, started>>

(* insert_isms_risk_assessment: the assessment, then its assignments. *)

StartAssess(w, o) == /\ assessment[o] = "never"
                     /\ assessment' = [assessment EXCEPT ![o] = "there"]
                     /\ Begin(w, [at |-> "measures", obj |-> o])
                     /\ UNCHANGED <<doc, group, relations, place, measures, open, relationLog>>

AddMeasures(w) == /\ At(w, "measures")
                  /\ measures' = measures \cup {req[w].obj}
                  /\ Answer(w, "done")
                  /\ UNCHANGED <<doc, group, relations, place, assessment, open, relationLog, started>>

OtherStep(w) == CheckType(w) \/ Write(w) \/ CheckTypeNew(w) \/ Insert(w) \/ AddMeasures(w)

(* Requests that come down to one call here; none of them looks whether the
   objects they name exist. *)

\* One request of one call.
Single == /\ started < MaxRequests
          /\ started' = started + 1
          /\ UNCHANGED <<doc, req>>

\* update_cmdb_object_group writes the assigned_ids the client sends.
SetGroup(S) == /\ Single
               /\ group' = S
               /\ UNCHANGED <<relations, place, assessment, measures, open, relationLog>>

\* insert_cmdb_object_relation.
Relate(r) == /\ Single
             /\ relations' = relations \cup {r}
             /\ UNCHANGED <<group, place, assessment, measures, open, relationLog>>

\* insert_cmdb_location: under the root, or under a location the client has
\* seen, which may have been deleted since.
PlaceUnder(o, p) == /\ Single
                    /\ place[o] = "never"
                    /\ p = "root" \/ (p \in Objs /\ place[p] # "never")
                    /\ place' = [place EXCEPT ![o] = p]
                    /\ UNCHANGED <<group, relations, assessment, measures, open, relationLog>>

\* The type is activated or deactivated, or its ACL changed.
SwitchType == /\ Single
              /\ open' = ~open
              /\ UNCHANGED <<group, relations, place, assessment, measures, relationLog>>

\* A worker is killed (gunicorn's timeout of 120 s, a restart).
Crash(w) == /\ ~At(w, "idle")
            /\ Answer(w, "killed")
            /\ UNCHANGED <<db, started>>

----------------------------------------------------------------------------
(* History: facts about the past that the properties need. *)

\* What points at an object: fields, the group, relations, its location, its
\* assessment and the assignments of that.
Traces ==
  UNION { {<<"ref", doc[p]>> : p \in {q \in Objs : doc[q] \in Objs}},
          {<<"group", o>> : o \in group},
          {<<"relation", r[1]>> : r \in relations},
          {<<"relation", r[2]>> : r \in relations},
          {<<"location", o>> : o \in {p \in Objs : Located(p)}},
          {<<"assessment", o>> : o \in {p \in Objs : Assessed(p)}},
          {<<"measures", o>> : o \in measures} }

Deleting(w) == "ids" \in DOMAIN req[w]
Doomed == UNION {req[w].ids : w \in {v \in Workers : Deleting(v)}}

\* The deletions this step ends in the given way.
Ended(how) == {w \in Workers : Deleting(w) /\ req'[w] = Idle(how)}

History ==
  /\ cleaned' = {o \in cleaned \cup UNION {req[w].ids : w \in Ended("done")} : doc'[o] = Missing}
  /\ late' = {t \in Traces' \cap (late \cup (Traces' \ Traces)) : t[2] \in Doomed' \cup cleaned'}
  /\ stranded' = stranded
       \cup {o \in measures' \ measures : ~Assessed(o)}
       \cup {req[w].obj : w \in {v \in Ended("killed") : At(v, "dropMeasures")}}
  /\ unseen' = unseen
       \cup (IF \E w \in Workers : At(w, "dropRelations") THEN relations' \ relations ELSE {})
       \cup UNION {req[w].found : w \in {v \in Ended("killed") : At(v, "logRelations")}}

Start(w) ==
  \/ \E o \in Objs : \/ StartDelete(w, o)
                     \/ StartAssess(w, o)
                     \/ \E v \in Refs \cup {Missing} : StartUpdate(w, o, v)
                     \/ \E v \in Refs : StartInsert(w, o, v)
  \/ \E S \in SUBSET Objs : \E o \in S : StartDeleteMany(w, S, o)

Step(w) == DeleteStep(w) \/ OtherStep(w)

Call == \/ \E S \in SUBSET Objs : SetGroup(S)
        \/ \E r \in Pairs : Relate(r)
        \/ \E o \in Objs : \E p \in Objs \cup {"root"} : PlaceUnder(o, p)
        \/ SwitchType

Next == /\ \/ \E w \in Workers : Start(w) \/ Step(w) \/ Crash(w)
           \/ Call
        /\ History

\* A worker that is not killed goes on with its request.
Fairness == \A w \in Workers : WF_vars(Step(w) /\ History)

Spec == Init /\ [][Next]_vars /\ Fairness

----------------------------------------------------------------------------
Labels == {"idle", "locate", "children", "unlocate", "locations", "findAssessments",
           "dropAssessments", "dropMeasures", "verify", "remove", "references", "groups",
           "findRelations", "dropRelations", "logRelations", "checkType", "write",
           "checkTypeNew", "insert", "measures"}

TypeOK == /\ doc \in [Objs -> Refs \cup {Missing}]
          /\ group \subseteq Objs
          /\ relations \subseteq Pairs /\ relationLog \subseteq Pairs
          /\ place \in [Objs -> Objs \cup {"never", "root", "gone"}]
          /\ assessment \in [Objs -> {"never", "there", "gone"}]
          /\ measures \subseteq Objs
          /\ open \in BOOLEAN
          /\ \A w \in Workers :
               /\ req[w].at \in Labels
               /\ ~At(w, "idle") => req[w].obj \in Objs
               /\ Deleting(w) => /\ req[w].obj \in req[w].ids
                                 /\ req[w].rest \subseteq req[w].ids \ {req[w].obj}
                                 /\ req[w].found \subseteq Pairs
          /\ started \in 0..MaxRequests

\* When a deletion has been answered True and no other one is at work on the
\* object, whatever still points at it was written while or after it was
\* deleted, by a request that did not look; or it is an assignment that had
\* lost its assessment, which no deletion finds.
DeletionComplete ==
  \A t \in Traces : t[2] \in cleaned \ Doomed =>
    t \in late \/ (t[1] = "measures" /\ t[2] \in stranded)

\* Assignments without assessment come only from a worker killed between the
\* two deletions, or from an assignment inserted after them.
MeasuresHaveAssessment ==
  \A o \in measures \ stranded :
    Assessed(o) \/ \E w \in Workers : At(w, "dropMeasures") /\ req[w].obj = o

\* Relations that are deleted and about to be logged.
Unlogged == UNION {req[w].found : w \in {v \in Workers : At(v, "logRelations")}}

\* A relation that a deletion of its parent or child has taken away goes into
\* the log, unless it came between the look and the deletion or the worker was
\* killed before it wrote the log: until then some worker has it in hand.
TakenRelationsLogged ==
  [][(relations \ relations') \cup Unlogged \subseteq relationLog' \cup unseen' \cup Unlogged']_vars

\* What the docstring of update_cmdb_object says ("Updates an existing
\* CmdbObject with new data"): an update does not create the object. The
\* write upserts, so one that has read the object before its deletion does.
UpdateNeverCreates ==
  [][\A o \in Objs : ~Exists(o) /\ Exists(o)' => \E w \in Workers : At(w, "insert")]_vars

\* What the docstring of delete_with_follow_up says ("Deletes a CmdbObject ...
\* after verifying access and type status and also deletes RiskAssessments"):
\* no assessment is deleted while the type is closed to the users.
AssessmentsGoAfterVerifying ==
  [][\A o \in Objs : Assessed(o) /\ ~Assessed(o)' => open]_vars
=============================================================================

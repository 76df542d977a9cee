# TLA+ models of DataGerry

DataGerry is a CMDB: users define *types*, and keep *objects* of these types
with *locations*, *relations*, *groups*, risk assessments and logs. The backend
(`src/cmdb`) is a Flask application that gunicorn runs in `2 * CPU + 1` sync
workers; its state is in MongoDB. A REST route is a sequence of separate
database calls. There are no transactions, no versions in the documents and no
locks, so two routes may interleave between any two of their calls, and a worker
may be killed between them (gunicorn's `timeout` of 120 s,
`interface/http_server.py`). What keeps the collections consistent with each
other is the order of these calls and nothing else.

The frontend (`src/app`) is an Angular application. Most of it shows an answer of
the backend and sends a form. Three parts keep state of their own that several
events change in any order: the CI explorer (a graph that grows with answers
that come when they come), the session (tokens, rights and timers in tabs that
share one localStorage) and the type builder (a type held twice, in objects that
drag and drop copies).

The models are of these two kinds of consistency: between documents under
requests that interleave, and between what the frontend holds, shows and stores.

Backend paths are relative to `src/cmdb`, with `routes/` for
`interface/rest_api/routes/`; frontend paths are relative to `src/app/src/app`.

## 1. The parts of the system

| Part | State | Operations | What makes it correct |
|---|---|---|---|
| Collection access (`database/mongo_database_manager.py`, `manager/base_manager.py`) | documents with a unique `public_id`, some with a unique name too; a counter per collection | `insert` with retries, `reserve_public_ids` + `insert_many`, `update` (upserts), `delete` | no id is given to two requests; a duplicate key has a cause outside the counter; `insert` answers, and gives up only for such a cause |
| Objects (`objects_routes.py`, `objects_helper.py`, `objects_manager.py`) | objects | insert, update (one, several), state, clean, delete (one, several, with locations, with children) | nothing points at what a finished deletion deleted; edits lose nothing but in a race |
| Versions and logs (`models/cmdb_versioning.py`, `logs_manager.py`) | version of each object; edit, state, delete entries | version after an edit, `insert_log` | the log tells the contents, a version names one content |
| Locations (`locations_manager.py`, `location_routes.py`) | a tree of documents by `parent` | insert, move, delete, `get_all_children` | no orphan and no circle but by parents nobody looked at; none deleted that is not below |
| Object groups (`object_groups_manager.py`) | `assigned_ids` of static groups | write, remove ids | names only objects that exist |
| Object relations and their log (`object_relations_manager.py`) | pairs of objects | insert, delete with an object, log | what was taken away is in the log |
| Relation definitions (`relations_routes.py`) | fields and allowed types | change, delete unless used | instances follow the definition |
| Types, categories, section templates (`types_routes.py`, `types_manager.py`, `categories_manager.py`, `section_templates_manager.py`) | fields, sections, ACL, active flag | insert, update with locations and multi data sections, delete unless used, add/remove template fields | objects have the fields of their type |
| ISMS (`routes/isms_routes/`, `models/isms_model/`) | risk classes, impacts, likelihoods, the matrix, assessments with assignments | limits, matrix recalculation, cascade | assignments have an assessment; the matrix follows the lists |
| Importer (`framework/importer/`) | — | overwrite by delete and insert | an object is never lost |
| Users, groups, rights, ACL | users, groups | deletion of a group with its users | users belong to a group |
| Cached users, cloud limit | a cache beside a service portal | read-modify-write | the cache follows the portal |
| Start-up (`collection_validator.py`, `database_updater.py`) | collections, keys, update version | create with defaults, run updates | a crash at start-up can be repaired by starting again |
| Webhooks, process management, retry decorator | events; child processes | send, start, stop | every subscriber is told; processes stop |
| Media, document templates, reports, options, persons, search, rendering, exporter, OpenCelium | single documents or none | plain storage, reading, formatting, calls to other services | — |
| CI explorer (`framework/object/object-view/graph-editor/`) | nodes, connections, the map of nodes, filters, root, requests on their way | load, filter, change the root, expand, collapse, delete | the picture is that of what was asked last; it is a tree; collapsing undoes expanding |
| Session (`modules/auth/`, `modules/error/`) | localStorage; per tab user, token, rights, timer, dialog | login, rights, renew, time out, log out, 401 | no user by another's rights; a session ends when it should and not before, with a warning |
| Type builder (`framework/type/`) | the type's fields, sections with field objects, names of cards, registry of names | drop, move, copy, rename, remove, save | sections and fields agree; names are unique; the templates used are listed |
| Rest of the frontend | forms | show one answer, send one request | — |

How they interact: routes call managers in the same thread; managers call
`MongoDatabaseManager`; the only thing two requests share is the database.
Deleting an object reaches into locations, assessments, assignments, groups,
relations, the relation log, the `ref` fields of other objects and the object
log; editing one into logs and webhooks; changing a type into all its objects
and locations. The frontend's parts meet the backend by requests only, each with
its answer at some later time or never; the tabs of a browser meet in
localStorage and in the session the backend gave them.

What is hard: a document read in one call and written in a later one (edits,
groups, the matrix); checks made in one call and relied on in a later one (the
children of a location, a given `public_id`, limits, whether a type is used);
routes that stop half way (a 403 or 405 after the first changes, a killed
worker); the order of the calls inside a route; answers that are late, out of order or
for something the user has left; state held in two places. `PROJECT.json` lists these
hazards by line with the properties that cover them.

## 2. The modules

| Module | What it is |
|---|---|
| `IdAllocator` | what a `public_id` counter promises: an id is granted to one request, for all time |
| `PublicIds` | one collection and its counter under `insert`, `insert_many`, `update`, `delete` and crashes; implements `IdAllocator` |
| `PublicIdsProofs` | its theorems |
| `ObjectDeletion`, `MCObjectDeletion` | deletions of one and several objects across the collections, and everything that links to objects meanwhile |
| `ObjectDeletionProofs` | its theorems |
| `LocationTree`, `MCLocationTree` | the location tree, its routes and the deletions that touch it |
| `LocationWalk` | the recursive walk of `get_all_children`, call by call |
| `LocationTreeProofs` | the theorems of both |
| `EditLog` | what the log of edits promises: each entry tells, once, a change that was stored |
| `ObjectEdits`, `MCObjectEdits` | edits and state changes, the version rule and the edit log; implements `EditLog` |
| `ObjectEditsProofs` | its theorems |
| `TypeChanges`, `MCTypeChanges` | a type, its section template and its objects under saves, template changes, cleaning and edits |
| `TypeChangesProofs` | its theorems |
| `TypeBuilder`, `MCTypeBuilder` | the page that builds a type |
| `TypeBuilderProofs` | its theorems |
| `GraphEditor`, `MCGraphEditor` | the CI explorer |
| `GraphEditorProofs` | its theorems |
| `Session`, `MCSession` | the session of a user in the tabs of a browser |
| `SessionProofs` | its theorems |

The modules of the backend share their form. A worker's request is a record `req[w]` with the
label `at` of its next database call (`pc`, `todo`, ... in `PublicIds`); `Begin`
takes a request, each action is one database call with the code up to the next
one, `Answer` ends the request, `Crash` ends it at any label with what it had in
memory lost. An early return or an HTTP error is an `Answer`. Requests that make
one relevant call (inserting a location, writing a group) are one action.
`Mutant:` marks an operator that is a broken variant of the definition after
it: each property is known to fail for one of them.

Some variables are *history*: they record what has happened and no action reads
them. They are needed because most of these properties do not hold
unconditionally, the code has races; the properties say what the *only* ways
to break the plain statement are. For example `late` and `stranded` in `ObjectDeletion`,
`late`, `ahead` and `moved` in `LocationTree`, `crossed`, `stale` and `blind` in
`ObjectEdits`, `callerStored` and `nameHits` in `PublicIds` each record one of these ways at
the step where it happens, so a second way would be a violation. `ways` in the
newer modules is the set of the reasons met so far, each named where it is added.

### 2.1 PublicIds

`stored` are the ids in the collection, `counter` its document in
`datastorage.counter`. `InsertFresh`/`InsertGiven` begin `insert` (with or
without a `public_id` from the caller), `Put` and `PutDuplicate` are
`insert_one`, `Retry` the next round of the loop. `ReserveMany` is
`reserve_public_ids`, and `PutMany` stores one document of the block (`insert_many`
with `ordered=False` is not atomic). `ReadForUpdate`/`Update` is any route that
reads a document and writes it back: `BaseManager.update` passes `add_to_set`
where `update_one` takes `upsert`, so the write creates a document that has
gone. `reserve_public_ids` is one `find_one_and_update`, hence one action.

`Duplicate` is what `insert_one` answers with `DuplicateKeyError`, on whichever index.
Types, users, groups and categories have a unique `name` beside the `public_id`:
`named` is that index, `wants` the name of the document in hand (`NoName` in
collections without the index), `NameTaken` a hit on it. The retry loop does not
tell the two apart, so a taken name makes it draw id after id; `nameHits` counts
these attempts of a request, and `FailureNeedsTakenIds` adds them to the ids that callers stored. An
update that would take another document's name is an error, and is not tried again.

### 2.2 ObjectDeletion

Labels follow `delete_cmdb_object` (`locate`, `children`, `unlocate`,
`findAssessments`, `dropAssessments`, `dropMeasures`, `verify`, `remove`,
`references`, `groups`, `findRelations`, `dropRelations`, `logRelations`) and
`delete_many_cmdb_objects`, which checks locations once, runs the loop from
`findAssessments` to `logRelations` for each object and ends with `groups` and
`references`. Beside them run `update_cmdb_object`(`_state`), the insert of an
object with a given id, the insert of an assessment with its assignments,
writes of a group, inserts of relations and locations, and changes of the
type's ACL or active flag.

Simplifications: a document is the value of its one `ref` field, and the entry
carries its field type (see the hazard at `objects_manager.py:800` for the ones
that do not); an object gets at most one location and one assessment in a
behaviour; a bulk deletion is asked for objects that exist. Webhooks, the object
log and the item count are left out, they change none of these collections and
do not stop the route.

### 2.3 LocationTree

`locs` maps public ids to documents, `nextLoc` is the counter (ids are not
reused, see `PublicIds`). A parent is any integer, on an insert as on a move: one
there, one gone, or an id still to be given, the location's own included. Two of
the writes upsert. `update_location` by `object_id` (a move) creates, when the object's
location has gone, a document without `public_id`, `nameless`; the unique index
lets the collection have one. `update_location` by `public_id` (`Relabel`: saving a type
writes its label, icon and selectability to the locations of its objects, one by one from one
read) creates, when the location has gone, a document with the `public_id` and
these labels and neither object nor parent, `bare`. It is in nobody's way: no query by
object or parent finds it. Four kinds of
deletion share the labels: `delete_cmdb_location_for_object` ("unplace"),
`delete_cmdb_object` ("one"), `delete_cmdb_object_with_child_locations`
("locations", the object goes first), `delete_object_with_child_objects`
("children"). `Below` is the definition of what the deletions collect.

`LocationWalk` is how the code collects it, `get_all_children`: `calls` is the stack of
recursive calls, each with the list it has collected and the children it still has to
come to, `visited` the set all of them share. The list of locations is read once, before the walk, so its
parents are fixed: whatever the requests of `LocationTree` can make of them,
circles and orphans included. A list of locations is the number of times each is in
it; the order the children come in is left open. `TooDeep` is the RecursionError
of a call that does not fit on the interpreter's stack any more, `MaxDepth` the room
there is; the walk's `except Exception` turns it into an error of the deletion, which ends
halfway, as it does for `LocationTree` when its worker is killed.

### 2.4 ObjectEdits

`Read`, `Verify`, `Write`, `Reread` and `Log` are the calls of
`update_cmdb_object` for the head of `rest`; several objects are done one after
the other. `VersionType` is the rule that counts changed fields, with the
comparison `2 * n > |Fields|` of the code. The client's values are laid over the object as
*rendered* (`Rendered`, `Overlay`): of the fields in `Fragile` (references and dates) the renderer may
get no value, because the object they refer to is gone or cannot be read just now, and
shows `None`, which is then stored and logged as the client's change. `lost` are these fields
of a request, any of the fragile ones at each read. `UpdateVersion` raises one number and
leaves the others. The version a client leaves out is the *default of the
schema* (1.0.0), since the schema has filled it in before the route asks for
`data.get('version', current)`. `access` is what ACL and active flag let users
do, looked at in three of the calls. `Unread` stands for
the document a request has not read yet. `log` keeps the entries in the order they
come in; `ReplaysTo(o, f, v)` says what replaying it gives for a field: the value in
the last entry that names the field, or the one at the start if none does. A single
entry can be deleted by a request of its own (`logs_routes.py:286`); no modelled request
reads the log, and its deletion is left out. So are reference sections, whose
fields are rendered from other objects, and multi data sections (see `TypeChanges`).

`EditLog` says less of the documents and nothing of the calls: a client stores what
differs from something the object was, owes the entry of that difference, and tells it once or
never. `ObjectEdits` implements it with `owed` the entry of a worker at `reread` or `log` that
has written an edit.

### 2.5 TypeChanges

One type with an optional global template and one multi data section; `type`, `template`
and `doc` are the documents, a field of an object an entry with or without a
type, counted, since duplicates happen. `SaveType`, `WriteType`, `ReadObjects` and
`WriteObject` are `update_cmdb_type` with `handle_mutli_data_sections`. `StartSaveTemplate`
or `StartDeleteTemplate` to `WriteTypeBack` and `DropTemplate` are the two routes of
the section templates: the type is computed from one read, the objects are gone
through (without the removed fields, then with the new ones), the type is written
last. `Sweep`, `Pull` and `Fill` are the clean route. Objects are inserted from a form
that was filled for the type as it was, edited through their rendering, and
deleted; `DeleteType` follows its count. Any worker may be killed.

`ways` and `since` (the same since the last cleaning) name what has come between: `saved`
(a type saved without cleaning), `stale`, `crossed` (written while another request
was changing things), `halted`, `behind` (a type that had not kept up with its
template), `doubled` (template fields appended to
objects that may have had them, since something had set type and objects apart
before or the type had a field of that name already), `jumbled`, `typeless`. Left out: locations, relations and
reports that name the type, default values, several types, several data sets.

### 2.6 TypeBuilder

`fields` is `typeInstance.fields`, a section's `fields` are the field objects on the
page (or names, after `saveType` has replaced them and failed), `name`, `form`
and `prior` are what the object and its card hold, `known` the registry of
`FieldIdentifierValidationService`. `DropField`, `DropTemplate` put one object into
both lists. `MoveField` puts the copy that drag and drop delivers into both,
`MoveSection` (`ReplaceByCopy`) copies into the section only. `Change` renames the first
field of a name; `RenameField` goes through the page, which checks the name against `known`,
`RenameReference` is the card of a reference, which writes any name into its own object and tells
nobody. `control` is the type of each field: checked, reference or location. `TakeFields` removes by name, `TakeField` by identity. `MayDrag`,
`MayRename`, `IsSaveButtonEnabled` are the locks of the page. The properties hold at any
time, not only while the save button is enabled. A drop and the end of its drag are
one step (no event of the user comes between them). Every Location is called
`dg_location` (`LocationName`); only the `draggable` attribute of its control keeps a second one from
being dropped, and the model does not count on it: a moved card sets it again when
its old view is destroyed, and so does a highlight that comes and goes (an emptied label, a
reference without a type). Left out: order, labels, hidden fields, what a reference refers to,
reference sections, and several global templates (with one, it cannot show that a
listed template missing from the answer takes another one out of the offer, `builder.component.ts:982`).

`FieldsAreShown` counts: each name is shown by as many entries of the sections as there
are fields that have it. `ways` names what the user did that may break a property.
One of these ways, `otherRenamed`, came from planning the proof of `TemplateListed`:
`handleFieldChanges` looks for the field to rename by the card's old name, so a card
whose own field has been given another name renames the first field that bears the old
one now. Sixteen steps lead to a page on which this is the field of the global template,
which no card may rename directly; the run's five steps do not, and an
earlier `TemplateListed` without this way passed it.

### 2.7 GraphEditor

A node is the path of objects by which it was loaded, its side and a number (what
`generateTrueUniqueUid` tells apart); `shown`, `joins` and `mapped` are `nodes`,
`connections` and `nodeInstanceMap`. `loads` and `expansions` are the requests on
their way; `nodesLive` and `joinsLive` say whether the arrays an expansion was
called with are still the ones shown, since JavaScript goes on writing to the old
ones. `Ask`/`Paint`/`LoadFails` are `loadInitialGraph` with `paintInitial`,
`ExpandNodeInstance`/`Attach`/`ExpansionFails` the two halves of an expansion,
`skip` the flag `skipBackendEdgesDuringExpansion`. The page around it has the object
of the route (`rootInput`) and a navigation under way (`nav`), which
`onRootNodeSelected` starts or not, and which ends or fails: the resolver passes on the error of
`getObject`, and the page keeps its object (`unresolved`). `selected` is the node the context menu
and the keyboard act on; nothing clears it when a new graph is painted, so `ExpandNodeInstance` may
expand a node of an earlier graph into the arrays of this one (`stale`). `Related` is the
server's side, the neighbours that pass the filter. The loader covers the page only after a
second, so any click may come while requests are on their way.

### 2.8 Session

`stored` and `storedRights` are localStorage, the rest is per tab. `Logout` is
`AuthService.logout` with what follows it (timer, page), and every cause of it is an
action: the menu, the guard, the timer, a 401. Which page a tab shows is left open: a
tab without a session is at the login page, one with a session there or in the application, as
the user goes. The login page has no guard, so a tab that starts there without a token
(`StartAtLogin`) keeps the rights it reads; a start in the application (`StartInside`), or a link
into it (`GuardRefuses`), meets `AuthGuard`, which clears them. The backend answers 401 to a token that is missing or has expired
(`Unauthorized`) and to a good one whose user is gone or cannot be looked up (`UserNotFound`);
either logs out. `Store` is the
answer to a login or a renewal. The timer is the deadline it runs for; a tick is
`TimesOut`, `Notifies` or `CountsDown`. One unit of time is the threshold of the
notification (15 minutes), `Life` is the lifetime of a token. `tick` records what the
timer has done in the unit (`missed` for a tab that slept), `mixed` the tabs whose
rights came from somewhere else. A closed page or a reload drops the requests of
that tab.

## 3. The runs

TLC with two workers; times are from a small machine.

| Run | Bounds | States | Shows |
|---|---|---|---|
| `public_ids` | 2 requests, callers name ids 1 and 2, one unique name, 3 attempts, blocks of 2, new work below counter 3 | 463 475 | `ReservedExclusive`, `CounterCoversStored`, `CollisionsComeFromCallers`, `FailureNeedsTakenIds`, `InsertAnswers`, refinement of `IdAllocator` |
| `object_deletion` | 2 workers, 2 objects, 3 requests | 514 162 | `DeletionComplete`, `MeasuresHaveAssessment`, `TakenRelationsLogged` |
| `update_creates` | same module, 2 requests | — | counterexample to `UpdateNeverCreates` |
| `assessments_before_verify` | same module | — | counterexample to `AssessmentsGoAfterVerifying` |
| `location_tree` | 2 workers, 2 objects, 3 locations beside the root, 3 requests | 77 771 | `NothingLeftUnderCut`, `CirclesNeedBlindParents` |
| `location_walk` | every list of at most 5 locations, with any parents, and every start; room for 3 calls | 410 715 | `WalkFindsAllBelow`, `FailsOnlyOnLongChains` |
| `child_objects` | one request | — | counterexample to `ChildObjectsDeleted` |
| `object_edits` | 2 workers, 1 object, 3 fields, one of them a reference that may be lost, requests naming the object once or twice, 3 turns | 711 675 | `LogTellsFields`, `VersionNamesFields`, `UnsentKept`, refinement of `EditLog` |
| `type_changes` | 2 workers, 2 objects, an own and a template field, 3 fields of a multi data section, 2 requests | 1 420 363 | `ObjectsFitType`, `SectionDataFits` |
| `type_builder` | 4 field objects, 5 names (those of the template, the global template and locations among them), 3 sections, 5 steps, from an empty type and from one with a global section | 1 487 155 | `SectionsNameFields`, `FieldsAreShown`, `IdentifiersUnique`, `TemplateListed` |
| `graph_editor` | 3 objects in a circle of relations, 2 filters, 4 clicks beside collapsing, 2 loads on their way at once | 1 881 779 | `RootIsChosen`, `FilterHolds`, `ShownIsTree`, `CollapseIsExact` |
| `session` | 2 tabs, 2 users, a life of 2 units, 4 units of time, 2 logins or renewals, 1 data request at a time | 567 729 | `RightsAreOwn`, `EndsInTime`, `WarnedBefore`, `ExpiredSessionEnds` |

Why the bounds are enough to meet the interesting cases. Every race listed
is between *two* requests, and a third request (`MaxRequests`) or turn sets up
the state they race on or uses what they left. In `public_ids` the attempts are
three so that a request can fail after meeting its caller's id and another one, or a
taken name before or after a taken id; the ten attempts of the code differ only in length,
which the theorems show. One name is enough for a collision of names, also between an
insert and an update. `object_deletion` starts with all links in place, so
that each call of a deletion has something to do, and in the type's open state;
two objects are enough for references, relations and the loop of a bulk
deletion. `location_tree` starts with two levels below the root and a fourth
document free: the smallest tree where a deletion has a grandchild to collect, a
move can close a circle, an insert can come late or name its own id, and a
location read for its labels can be gone when they are written. In `location_walk` five locations
make a circle with branches that is longer than the stack, and one that is not;
`PublicIds` and `MaxDepth` are bounds of the model, the latter for Python's recursion limit. Three fields give one
change of each version type, and the lost reference makes a change of one field one of two. `MaxId`, `MaxBlock`, `MaxRequests`, `MaxLoc`,
`MaxIds` and `MaxTurns` are bounds of the models, not of the code; `MaxRetries`
is the code's `MAX_DUPLICATE_KEY_RETRIES`.

In `type_changes` the initial states are all types over the fields given, with
objects that fit or that miss one data field, and data sets in any order (what
earlier saves leave behind), so that two requests are both free to race; the
same properties were also checked with three requests, one object and two data fields.
Three data fields are the fewest whose deletion by index goes wrong in the
middle. In `type_builder` five steps are enough to move a section, rename, remove
and save; the type opened for editing has one section of each kind that matters.
The circle of relations in `graph_editor` has every object as parent and as child
and lets an expansion meet the root's object again; four clicks make two loads
and two expansions cross with a change of root or filter, or select a node, change the root
and expand the node selected; two loads at once
can be answered in either order. In `session` two logins
give a second session while a tab still holds the first, and four units of time
let a session run out after having been renewed. Until the first login nothing tells tabs, users or
times apart, so `MCSession` fixes who logs in first, and when. `MaxSteps`, `MaxClicks`, `MaxLoads`,
`MaxNow`, `MaxPosts` and `MaxFetches` are bounds of the models.

Deadlock is not checked where
behaviours end because requests, clicks or time are bounded; it is checked in `public_ids` and
`location_walk`.

What the passing properties say:

- `ReservedExclusive`, `CounterCoversStored`, `CollisionsComeFromCallers`: the
  counter alone never causes a duplicate key; collisions need a caller who
  stored an id that the counter had still to reach. `FailureNeedsTakenIds`: `insert` gives up only
  if as many ids were stored by callers as it has attempts, but for one and for those
  it lost to a taken name. `InsertAnswers` says the loop ends.
- `DeletionComplete`: when a deletion has been answered and no other is at work
  on the object, what points at the object was written during or after the
  deletion by a request that did not look, or is an assignment orphaned earlier.
- `MeasuresHaveAssessment`: an assignment without assessment comes only from a
  worker killed inside the cascade or an assignment stored after it.
- `TakenRelationsLogged`: a relation that a deletion takes away is in some worker's
  hand until it is in the log, unless it came after the look or the worker died.
- `NothingLeftUnderCut`, `CirclesNeedBlindParents`: orphans come from requests that name
  a parent after a deletion has looked; circles from moves, and from inserts under an id
  that was not given yet, only.
- `WalkFindsAllBelow`, `FailsOnlyOnLongChains`: the walk collects exactly what is below its
  location, each location once, although visited locations are skipped and
  whatever circles there are; only a chain of children that is too long makes it fail.
- `UnsentKept`, `LogTellsFields`, `VersionNamesFields`: an edit overwrites what
  its client did not send only if another write came between its read and its
  write, or stores the `None` of a reference or date it could not render; the log replays to the document unless writes crossed or an entry was
  lost; one version with two contents needs a write that started from another
  version than the object's. `ImplementsEditLog`, without any exception: no entry tells a
  change that was refused or not made, and none is told twice.
- `ObjectsFitType`: at rest objects have the fields of their type once they were
  cleaned after the last change of it; what else can set the two apart is a
  stale or crossing write, a request halted half way, or a template changed
  since the type was loaded. No field is there twice but for such a crossing,
  and an object without type was inserted between the count and the deletion.
- `SectionDataFits`: saving a type brings the data sets in line without cleaning,
  unless names are deleted by index in another order than the data has them.
- `SectionsNameFields`, `FieldsAreShown`, `IdentifiersUnique`, `TemplateListed`: at any time sections and fields agree, names are
  different and the template is listed, but after the
  steps named (a copied section, a field renamed or removed after its section
  was moved, a card that renames another one's field, a multi data section removed,
  a section removed after a failed save, an earlier or unregistered name, a reference named unchecked,
  a second location, a template handled before the templates came).
- `RootIsChosen`, `FilterHolds`: at rest the graph is that of the root chosen and the
  filter applied last, unless loads failed or were answered out of order, an
  older navigation was not cancelled, the object chosen could not be resolved, or a node selected
  in an earlier graph was expanded into this one. `ShownIsTree`, `CollapseIsExact`: the nodes shown
  are a tree with one root and collapsing removes exactly what hangs below, unless nodes were
  deleted or answers met arrays that had been replaced.
- `RightsAreOwn`: a tab shows a user's menu by that user's rights, but for rights that
  came late, were still there at a login or were read from a localStorage where two tabs, or a late
  answer after a logout, had written. `EndsInTime`:
  a live session is ended by a click, by a tab or a request of another
  session, or because the backend did not find the user of a good token. `WarnedBefore`: nobody who was awake is logged out unwarned.
  `ExpiredSessionEnds`: an expired session ends or is renewed.

Three runs show what the code does against its own documentation:

1. `update_creates`: `BaseManager.update` upserts (`base_manager.py:493`), so an
   update creates the object that has been deleted since it was read.
2. `assessments_before_verify`: a refused deletion has deleted the risk
   assessments (`objects_manager.py:769` before `:771`).
3. `child_objects`: the deletion of an object with its child objects deletes no
   child object, since it drops the locations before it looks the objects up
   (`objects_routes.py:1312`, `:1314`).

Eight more disagreements were met while modelling. Numbers 4 and 8 are
steps of the models; the properties have to except the others:

4. `update_minor` does not reset the patch number its docstring says it resets
   (`models/cmdb_versioning.py:110`, `:115`; `UpdateVersion` in `ObjectEdits`).
5. `delete_mds_field_entries` deletes indexes in reverse order of the *names*
   (`manager/types_manager.py:462`), where its docstring promises the order that
   keeps indexes valid: it deletes a wrong entry or raises (`jumbled`).
6. `removeSection` leaves the fields of a multi data section in the type
   (`framework/type/builder/builder.component.ts:590`, `multiRemoved`).
7. `removeField` leaves the field in the type when its section was moved
   (`builder.component.ts:623`, `copyRemoved`).
8. The renewal dialog says "Session renewed!" on a list of subscriptions, for which
   nothing is stored (`modules/auth/services/auth.service.ts:148`).
9. `insert` is documented to retry "on duplicate public_id"; it does on any duplicate key, and
   draws ten ids in vain for a taken name (`database/mongo_database_manager.py:364`, `:392`, `nameHits`).
10. The card of a reference asks for "a unique field identifier"
   (`framework/type/builder/configs/special/ref-field-edit.component.html:36`) and checks
   nothing (`ref-field-edit.component.ts:246`, `unchecked`).
11. The card of a location keeps a second location from being dropped
   (`framework/type/builder/configs/special/location-field-edit.component.ts:177`) only until it is
   moved (`:130`) or a highlight comes and goes (`builder.component.html:123`, `nextLocation`).

## 4. Fairness

`PublicIds!Spec` has weak fairness of `Step(c)` for each request: a worker that is
not killed goes on with the request it is serving, as it runs one request at a
time to its end. There is no fairness for starting requests, nor for crashes.
`InsertAnswers` rests on it. `ObjectDeletion` states the same for its workers,
but no property there needs it.

`Session!Spec` has weak fairness of `Tick(t)` for each tab: the interval of a running
timer fires every second for as long as it is subscribed, and `Tick(t)` is
enabled only then. There is none for the user, the answers or time.
`ExpiredSessionEnds` rests on it, and says that a tab with a session always has a
timer that runs, with the deadline of that session; it would fail if a login or a
renewal crossing with other answers could leave the tab without one. A tab that
sleeps forever is a behaviour without that fairness, and is not meant.

The runs of the other modules check safety only: a request of the frontend may
stay without answer, and nothing promises that a user goes on.

## 5. What is proved

Eight modules of proofs are checked by TLAPS without anything left open; each
theorem holds for every value of the constants that the named ASSUMEs of its module
allow. `PublicIdsProofs`, for *every* set of clients, every set of caller ids and all
bounds:

- `IdInvariant`: `Spec => []IdInv`, where `IdInv` is `TypeOK`, `ReservedExclusive`,
  `CounterCoversStored`, `CollisionsComeFromCallers`, and three facts that make them
  inductive: reserved ids lie in `1..counter` (`HeldCounted`; so a new block,
  which lies above the counter, meets nobody's ids), only a first `insert_one`
  carries a caller's id (`CallersOnlyPut`; after a collision the id is the
  counter's), and a document about to be upserted is known to the counter or to
  a caller, and is in nobody's hand unless a caller stored it (`UpdatesKnown`;
  else the upsert would create a collision or a document above the counter).
  `ReservedExclusiveAlways`, `CounterCoversStoredAlways`,
  `CollisionsComeFromCallersAlways` and `TypeCorrect` follow.
- `FailureNeedsTakenIdsAlways`, from `CollisionInvariant`: the ids an insert draws
  grow, so the collisions on ids it has met lie on different stored-by-caller ids
  *below the one in hand* (`CollisionsMet`), except perhaps the first, which may
  have been on the caller's own id; all other attempts were lost to a taken name
  while the id was free, and `nameHits` has counted them. It needs `callerStored` to be finite and the
  cardinality of `callerStored \cap 1..n` to grow with `n`.
- `AllocatorRefinement`: `Spec => ImplementsAllocator`, with `given` mapped to
  `1..counter` and `held` to the reserved ids: a reservation is a `Grant`, storing
  some or all of a block, finishing and crashing are a `Drop`, everything else
  stutters.

The assumptions used are the module's ASSUMEs: caller ids are positive, the
number of attempts is positive, bounds are natural numbers, `NoName` is no name. The bounds `MaxId` and
`MaxBlock` play no part in the arguments.

`ObjectDeletionProofs`, for every set of workers and objects and any number of
requests:

- `TypeCorrect`: `Spec => []TypeOK`. `TypeOK` says too little of the requests to be
  inductive; `TypeInv` gives the record a worker has at each label (`Deletions`,
  `Writes`, `Assessings`, `Idles`).
- `MeasuresHaveAssessmentAlways`: inductive together with `TypeInv`. Only
  `DropAssessments` takes an assessment away, and its worker is then the one at
  `dropMeasures`; only `AddMeasures` adds assignments, and the history notes those
  that came too late; a worker that leaves `dropMeasures` otherwise was killed.
- `TakenRelationsAreLogged`: `Spec => TakenRelationsLogged`, from `RelationsFound`: a
  worker before its deletion of relations has found all that are there, but for
  those that came since. It holds since the label is entered only by the look
  (`EntersDropRelations`) and any relation added while a worker is there is noted.

- `DeletionIsComplete`: `Spec => []DeletionComplete`, from `DeletionInv`. `Passed(r, k, o)`
  says for each label which kinds of links to `o` the deletion `r` has taken away or
  seen to be absent; `DeletedSoFar` says that none of these is left but the excused
  ones, `CleanedExcused` the same for the objects whose deletion was answered (which
  is `DeletionComplete` with one more excuse: assignments that another deletion has in
  hand at `dropMeasures`; the property speaks of objects no deletion is at work on).
  Each step either takes a link away, adds one that the history notes as late
  because a deletion of its object is under way or done, or moves on past calls that
  the label accounts for. `KindsFit` is needed since the deletion of one object and
  the loop of a bulk deletion share labels: only the first handles a location.

The only assumptions used are that the bound on requests is a natural number, whose
value plays no part, and that the values standing for no document and no reference
are not ids.

`LocationTreeProofs`, for any workers and objects and a tree of any size:

- `TypeCorrect`: `Spec => []TypeOK`, from `TypeInv`, which gives the shape of a request at
  each label, and `BareOK` the documents that a saved type's labels create: they stand at
  ids given before, and never beside a location. Every action is first shown to be one of
  seven kinds of steps (`Calm`, `Moves`, `Collects`, ...), and the theorems below go by these.
- `CirclesComeFromBlindParents`: `Spec => []CirclesNeedBlindParents`. `ParentsOlder` (a parent has a
  smaller id than its child unless the child was moved, or inserted under an id not given
  yet) is inductive, since ids are given out in order. If none of those is below a location, what is
  below it is younger, so it is not below itself (`NoCircle`).
- `NothingLeft`: `Spec => []NothingLeftUnderCut`, from `CutInv`: past its look at the children
  a deletion knows every location below those it is to delete, but for the ones
  noted as late (`KnownBelow`).

and about `LocationWalk`, for any set of locations with any parents and any size of the stack:

- `WalkFindsAll`: `WalkSpec => []WalkFindsAllBelow`, and `FailsOnLongChains`:
  `WalkSpec => []FailsOnlyOnLongChains`, both from `WalkInv`. Each location is called for
  once, so the children of what is visited are in the list of one call, once
  (`ChildrenHeld`); each child of what is visited is visited or still ahead of some call
  (`ChildrenAhead`), so at the end what is visited is closed under children; and the
  calls on the stack are for a chain of different locations (`CallsChained`), which
  is the long chain when the stack is full. `WalkOfTheTree` joins the two modules:
  what `Collect` of `LocationTree` takes is what a walk of the list read in that state collects.

`ObjectEditsProofs`, for any workers, objects, fields and values and requests that name
any number of objects:

- `TypeCorrect`: `Spec => []TypeOK`, from `TypeInv`.
- `UnsentStaysKept`: `Spec => UnsentKept`, from `Current`: a worker at `verify` or `write`
  whose object nobody has written since has in `old` what the document is now, and
  what it is to write differs from it in the fields sent and the fields lost only.
- `VersionsNameFields`: `Spec => []VersionNamesFields`, from `VersionsInv`: an object that was never
  written from a version it had no more has its greatest version now, compared
  number by number (`UpTo`). A write raises one number, so its version is new.
- `LogTells`: `Spec => []LogTellsFields`, from `LogInv`: of an object on which nothing crossed
  at most one request has written without having logged, and the log then tells what
  this request had read, so its entry brings it up to date.
- `EditLogRefinement`: `Spec => ImplementsEditLog`. A write is a `Store` (`WriteStores`): by
  `VersionsInv` the document its worker has read is one the object has had, so its entry is the
  difference that `EditLog` asks for. The log is a `Tell` or, if the entry gets lost, a `Forget`, as
  a refusal or a crash is; all else stutters.

Assumed: fields are finitely many (the version rule counts them), `None` is a value a field may have, what clients send
has the form of a document in part, and the bound on the objects of one request is
at least one.

`TypeChangesProofs`, for any workers, objects and fields and any number of requests:

- `ObjectsFit`: `Spec => []ObjectsFitType`, whose three parts have an invariant each, beside
  `TypeInv`. `HasTypeInv`: objects without type are noted. `FitInv`: as long as nothing
  named came between, all objects have the fields of the type, or some request *owns*
  them, that is, it is changing things and will bring them in line. `ObjectsFor`,
  `PlanFits` and `SweepFits` say how far each owner has come: what the objects
  in hand will be, which are done, and that the type to be written last is the one
  they are done for. Two owners at work are each other's excuse (`OtherOwner`), as the
  write of the first is noted as crossed by the second. `OnceInv`: no field is there twice.

Working out `OnceInv` showed that an earlier form of the property was too strong: with
a type that had already been set apart from its objects, a template change appends
fields they may have. Four requests and a killed worker are needed, more than the
run's bound, and TLC confirmed it with these; `doubled` now names this way too. Assumed: own and
template fields differ, and the values for "gone" and "unused" are no types and no
sets of fields (`SentinelsAssumption`).

- `SectionDataFitsAlways`: `Spec => []SectionDataFits`, from `DataInv`: as long as nothing
  named came between, each data set has the fields of the section, once each, or a save
  owns them from its write of the type on, and then (`DataProgress`) has in hand what brings the
  remaining ones in line. The heart of it is `UpdatedData`: appending the new names and deleting
  the removed ones by the indexes found before, from the last name to the first, leaves
  the names of the new section, if the names stand in that order in the data set. Its
  lemmas say what `Kept` (the filter of a list), appending, and one deletion by index
  do to a list without duplicates (`KeptParts`, `Appending`, `RemovedAt`), and that a
  deletion leaves the places before it as they are, so that indexes deleted from
  the end stay valid (`DeletedFromTheEnd`). As no induction theorem of the library can be used,
  inductions go through the least number of a set (`InductionUpTo`, from `LeastNumber`).

`GraphEditorProofs`, for any finite set of objects with any relations, types and filters,
any number of clicks and any number of requests at once:

- `TypeCorrect`: `Spec => []TypeOK`, from `TypeInv`. Nodes get numbers that no node in use
  has (`FreshIsNew`: there is one among the first `Cardinality(used) + 1`), so the
  number of a node tells it from those of the same path; the counter of requests is
  that of the loads and expansions under way.
- `RootIsChosenAlways`, `FilterHoldsAlways`: from `PictureInv`. The last request asks for the
  root and the filter in force (`LastAsked`); loads asked before a late one are
  late (`LateDown`); and once the last one has been answered or has failed, what is
  shown, and every expansion that still writes to what is shown, is of that root and
  filter, or an older answer that came later was noted as crossed, or the expansion of a
  node of an earlier graph as stale. `RootAhead` says where the page is going: to the object chosen,
  unless a navigation to another one was not cancelled or one has failed.
- `ShownIsTreeAlways`: from `TreeInv`: one root; no two nodes in one place; every other node
  hangs on the one it was loaded from; a node that was not expanded has nothing
  below it (`Leaves`), nor has one whose expansion is under way (`Growing`), so that the
  answer cannot put a second copy there. A node selected earlier may be in neither array; nodes get
  numbers that differ from its own too.
- `CollapseTakesWhatHangsBelow`: `Spec => CollapseIsExact`. The search for descendants goes by
  rounds over the connections, as many as there are; the proof shows that what it
  finds lies below (`DescendantsClosed`, by induction over the rounds), and that it
  misses nothing (`DescendantsComplete`): a missed node with the shortest path hangs
  on one that was found, and the rounds suffice since each that finds
  something uses up a connection. Both inductions go through the least number of a
  set (`LeastNumber`, from the well-foundedness of `<` on the natural numbers), as
  the library's induction theorems take an operator.

Assumed: relations join objects, the start is one, the empty filter is among the
filters, and the objects are finite, as those of an answer are.

`TypeBuilderProofs`, for any finite set of field objects and sections, any names, any type
in order to begin with, and any number of steps:

- `TypeCorrect`: `Spec => []TypeOK`, from `TypeInv`. The list of fields holds no object
  twice (`ListOK`), and an object is on one card at most, in one section (`SectionsOK`); each has a
  type (`ControlOK`), which only a reference's or a location's card makes use of.
  One lemma per kind of step says what it does to the sections, the list, the cards
  and the names (`RemoveFieldShape`, `MoveSectionShape`, ...), and the theorems below
  go by these. That there are objects for the copies of a section, and a list of what
  is left in order, is shown from the cardinalities (`InjectionExists`, `Ranks`,
  `OnlyKeeps`).
- `IdentifiersUniqueAlways`: `Spec => []IdentifiersUnique`, from `IdentInv`: a name taken by a
  field is taken again only in one of the ways named. A checked name is not in the registry, or a field that has it all the
  same is noted as `notKnown`; what is not checked (a reference, a location, the global template) notes that
  the name was taken.
- `TemplateListedAlways`: `Spec => []TemplateListed`, from `TemplateInv`: there is one section of
  the template at most, the template is offered if it is not listed, and before the
  templates have come its section is one of the opened type, whose fields the page
  does not rename.
- `SectionsNameFieldsAlways`, `FieldsAreShownAlways`: from `CountInv`, which counts for each
  name the cards and entries that show it (`Shows`) and the fields that have it (`Has`):
  the first are no more than the second (`CountLE`), and as many but for further ways
  (`CountEQ`). Both properties follow, and unlike them the counts are inductive: a
  section is removed with as many fields of a name as it has cards of it, whichever
  fields these are (`WithoutTakes`, `RemoveSectionCounts`), a moved section has copies in place
  of its cards (`MoveSectionEven`), and a failed save puts one entry in place of each
  card since no section shows a name twice then (`SaveFailsEven`).

Assumed: objects and sections are finitely many, objects are no names, and the opened
type is as the builder leaves one: a field in one section, the template in one at
most, with its field (`BaseAssumption`).

`SessionProofs`, for any tabs and users, any lifetime of a token above the threshold
and any bounds:

- `TypeCorrect`: `Spec => []TypeOK`. `TypeOK` is inductive as it stands, since it says that
  the deadline a timer runs for is the expiry of the tab's own token; the proof
  splits it into sessions, views and requests, so that each action is shown to keep
  the parts it touches.
- `RightsAreOwnAlways`: `RightsAreOwn` is inductive with `TypeOK`. All logouts go through
  one lemma (`LogoutOwn`), all answers to logins and renewals through another
  (`StoreOwn`).
- `EndsInTimeAlways`: from `TypeOK`, by going through the steps that can empty
  localStorage (`EndingStep`). A timer that logs out has run down, so its token is not the live
  one stored; a start or a guard that logs out finds no session in its tab, and a request with the
  stored token is refused only for its user.
- `WarnedBeforeAlways`, from `TickInv`: before its tick in a unit of time a timer's
  deadline is ahead, after it (without a warning) it is ahead by more than the
  threshold, and whoever is notified has been warned by this timer. So the unit
  in which the deadline passes cannot be reached awake and unwarned.

The assumptions used are that a token lives longer than the threshold, that bounds
are natural numbers and that `None` is neither a user nor a token.

Only model-checked: the liveness properties `InsertAnswers` and `ExpiredSessionEnds`
(TLAPS does not do fairness). That the code's rules give the three counterexamples is
TLC's finding alone.

## 6. Not modelled

Categories, changes of relation definitions, ISMS limits and matrix, imports,
users and groups, start-up and process management are left to later modules
(below). Webhooks and OpenCelium are calls to the outside; rendering, search,
exporter and report queries only read; media, templates for documents, options
and persons are plain storage through the calls `PublicIds` models. Network
errors end a request with 500 where they occur, as a crash does; the retry
decorator mostly never sees them.

Of the frontend, which is by far the larger part of the code, most is tables,
forms and dialogs with their templates and services: they load, show, and send
one request on a click. Their state is that of a form, and what matters of them to the
backend is that a client may send any request at any time, which the backend's
models let it do. A model of each would restate its assignments. Of the parts
modelled, layout, drawing and labels are left out.

## 7. Plan

Done: `PublicIds` (first, since everything is stored through it), `ObjectDeletion`,
`LocationTree` and `LocationWalk`, `ObjectEdits`, `TypeChanges`, `TypeBuilder`, `GraphEditor`, `Session`.

Next modules:

1. `RiskMatrix`: limits by count-then-insert, recalculation of the matrix, changes
   of an assessment with its assignments.
2. `StartUp`: collection validator and database updater with crashes and two
   servers; default data present after any successful start.
3. `Imports` and deletion of groups with users; object loss between deletion and
   insertion.

Every invariant and action property of the runs is proved. An abstract specification worth
stating: an object store whose deletion is atomic (for `ObjectDeletion` without
linking requests).

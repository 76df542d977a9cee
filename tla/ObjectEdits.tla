----------------------------- MODULE ObjectEdits -----------------------------
(***************************************************************************)
(* Editing objects: update_cmdb_object (one object or several with the     *)
(* same change) and update_cmdb_object_state. Both read the document, lay  *)
(* the change over it (an edit over the document as it is rendered, where  *)
(* a reference that cannot be resolved has become None), write the whole   *)
(* document back, read it again and log the change, in calls of their own; *)
(* nothing tells a writer that the document has changed since it was read. *)
(* The objects are of one type and stay; that a write may bring a deleted  *)
(* one back is shown in ObjectDeletion. Values are abstract; sections with *)
(* multiple data, sections that show another type's (an edit drops their   *)
(* field when that type is gone), times and the deletion of log entries    *)
(* are left out.                                                           *)
(***************************************************************************)
EXTENDS Naturals, FiniteSets, Sequences, TLC

CONSTANTS Workers,      \* gunicorn workers
          Objs,         \* public_ids of objects
          Fields,       \* field names of the type
          Fragile,      \* those that hold a reference, or a date as a text
          Values,       \* field values
          None,         \* the value of a field without one
          Sends,        \* field values and active state that a client may send
          NotSent,      \* the client left it out
          Unread,       \* a request has read no document yet
          MaxIds,       \* objects one request names (bound)
          MaxTurns      \* objects all requests together name (bound)

ASSUME FieldsAssumption == IsFiniteSet(Fields) /\ Fragile \subseteq Fields
ASSUME NoneAssumption == None \in Values
ASSUME SendsAssumption ==
  \A s \in Sends : /\ s.fields \in UNION {[F -> Values] : F \in SUBSET Fields}
                   /\ s.active \in BOOLEAN \cup {NotSent}
ASSUME NotSentAssumption == NotSent \notin BOOLEAN
ASSUME BoundsAssumption == MaxIds \in Nat \ {0} /\ MaxTurns \in Nat

VARIABLES
  doc,       \* framework.objects: fields, active and version of each object
  access,    \* what the type lets its users do; no "UPDATE" if it is inactive
  log,       \* framework.logs: the edits of fields, in the order they come in
  req,       \* the request each worker is serving
  turns,     \* number of objects named by requests so far
  first,     \* history: the documents at the start
  stale,     \* history: workers whose object was written since they read it
  had,       \* history: what fields each object has had under what version
  crossed,   \* history: objects on which log and document have parted
  blind      \* history: objects written from a version they had no more

db == <<doc, access, log>>
history == <<stale, had, crossed, blind>>
vars == <<db, req, turns, first, history>>

Versions == [major : Nat, minor : Nat, patch : Nat]
Documents == [fields : [Fields -> Values], active : BOOLEAN, version : Versions]
Default == [major |-> 1, minor |-> 0, patch |-> 0]

At(w, label) == req[w].at = label
GoTo(w, label) == req' = [req EXCEPT ![w].at = label]
Idle(how) == [at |-> "idle", last |-> how]
Answer(w, how) == req' = [req EXCEPT ![w] = Idle(how)]

Init == /\ doc \in [Objs -> Documents]
        /\ access = {"READ", "UPDATE"}
        /\ log = <<>>
        /\ req = [w \in Workers |-> Idle("done")]
        /\ turns = 0
        /\ first = doc
        /\ stale = {} /\ crossed = {} /\ blind = {}
        /\ had = [o \in Objs |-> {[fields |-> doc[o].fields, version |-> doc[o].version]}]

Begin(w, r) == /\ At(w, "idle")
               /\ turns + Len(r.rest) <= MaxTurns
               /\ turns' = turns + Len(r.rest)
               /\ req' = [req EXCEPT ![w] = r]
               /\ UNCHANGED <<db, first>>

----------------------------------------------------------------------------
(* Versions (cmdb_versioning.py, CmdbDAO.update_version). *)

\* Mutant: small changes leave the version alone.
KeepVersionOnPatch(v, kind) ==
  CASE kind = "major" -> [v EXCEPT !.major = @ + 1]
    [] kind = "minor" -> [v EXCEPT !.minor = @ + 1]
    [] kind = "patch" -> v

\* The one number goes up, the ones to its right stay.
UpdateVersion(v, kind) ==
  CASE kind = "major" -> [v EXCEPT !.major = @ + 1]
    [] kind = "minor" -> [v EXCEPT !.minor = @ + 1]
    [] kind = "patch" -> [v EXCEPT !.patch = @ + 1]

Changed(old, new) == {f \in Fields : new[f] # old[f]}

\* By the number of fields that change.
VersionType(old, new) ==
  LET n == Cardinality(Changed(old, new))
  IN  CASE n = 1 -> "patch"
        [] n # 1 /\ n = Cardinality(Fields) -> "major"
        [] n # 1 /\ n # Cardinality(Fields) /\ 2 * n > Cardinality(Fields) -> "minor"
        [] OTHER -> "patch"

\* The fields as CmdbRender shows them. In lost are those it gets no value for:
\* the object they refer to is gone or cannot be read just now, or the text
\* is no date. The renderer swallows the error and takes None.
Rendered(fields, lost) == [f \in Fields |-> IF f \in lost THEN None ELSE fields[f]]

\* Mutant: what the client did not send is reset to the type's default.
OverlayOnDefaults(fields, sent) ==
  [f \in Fields |-> IF f \in DOMAIN sent THEN sent[f] ELSE CHOOSE v \in Values : v # None]

\* The fields with the values the client sent.
Overlay(fields, sent) == [f \in Fields |-> IF f \in DOMAIN sent THEN sent[f] ELSE fields[f]]

----------------------------------------------------------------------------
(* update_cmdb_object for the objects of the sequence ids. The version a
   client does not send is the default of the schema, not the object's. *)
StartEdit(w, ids, sent, version) ==
  Begin(w, [at |-> "read", kind |-> "edit", rest |-> ids, sent |-> sent.fields, active |-> sent.active,
            base |-> IF version = NotSent THEN Default ELSE version, lost |-> {},
            old |-> Unread, new |-> Unread])

\* update_cmdb_object_state.
StartState(w, o, active) ==
  Begin(w, [at |-> "read", kind |-> "state", rest |-> <<o>>, sent |-> <<>>, active |-> active,
            lost |-> {}, old |-> Unread, new |-> Unread])

Obj(w) == Head(req[w].rest)

\* The document an edit is about to write, from the one it reads.
Edited(r, d, lost) ==
  LET fields == Overlay(Rendered(d.fields, lost), r.sent)
  IN  [fields |-> fields,
       active |-> IF r.active = NotSent THEN d.active ELSE r.active,
       version |-> UpdateVersion(r.base, VersionType(d.fields, fields))]

\* get_object verifies READ. A state the object has already ends the request.
Read(w) ==
  /\ At(w, "read")
  /\ LET d == doc[Obj(w)]
         Prepare(new, lost) == req' = [req EXCEPT ![w].at = "verify", ![w].lost = lost,
                                                  ![w].old = d, ![w].new = new]
     IN \/ "READ" \notin access /\ Answer(w, "refused")
        \/ /\ "READ" \in access /\ req[w].kind = "edit"
           /\ \E lost \in SUBSET Fragile : Prepare(Edited(req[w], d, lost), lost)
        \/ /\ "READ" \in access /\ req[w].kind = "state"
           /\ IF d.active = req[w].active THEN Answer(w, "done")
              ELSE Prepare([d EXCEPT !.active = req[w].active], {})
  /\ UNCHANGED <<db, turns, first>>

\* Mutant: a refused update is logged as if it had been made.
VerifyGoesOn(w) == /\ At(w, "verify")
                   /\ IF "UPDATE" \in access THEN GoTo(w, "write") ELSE GoTo(w, "log")
                   /\ UNCHANGED <<db, turns, first>>

\* update_object looks at the type again.
Verify(w) == /\ At(w, "verify")
             /\ IF "UPDATE" \in access THEN GoTo(w, "write") ELSE Answer(w, "refused")
             /\ UNCHANGED <<db, turns, first>>

Write(w) == /\ At(w, "write")
            /\ doc' = [doc EXCEPT ![Obj(w)] = req[w].new]
            /\ GoTo(w, "reread")
            /\ UNCHANGED <<access, log, turns, first>>

\* The object is read once more, for the webhooks; this verifies READ.
Reread(w) == /\ At(w, "reread")
             /\ IF "READ" \in access THEN GoTo(w, "log") ELSE Answer(w, "refused")
             /\ UNCHANGED <<db, turns, first>>

\* Mutant: without an end.
NextObjectAlways(w) == req' = [req EXCEPT ![w].at = "read", ![w].rest = Tail(@)]

\* The next object of the request, which starts from the change as it came.
NextObject(w) ==
  IF Len(req[w].rest) = 1 THEN Answer(w, "done")
  ELSE req' = [req EXCEPT ![w].at = "read", ![w].rest = Tail(@)]

Entry(o, old, new) == [obj |-> o, new |-> [f \in Changed(old.fields, new.fields) |-> new.fields[f]]]

\* Mutant: the fields as they were.
LogOld(w) ==
  /\ At(w, "log")
  /\ log' = Append(log, Entry(Obj(w), req[w].new, req[w].old))
  /\ NextObject(w)
  /\ UNCHANGED <<doc, access, turns, first>>

\* insert_log; what goes wrong there is not told. The entry of a state change
\* has no fields and is left out.
Log(w) ==
  /\ At(w, "log")
  /\ \/ req[w].kind = "edit" /\ log' = Append(log, Entry(Obj(w), req[w].old, req[w].new))
     \/ UNCHANGED log
  /\ NextObject(w)
  /\ UNCHANGED <<doc, access, turns, first>>

\* The type's ACL or active flag is changed.
SetAccess(A) == /\ turns < MaxTurns
                /\ turns' = turns + 1
                /\ access' = A
                /\ UNCHANGED <<doc, log, req, first>>

\* A worker is killed, or a call to the database fails (500).
Crash(w) == /\ ~At(w, "idle")
            /\ Answer(w, "killed")
            /\ UNCHANGED <<db, turns, first>>

----------------------------------------------------------------------------
\* Workers that have read o and are not done with it.
Holds(w, o) == req[w].at \in {"verify", "write", "reread", "log"} /\ Obj(w) = o
HasWritten(w, o) == req[w].at \in {"reread", "log"} /\ Obj(w) = o /\ req[w].kind = "edit"

Writing(w) == At(w, "write") /\ At(w, "reread")'

\* The worker has written, and ends with its object without an entry.
LosesEntry(w) == /\ req[w].at \in {"reread", "log"} /\ req[w].kind = "edit"
                 /\ req'[w] # req[w] /\ ~At(w, "log")' /\ log' = log

\* The version a write starts from.
From(w) == IF req[w].kind = "edit" THEN req[w].base ELSE req[w].new.version

History ==
  /\ stale' = {w \in Workers : /\ req'[w].at \in {"verify", "write"}
                               /\ \/ w \in stale
                                  \/ \E v \in Workers \ {w} : Writing(v) /\ Holds(w, Obj(v))}
  /\ had' = [o \in Objs |-> had[o] \cup {[fields |-> doc'[o].fields, version |-> doc'[o].version]}]
  /\ crossed' = crossed
       \cup {Obj(w) : w \in {v \in Workers : /\ Writing(v)
                                             /\ \/ v \in stale
                                                \/ \E u \in Workers \ {v} : HasWritten(u, Obj(v))}}
       \cup {Obj(w) : w \in {v \in Workers : LosesEntry(v)}}
  /\ blind' = blind
       \cup {Obj(w) : w \in {v \in Workers : Writing(v) /\ doc[Obj(v)].version # From(v)}}

\* Versions a client may have seen.
Seen == UNION {{h.version : h \in had[o]} : o \in Objs}

\* The objects of a request, in any order, some maybe twice.
IdLists == UNION {[1..n -> Objs] : n \in 1..MaxIds}

Start(w) ==
  \/ \E ids \in IdLists : \E sent \in Sends : \E version \in Seen \cup {NotSent} :
       StartEdit(w, ids, sent, version)
  \/ \E o \in Objs : \E active \in BOOLEAN : StartState(w, o, active)

Step(w) == Read(w) \/ Verify(w) \/ Write(w) \/ Reread(w) \/ Log(w)

Next == /\ \/ \E w \in Workers : Start(w) \/ Step(w) \/ Crash(w)
           \/ \E A \in SUBSET {"READ", "UPDATE"} : SetAccess(A)
        /\ History

Spec == Init /\ [][Next]_vars

----------------------------------------------------------------------------
Labels == {"idle", "read", "verify", "write", "reread", "log"}

TypeOK == /\ doc \in [Objs -> Documents]
          /\ access \subseteq {"READ", "UPDATE"}
          /\ \A i \in DOMAIN log : log[i].obj \in Objs /\ DOMAIN log[i].new \subseteq Fields
          /\ \A w \in Workers :
               /\ req[w].at \in Labels
               /\ ~At(w, "idle") => Len(req[w].rest) \in 1..MaxIds /\ Obj(w) \in Objs
               /\ req[w].at \in Labels \ {"idle", "read"} => req[w].new \in Documents
          /\ turns \in 0..MaxTurns
          /\ stale \subseteq Workers /\ crossed \cup blind \subseteq Objs

\* A write changes what its client has not sent, fields or active state, only
\* if another write came between the two calls that read and write the object,
\* or if it is the value of a field that could not be rendered: that is gone.
UnsentKept ==
  [][\A w \in Workers : Writing(w) /\ w \notin stale =>
       LET o == Obj(w)
       IN  /\ \A f \in Fields \ DOMAIN req[w].sent :
                doc'[o].fields[f] = IF f \in req[w].lost THEN None ELSE doc[o].fields[f]
           /\ req[w].active = NotSent => doc'[o].active = doc[o].active]_vars

\* The entries of the log that tell field f of o.
Telling(o, f) == {i \in DOMAIN log : log[i].obj = o /\ f \in DOMAIN log[i].new}

\* Replaying the log on the object as it was at the start gives v for field f.
ReplaysTo(o, f, v) ==
  \/ Telling(o, f) = {} /\ v = first[o].fields[f]
  \/ \E i \in Telling(o, f) : v = log[i].new[f] /\ \A j \in Telling(o, f) : j <= i

\* The log tells the fields of every object that no request is about to log,
\* unless requests on it crossed or the entry of a write was lost.
LogTellsFields ==
  \A o \in Objs \ crossed : \/ \E w \in Workers : HasWritten(w, o)
                            \/ \A f \in Fields : ReplaysTo(o, f, doc[o].fields[f])

\* An object has had different fields under one version only if one of its
\* writes started from a version that was not the object's any more, or, as
\* the version that a client leaves out is 1.0.0, never was.
VersionNamesFields ==
  \A o \in Objs \ blind : \A a, b \in had[o] : a.version = b.version => a = b

\* The entry a worker has still to log.
Owed(w) == IF req[w].at \in {"reread", "log"} /\ req[w].kind = "edit"
           THEN {Entry(Obj(w), req[w].old, req[w].new)} ELSE {}

\* The log implements EditLog: an entry tells, once, a change that was stored,
\* and an edit owes its entry from its write until it logs or ends.
Told == INSTANCE EditLog WITH
          Clients <- Workers,
          current <- [o \in Objs |-> [fields |-> doc[o].fields, version |-> doc[o].version]],
          owed <- [w \in Workers |-> Owed(w)]
ImplementsEditLog == Told!LogSpec
=============================================================================

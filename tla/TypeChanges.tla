---------------------------- MODULE TypeChanges ----------------------------
(***************************************************************************)
(* Changing a type under its objects. A type lists its fields; its objects *)
(* carry an entry for each. Four requests change one side or both, one     *)
(* call of the database at a time: saving a type (update_cmdb_type), saving*)
(* or deleting a global section template that it uses, and the clean route *)
(* that brings objects in line with their type. Objects are inserted,      *)
(* edited and deleted meanwhile, and workers may be killed.                *)
(*                                                                         *)
(* There is one type, using one template or not, with one multi data       *)
(* section, of which each object has one data set. A field is its name;    *)
(* fields have no default value. The entries an insertion or an edit       *)
(* writes name the field's type, those of the other requests do not, and   *)
(* $addToSet tells the two apart. Locations, relations and reports that    *)
(* mention the type are left out: an error there ends the request as a     *)
(* killed worker does. verify_access lets the users through (its refusals  *)
(* are in ObjectDeletion). update_object and the look at the type in it    *)
(* are one step.                                                           *)
(***************************************************************************)
EXTENDS Naturals, Sequences, FiniteSets, SequencesExt, TLC

CONSTANTS Workers,          \* gunicorn workers, each with the client it serves
          Objects,          \* public_ids of objects of the type
          OwnFields,        \* fields a user may give the type
          TemplateFields,   \* fields a user may give the template
          DataFields,       \* fields of the multi data section
          Gone,             \* no such document
          Unused,           \* the type does not use the template
          MaxRequests       \* requests that are ever started (bound)

ASSUME FieldsAssumption == OwnFields \cap TemplateFields = {}
ASSUME MaxRequestsAssumption == MaxRequests \in Nat

VARIABLES
  type,      \* the type's document, or Gone
  template,  \* the fields of the template, or Gone
  doc,       \* the objects' documents, or Gone
  req,       \* the request each worker is serving
  left,      \* requests left
  ways,      \* history: what has kept objects and type apart
  since      \* history: the same, since the last cleaning

db == <<type, template, doc>>
vars == <<db, req, left, ways, since>>

----------------------------------------------------------------------------
(* Documents. *)

Fields == OwnFields \cup TemplateFields
Types == [own : SUBSET Fields, section : {Unused} \cup SUBSET TemplateFields, mds : Seq(DataFields)]

ASSUME SentinelsAssumption == /\ Gone \notin Types \cup Seq(DataFields)
                              /\ \A S \in SUBSET TemplateFields : Gone # S /\ Unused # S

Entries == Fields \X {"typed", "bare"}

\* The fields of the type in its document, and those that its sections show:
\* a field of the template may be left in the first without a section.
SectionOf(t) == IF t.section = Unused THEN {} ELSE t.section
FieldsOf(t) == t.own \cup SectionOf(t)
Rendered(t) == (t.own \cap OwnFields) \cup SectionOf(t)

Count(d, f) == d.fields[<<f, "typed">>] + d.fields[<<f, "bare">>]
Typed(names) == [e \in Entries |-> IF e[2] = "typed" /\ e[1] \in names THEN 1 ELSE 0]
Without(d, names) == [d EXCEPT !.fields = [e \in Entries |-> IF e[1] \in names THEN 0 ELSE @[e]]]
Appended(d, names) ==
  [d EXCEPT !.fields = [e \in Entries |-> IF e[2] = "bare" /\ e[1] \in names THEN @[e] + 1 ELSE @[e]]]

\* $addToSet of an entry without a type.
AddToSet(d, f) == IF d.fields[<<f, "bare">>] > 0 THEN d ELSE Appended(d, {f})

Present == {o \in Objects : doc[o] # Gone}

----------------------------------------------------------------------------
(* Multi data sections. *)

\* The elements of a sequence that are in S, in their order.
Kept(s, S) ==
  LET places == {i \in DOMAIN s : s[i] \in S}
      Rank(i) == Cardinality({j \in places : j <= i})
  IN  [k \in 1..Cardinality(places) |-> s[CHOOSE i \in places : Rank(i) = k]]

\* fields_diff.
FieldsDiff(these, those) == Kept(these, Range(these) \ Range(those))

\* The index a name is deleted by: past the end for one that is not there.
IndexOf(data, f) ==
  IF f \in Range(data) THEN CHOOSE i \in DOMAIN data : data[i] = f /\ \A j \in 1..(i - 1) : data[j] # f
                       ELSE Len(data) + 1

\* del for one index after the other; Gone for the IndexError.
DeleteAll(data, indexes) ==
  LET rest[k \in 0..Len(indexes)] ==
        IF k = 0 THEN data
        ELSE IF rest[k - 1] = Gone \/ indexes[k] > Len(rest[k - 1]) THEN Gone
        ELSE RemoveAt(rest[k - 1], indexes[k])
  IN  rest[Len(indexes)]

\* Mutant: deletion from the first index found to the last.
DeleteFromFront(data, names) == DeleteAll(data, [k \in DOMAIN names |-> IndexOf(data, names[k])])

\* delete_mds_field_entries: all indexes are found first, and deleted from the
\* last one found to the first.
DeleteEntries(data, names) ==
  DeleteAll(data, [k \in DOMAIN names |-> IndexOf(data, names[Len(names) + 1 - k])])

\* The names stand in the data in the order they are deleted in.
InOrder(data, names) ==
  \A i, j \in DOMAIN names : i < j => IndexOf(data, names[i]) < IndexOf(data, names[j])

\* update_multi_data_fields for one data set.
DataUpdated(data, old, new) ==
  DeleteEntries(data \o FieldsDiff(new, old), FieldsDiff(old, new))

----------------------------------------------------------------------------
(* Requests. A request that writes several documents holds them in docs, as
   it has read them and as it will write them, and goes on at then. *)

Idle == [at |-> "idle"]
At(w, label) == req[w].at = label
Is(w, r) == req' = [req EXCEPT ![w] = r]
Done(w) == Is(w, Idle)

\* A request is changing things from the first read that its writes rest on, or
\* the first write, to the last write.
Changing(v) == req[v].at \in {"reading", "clean", "objects", "add", "back", "sweep", "pull", "fill"}

\* History: reasons are noted; what is written while another request is changing
\* things crosses it.
Note(S) == ways' = ways \cup S /\ since' = since \cup S
Crossing(w) == IF \E v \in Workers \ {w} : Changing(v) THEN {"crossed"} ELSE {}
When(test, reason) == IF test THEN {reason} ELSE {}
NoteWrite(w, S) == Note(S \cup Crossing(w))

\* A request ends with an error, or with its worker.
Refused(w) == /\ Done(w)
              /\ Note(When(Changing(w), "halted"))

Start(w, r) == /\ At(w, "idle")
               /\ left > 0 /\ left' = left - 1
               /\ Is(w, r)
               /\ UNCHANGED <<db, ways, since>>

\* update_object for each of the documents in hand, in any order.
Hand(r, docs, then) ==
  IF DOMAIN docs # {} THEN [r EXCEPT !.at = "objects", !.docs = docs, !.then = then]
  ELSE IF then = "idle" THEN Idle ELSE [r EXCEPT !.at = then, !.docs = docs]

WriteObject(w, o) ==
  LET r == req[w]
  IN  /\ At(w, "objects")
      /\ o \in DOMAIN r.docs
      /\ UNCHANGED <<type, template, left>>
      /\ IF type = Gone
           THEN Refused(w) /\ UNCHANGED doc
           ELSE /\ doc' = [doc EXCEPT ![o] = r.docs[o].new]
                /\ Is(w, Hand(r, [x \in DOMAIN r.docs \ {o} |-> r.docs[x]], r.then))
                /\ NoteWrite(w, When(doc[o] # r.docs[o].old, "stale"))

\* The documents in hand: those there are now, changed by an operator.
Each(Changed(_)) == [o \in Present |-> [old |-> doc[o], new |-> Changed(doc[o])]]

----------------------------------------------------------------------------
(* Saving a type. *)

\* The client loads the type into its form.
OpenTypeForm(w) ==
  /\ type # Gone
  /\ Start(w, [at |-> "typeForm", seen |-> type, global |-> template])

\* What is left of a sequence when some of its elements are dropped.
Remains(s) == {Kept(s, S) : S \in SUBSET Range(s)}

\* One thing the user may change: the own fields, the template, the section.
Changes(t, global) ==
  {[t EXCEPT !.own = (@ \ OwnFields) \cup S] : S \in SUBSET OwnFields}
    \cup {[t EXCEPT !.section = s] : s \in {Unused, global} \ {Gone}}
    \cup {[t EXCEPT !.mds = q] : q \in Remains(t.mds)}
    \cup {[t EXCEPT !.mds = <<f>> \o @] : f \in DataFields \ Range(t.mds)}

\* update_cmdb_type: get_type.
SaveType(w, data) ==
  /\ At(w, "typeForm")
  /\ IF type = Gone THEN Done(w) ELSE Is(w, [at |-> "save", seen |-> req[w].seen, global |-> req[w].global,
                                                data |-> data, old |-> type])
  /\ UNCHANGED <<db, left, ways, since>>

\* update_type upserts.
WriteType(w) ==
  LET r == req[w]
  IN  /\ At(w, "save")
      /\ type' = r.data
      /\ Is(w, [at |-> "reading", old |-> r.old.mds, mds |-> r.data.mds, docs |-> <<>>, then |-> "idle"])
      /\ NoteWrite(w, When({type, r.old} # {r.seen} \/ template # r.global, "stale") \cup When(type # Gone /\ FieldsOf(type) # FieldsOf(r.data), "saved"))
      /\ UNCHANGED <<template, doc, left>>

\* handle_mutli_data_sections: all objects are changed in memory first.
ReadObjects(w) ==
  LET r == req[w]
      Updated(d) == [d EXCEPT !.mds = DataUpdated(d.mds, r.old, r.mds)]
      docs == Each(Updated)
      removed == FieldsDiff(r.old, r.mds)
  IN  /\ At(w, "reading")
      /\ UNCHANGED <<db, left>>
      /\ IF type = Gone \/ \E o \in Present : docs[o].new.mds = Gone
           THEN Refused(w)
           ELSE /\ Is(w, Hand([r EXCEPT !.old = <<>>, !.mds = <<>>], docs, "idle"))
                /\ Note(When(\E o \in Present : ~InOrder(doc[o].mds, removed), "jumbled"))

----------------------------------------------------------------------------
(* Saving and deleting a global section template. *)

\* update_section_template: get_section_template, then the upserting update.
StartSaveTemplate(w, new) ==
  /\ template # Gone
  /\ Start(w, [at |-> "template", kind |-> "save", old |-> template, new |-> new])

WriteTemplate(w) ==
  /\ At(w, "template")
  /\ template' = req[w].new
  /\ Is(w, [req[w] EXCEPT !.at = "types"])
  /\ NoteWrite(w, When(template # req[w].old, "stale"))
  /\ UNCHANGED <<type, doc, left>>

\* delete_section_template, up to the same look for types.
StartDeleteTemplate(w) ==
  /\ template # Gone
  /\ Start(w, [at |-> "types", kind |-> "delete", old |-> template, new |-> {}])

\* handle_section_template_changes, cleanup_global_section_templates: the type
\* as it will be, of the type as it is now.
Removed(r) == IF r.kind = "save" THEN r.old \ r.new ELSE type.section

\* Mutant: the fields deleted from the template stay among the type's.
NewTypeKeepsFields(r) ==
  [type EXCEPT !.own = FieldsOf(type) \ r.new, !.section = IF r.kind = "save" THEN r.new ELSE Unused]

NewType(r) ==
  [type EXCEPT !.own = (FieldsOf(type) \ Removed(r)) \ r.new,
               !.section = IF r.kind = "save" THEN r.new ELSE Unused]

FindTypes(w) ==
  LET r == req[w]
  IN  /\ At(w, "types")
      /\ Is(w, IF type # Gone /\ type.section # Unused
                 THEN [at |-> "clean", kind |-> r.kind, removed |-> Removed(r), added |-> r.new \ r.old,
                       read |-> type, data |-> NewType(r), docs |-> <<>>, then |-> "idle"]
                 ELSE IF r.kind = "save" THEN Idle ELSE [at |-> "drop"])
      /\ Note(When(r.kind = "save" /\ type # Gone /\ type.section \notin {Unused, r.old}, "behind"))
      /\ UNCHANGED <<db, left>>

\* cleanup_global_section_objects.
ReadToClean(w) ==
  LET r == req[w]
      Cleaned(d) == Without(d, r.removed)
  IN  /\ At(w, "clean")
      /\ Is(w, Hand(r, Each(Cleaned), IF r.kind = "save" THEN "add" ELSE "back"))
      /\ UNCHANGED <<db, left, ways, since>>

\* set_new_global_template_fields: the entries are appended whatever is there,
\* and the type may have had the field already, left behind by the template.
ReadToAdd(w) ==
  LET Added(d) == Appended(d, req[w].added)
  IN  /\ At(w, "add")
      /\ Is(w, Hand(req[w], Each(Added), "back"))
      /\ Note(When(\/ req[w].added # {} /\ since # {}
                   \/ req[w].added \cap req[w].read.own # {}, "doubled"))
      /\ UNCHANGED <<db, left>>

\* update_type, with the type as it was before the objects were gone through.
WriteTypeBack(w) ==
  LET r == req[w]
  IN  /\ At(w, "back")
      /\ type' = r.data
      /\ Is(w, IF r.kind = "save" THEN Idle ELSE [at |-> "drop"])
      /\ NoteWrite(w, When(type # r.read, "stale"))
      /\ UNCHANGED <<template, doc, left>>

DropTemplate(w) ==
  /\ At(w, "drop")
  /\ template' = Gone
  /\ Done(w)
  /\ UNCHANGED <<type, doc, left, ways, since>>

----------------------------------------------------------------------------
(* Cleaning the objects of a type (update_unstructured_cmdb_objects). *)

StartClean(w) ==
  /\ type # Gone
  /\ left > 0 /\ left' = left - 1
  /\ At(w, "idle")
  /\ Is(w, [at |-> "sweep", fields |-> FieldsOf(type)])
  /\ since' = IF FieldsOf(type) = {} \/ \E v \in Workers : Changing(v) THEN since ELSE {}
  /\ UNCHANGED <<db, ways>>

\* What is not a field of the type, unless it has none: then nothing is found.
Surplus(d, fields) == {f \in Fields : Count(d, f) > 0 /\ f \notin fields /\ fields # {}}
Lacking(d, fields) == {f \in fields : Count(d, f) = 0}

Sweep(w) ==
  /\ At(w, "sweep")
  /\ Is(w, [at |-> "pull", fields |-> req[w].fields,
            todo |-> {x \in Present \X Fields : x[2] \in Surplus(doc[x[1]], req[w].fields)}])
  /\ UNCHANGED <<db, left, ways, since>>

\* One $pull after the other, without upsert; then the objects are read again.
Pull(w) ==
  LET r == req[w]
  IN  /\ At(w, "pull")
      /\ UNCHANGED <<type, template, left>>
      /\ IF r.todo = {}
           THEN /\ Is(w, [r EXCEPT !.at = "fill", !.todo = {x \in Present \X Fields : x[2] \in Lacking(doc[x[1]], r.fields)}])
                /\ UNCHANGED <<doc, ways, since>>
           ELSE \E x \in r.todo :
                  /\ doc' = IF doc[x[1]] = Gone THEN doc ELSE [doc EXCEPT ![x[1]] = Without(@, {x[2]})]
                  /\ Is(w, [r EXCEPT !.todo = @ \ {x}])
                  /\ NoteWrite(w, When(type = Gone \/ FieldsOf(type) # r.fields, "stale"))

\* One $addToSet after the other.
Fill(w) ==
  LET r == req[w]
  IN  /\ At(w, "fill")
      /\ UNCHANGED <<type, template, left>>
      /\ IF r.todo = {}
           THEN Done(w) /\ UNCHANGED <<doc, ways, since>>
           ELSE \E x \in r.todo :
                  /\ doc' = IF doc[x[1]] = Gone THEN doc ELSE [doc EXCEPT ![x[1]] = AddToSet(@, x[2])]
                  /\ Is(w, [r EXCEPT !.todo = @ \ {x}])
                  /\ NoteWrite(w, When(type = Gone \/ FieldsOf(type) # r.fields, "stale"))

----------------------------------------------------------------------------
(* Objects come, change and go. *)

\* The client shows the form of a new object: the fields of the type's sections.
OpenObjectForm(w) ==
  /\ type # Gone
  /\ Start(w, [at |-> "new", names |-> Rendered(type), mds |-> type.mds])

\* validate_and_fill_object_fields and the check of insert_object.
CheckNew(w) ==
  /\ At(w, "new")
  /\ IF type # Gone /\ req[w].names \subseteq FieldsOf(type)
       THEN Is(w, [req[w] EXCEPT !.at = "insert"])
       ELSE Done(w)
  /\ UNCHANGED <<db, left, ways, since>>

\* History: a document is written for another type than the one there is.
Outdated(r) ==
  IF type = Gone THEN {"typeless"}
  ELSE When(r.names # FieldsOf(type) \/ Range(r.mds) # Range(type.mds), "stale")

Document(r) == [fields |-> Typed(r.names), mds |-> r.mds]

InsertObject(w, o) ==
  /\ At(w, "insert")
  /\ doc[o] = Gone
  /\ doc' = [doc EXCEPT ![o] = Document(req[w])]
  /\ Done(w)
  /\ NoteWrite(w, Outdated(req[w]))
  /\ UNCHANGED <<type, template, left>>

\* The client loads an object; its data sets are saved as they were loaded.
OpenEditForm(w, o) ==
  /\ doc[o] # Gone
  /\ Start(w, [at |-> "edit", obj |-> o, mds |-> doc[o].mds])

\* update_cmdb_object: the fields are those its rendering shows.
Render(w) ==
  /\ At(w, "edit")
  /\ IF doc[req[w].obj] # Gone /\ type # Gone
       THEN Is(w, [at |-> "validate", obj |-> req[w].obj, names |-> Rendered(type), mds |-> req[w].mds])
       ELSE Done(w)
  /\ UNCHANGED <<db, left, ways, since>>

Validate(w) ==
  /\ At(w, "validate")
  /\ IF type # Gone /\ req[w].names \subseteq FieldsOf(type)
       THEN Is(w, [req[w] EXCEPT !.at = "write"])
       ELSE Done(w)
  /\ UNCHANGED <<db, left, ways, since>>

WriteEdit(w) ==
  LET r == req[w]
  IN  /\ At(w, "write")
      /\ Done(w)
      /\ IF type = Gone
           THEN UNCHANGED <<doc, ways, since>>
           ELSE /\ doc' = [doc EXCEPT ![r.obj] = Document(r)]
                /\ NoteWrite(w, Outdated(r))
      /\ UNCHANGED <<type, template, left>>

\* Deleting an object, here in one step (see ObjectDeletion).
DeleteObject(o) ==
  /\ doc[o] # Gone
  /\ left > 0 /\ left' = left - 1
  /\ doc' = [doc EXCEPT ![o] = Gone]
  /\ UNCHANGED <<type, template, req, ways, since>>

\* delete_cmdb_type counts the objects and deletes the type.
StartDeleteType(w) ==
  /\ type # Gone
  /\ Present = {}
  /\ Start(w, [at |-> "deleteType"])

DeleteType(w) ==
  /\ At(w, "deleteType")
  /\ type' = Gone
  /\ Done(w)
  /\ Note(When(Present # {}, "typeless"))
  /\ UNCHANGED <<template, doc, left>>

Kill(w) ==
  /\ ~At(w, "idle")
  /\ Refused(w)
  /\ UNCHANGED <<db, left>>

----------------------------------------------------------------------------
\* Any type and objects that fit it, or that fitted it before its own fields were
\* saved; moving the fields of the section about has left the data sets in an
\* order of their own.
Init ==
  /\ template \in SUBSET TemplateFields
  /\ type \in [own : SUBSET OwnFields, section : {Unused, template},
               mds : {q \in SeqOf(DataFields, Cardinality(DataFields)) : IsInjective(q)}]
  /\ \E own \in SUBSET OwnFields :
       /\ doc \in [Objects -> {Gone} \cup [fields : {Typed(own \cup SectionOf(type))}, mds : SetToSeqs(Range(type.mds))]]
       /\ ways = When(own # type.own, "saved")
  /\ since = ways
  /\ req = [w \in Workers |-> Idle]
  /\ left = MaxRequests

Next ==
  \/ \E w \in Workers :
       \/ OpenTypeForm(w) \/ WriteType(w) \/ ReadObjects(w)
       \/ \E t \in (IF At(w, "typeForm") THEN Changes(req[w].seen, req[w].global) ELSE {}) : SaveType(w, t)
       \/ \E S \in SUBSET TemplateFields : StartSaveTemplate(w, S)
       \/ StartDeleteTemplate(w) \/ WriteTemplate(w) \/ FindTypes(w) \/ ReadToClean(w)
       \/ ReadToAdd(w) \/ WriteTypeBack(w) \/ DropTemplate(w)
       \/ StartClean(w) \/ Sweep(w) \/ Pull(w) \/ Fill(w)
       \/ OpenObjectForm(w) \/ CheckNew(w) \/ Render(w) \/ Validate(w) \/ WriteEdit(w)
       \/ StartDeleteType(w) \/ DeleteType(w) \/ Kill(w)
       \/ \E o \in Objects : WriteObject(w, o) \/ InsertObject(w, o) \/ OpenEditForm(w, o)
  \/ \E o \in Objects : DeleteObject(o)

Spec == Init /\ [][Next]_vars

----------------------------------------------------------------------------
(* Properties. *)

Rest == \A w \in Workers : At(w, "idle")

\* delete_cmdb_type deletes "only when there are no objects": an object has its
\* type, unless it was inserted between the count and the deletion.
EveryObjectHasItsType == "typeless" \notin ways => (Present # {} => type # Gone)

\* At rest each object has the fields of its type and no others, once the objects
\* were cleaned after the last save of the type's fields (this is what the clean
\* route is for). Since then nothing must have been halted half way, written on
\* a stale read, written while another request was changing things, or derived
\* from a template the type had not kept up with.
FieldsFit ==
  \A o \in Present : {f \in Fields : Count(doc[o], f) > 0} = FieldsOf(type)

\* No object has a field twice, unless fields were added while another request
\* was changing things, or while the objects were not known to fit, or the type
\* had a field that its template was given.
NoFieldTwice == \A o \in Present, f \in Fields : Count(doc[o], f) <= 1

\* Objects and their type fit together, but for what the histories name.
ObjectsFitType ==
  /\ EveryObjectHasItsType
  /\ Rest /\ type # Gone /\ since \cap {"saved", "stale", "crossed", "halted", "behind"} = {} => FieldsFit
  /\ ways \cap {"crossed", "doubled"} = {} => NoFieldTwice

\* At rest each data set has the fields of its section once each: saving a type
\* brings them in line without cleaning (handle_mutli_data_sections), unless
\* names were deleted in another order than the data has them ("jumbled"), the
\* save was halted, or something was written across it or on a stale read.
DataFits == \A o \in Present : IsInjective(doc[o].mds) /\ Range(doc[o].mds) = Range(type.mds)

SectionDataFits ==
  Rest /\ type # Gone /\ ways \cap {"stale", "crossed", "halted", "jumbled"} = {} => DataFits
=============================================================================

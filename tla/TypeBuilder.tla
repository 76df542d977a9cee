----------------------------- MODULE TypeBuilder -----------------------------
(***************************************************************************)
(* The type builder of the web frontend (builder.component.ts): a type     *)
(* keeps its fields in one list and its sections name some of them, while  *)
(* on the page the sections hold field objects. The two agree as long as   *)
(* they share the objects, and drag and drop delivers copies: moving a     *)
(* field puts its copy into both, moving a section puts copies into the    *)
(* section only. Order, labels, hidden fields, what a reference field      *)
(* refers to and reference sections are left out; a name is as random as   *)
(* the program makes it, or as the user types it.                          *)
(***************************************************************************)
EXTENDS Naturals, FiniteSets, Sequences, SequencesExt, Functions

CONSTANTS Names,         \* identifiers of fields
          TemplateName,  \* the field of a section template
          GlobalName,    \* the field of a global section template
          LocationName,  \* dg_location, the name of every Location control
          Objects,       \* field objects (bound)
          SectionIds,    \* section objects and their identifiers (bound)
          None,          \* no name, no field
          Base,          \* the type opened for editing: kinds and field names of its sections
          MaxSteps       \* what the user does (bound)

Kinds == {"section", "multi", "global"}

\* What a field is: one whose card checks its name, a reference or a location.
Controls == {"checked", "ref", "location"}

ASSUME NamesAssumption == {TemplateName, GlobalName, LocationName} \subseteq Names /\ None \notin Names
ASSUME ObjectsAssumption == Objects \cap (Names \cup {None}) = {}
ASSUME BoundsAssumption == IsFiniteSet(Objects) /\ IsFiniteSet(SectionIds) /\ MaxSteps \in Nat

BaseNames == UNION {Base[s].names : s \in DOMAIN Base}

\* A type as the builder leaves it: a field is in one section, and the template
\* has one section, with its field. There are objects for its fields.
ASSUME BaseAssumption ==
  /\ DOMAIN Base \subseteq SectionIds
  /\ \A s \in DOMAIN Base : /\ Base[s].kind \in Kinds /\ Base[s].names \subseteq Names
                            /\ Base[s].kind = "global" => Base[s].names = {GlobalName}
  /\ \A s, t \in DOMAIN Base : s # t =>
       Base[s].names \cap Base[t].names = {} /\ {Base[s].kind, Base[t].kind} # {"global"}
  /\ IsFiniteSet(BaseNames) /\ Cardinality(BaseNames) <= Cardinality(Objects)

VARIABLES
  mode,       \* CmdbMode: "create" or "edit"
  loaded,     \* the section templates have come
  available,  \* the global template is offered, globalSectionTemplates
  listed,     \* the global template is in global_template_ids
  sections,   \* this.sections and render_meta.sections: id -> section
  fields,     \* typeInstance.fields
  name,       \* the name of each object
  control,    \* the type of each field object
  form,       \* initialValue of the name control of each card
  prior,      \* priorValue of each card
  newFields,  \* cards whose name may be changed in edit mode
  known,      \* FieldIdentifierValidationService
  valid,      \* contentValid of the wizard
  locked,     \* activeDuplicateField
  left,       \* steps left
  ways        \* history: what the user has done that may set the two apart

cards == <<name, control, form, prior, newFields>>
templates == <<loaded, available, listed>>
vars == <<mode, templates, sections, fields, cards, known, valid, locked, left, ways>>

----------------------------------------------------------------------------
(* An entry of a section is an object, or after a failed save a name.        *)

Label(e) == IF e \in Objects THEN name[e] ELSE e
Cards(s) == sections[s].fields \cap Objects
Shown(s) == {Label(e) : e \in sections[s].fields}
FieldNames == {name[o] : o \in Range(fields)}

\* What is left of the list with the objects in S only: SelectSeq, with the place of
\* each element counted.
Only(S) ==
  LET kept == {i \in DOMAIN fields : fields[i] \in S}
      Rank(i) == Cardinality({j \in kept : j <= i})
  IN  [k \in 1..Cardinality(kept) |-> fields[CHOOSE i \in kept : Rank(i) = k]]

InUse == Range(fields) \cup UNION {Cards(s) : s \in DOMAIN sections}
Unused == Objects \ InUse
Titles == {sections[s].title : s \in DOMAIN sections}
NewSection == CHOOSE s \in SectionIds : s \notin DOMAIN sections \cup Titles
Room(n) == /\ SectionIds \ (DOMAIN sections \cup Titles) # {}
           /\ Cardinality(Unused) >= n
Section(k, title, es) == [kind |-> k, title |-> title, fields |-> es, new |-> TRUE]
With(s, section) == [x \in DOMAIN sections \cup {s} |-> IF x = s THEN section ELSE sections[x]]

\* randomName, and createUniqueID for a template's field.
Random(n) == n \in Names \ ({TemplateName, GlobalName, LocationName} \cup FieldNames
                              \cup UNION {Shown(s) : s \in DOMAIN sections})

\* isGlobalSection, isGlobalField: nothing is before the templates have come.
IsGlobalSection(s) == loaded /\ sections[s].kind = "global"
IsGlobalField(c) == loaded /\ name[c] = GlobalName

\* isFieldHighlighted looks for a second name in the same section only.
IsFieldHighlighted(s) == \E c, d \in Cards(s) : c # d /\ name[c] = name[d]
IsSectionHighlighted(s) ==
  IsFieldHighlighted(s) \/ \E t \in DOMAIN sections \ {s} : sections[t].title = sections[s].title
Highlighted == \E s \in DOMAIN sections : IsSectionHighlighted(s)

\* Saving, and dragging a control or a section.
MayDrag == locked = None /\ ~Highlighted
IsSaveButtonEnabled == MayDrag /\ valid /\ \A s \in DOMAIN sections : sections[s].fields # {}

Step == left > 0 /\ left' = left - 1
Register == known' = {name'[o] : o \in Range(fields')}

\* The wizard looks at the type again when its list of fields is a new one.
ContentValid == valid' = (fields' # <<>> /\ DOMAIN sections' # {})

\* A new card shows the name of its object.
Card(S, n) == /\ name' = [o \in Objects |-> IF o \in S THEN n[o] ELSE name[o]]
              /\ form' = [o \in Objects |-> IF o \in S THEN n[o] ELSE form[o]]
              /\ prior' = [o \in Objects |-> IF o \in S THEN None ELSE prior[o]]

----------------------------------------------------------------------------
\* A type as the server has it: a field per name, and the setter TypeInstance
\* puts the objects where its sections name them.
Opened(type) ==
  LET names == UNION {type[s].names : s \in DOMAIN type}
      object == CHOOSE f \in Injection(names, Objects) : TRUE
  IN  /\ fields = SetToSeq(Range(object))
      /\ name = [o \in Objects |-> IF o \in Range(object) THEN CHOOSE n \in names : object[n] = o ELSE None]
      /\ sections = [s \in DOMAIN type |->
                       [kind |-> type[s].kind, title |-> s, new |-> FALSE,
                        fields |-> {object[n] : n \in type[s].names}]]
      /\ listed = (\E s \in DOMAIN type : type[s].kind = "global")

Init == /\ \/ mode = "create" /\ Opened(<<>>)
           \/ mode = "edit" /\ Opened(Base)
        /\ loaded = FALSE /\ available = FALSE
        /\ control = [o \in Objects |-> "checked"]
        /\ form = name /\ prior = [o \in Objects |-> None]
        /\ newFields = {}
        /\ known = FieldNames
        /\ valid = (fields # <<>> /\ DOMAIN sections # {})
        /\ locked = None
        /\ left = MaxSteps
        /\ ways = {}

----------------------------------------------------------------------------
(* Dropping controls and templates: one object in both lists. *)

NewObject == CHOOSE o \in Unused : TRUE

NewField(k, n) ==
  /\ fields' = Append(fields, NewObject)
  /\ control' = [control EXCEPT ![NewObject] = k]
  /\ Card({NewObject}, [name EXCEPT ![NewObject] = n])
  /\ newFields' = newFields \cup {NewObject}
  /\ ContentValid

DropSection(kind) ==
  /\ Step /\ MayDrag /\ Room(0)
  /\ kind # "global"
  /\ sections' = With(NewSection, Section(kind, NewSection, {}))
  /\ UNCHANGED <<mode, templates, fields, cards, known, valid, locked, ways>>

\* A template is dropped with its field, named n; known is not brought up to date.
DropWithField(kind, n) ==
  /\ sections' = With(NewSection, Section(kind, NewSection, {NewObject}))
  /\ NewField("checked", n)

DropTemplate(n) ==
  /\ Step /\ MayDrag /\ Room(1)
  /\ IF TemplateName \in FieldNames THEN Random(n) ELSE n = TemplateName
  /\ DropWithField("section", n)
  /\ UNCHANGED <<mode, templates, known, locked, ways>>

DropGlobalTemplate ==
  /\ Step /\ MayDrag /\ Room(1)
  /\ available
  /\ available' = FALSE /\ listed' = TRUE
  /\ DropWithField("global", GlobalName)
  /\ ways' = ways \cup (IF GlobalName \in FieldNames THEN {"taken"} ELSE {})
  /\ UNCHANGED <<mode, loaded, known, locked>>

\* The name a control comes with. The Location control can be dragged whenever
\* the others can: its card has it held back when it appears, but lets it go when
\* it is replaced, and any highlight that comes and goes does so too, that of an
\* emptied label, or of a reference without a type.
NameOf(k, n) == IF k = "location" THEN n = LocationName ELSE Random(n)

\* onFieldDrop of a control. A multi data section takes no location.
DropField(s, k, n) ==
  /\ Step /\ MayDrag /\ Unused # {}
  /\ ~IsGlobalSection(s)
  /\ k = "location" => sections[s].kind # "multi"
  /\ NameOf(k, n)
  /\ sections' = [sections EXCEPT ![s].fields = @ \cup {NewObject}]
  /\ NewField(k, n)
  /\ ways' = ways \cup (IF sections[s].kind = "global" THEN {"early"} ELSE {})
                  \cup (IF n \in FieldNames THEN {"nextLocation"} ELSE {})
  /\ UNCHANGED <<mode, templates, known, locked>>

----------------------------------------------------------------------------
(* Moving and copying. A drop and the end of its drag are one step: nothing   *)
(* comes between them.                                                        *)

\* Mutant: the object stays where it was in the list.
ListTwice(c) == fields' = Append(fields, c)

\* The copy is appended to the list and the object taken out. Of an object that
\* is not in the list the last element goes, the copy itself.
Relist(c) ==
  fields' = IF c \in Range(fields) THEN Append(Only(Range(fields) \ {c}), c) ELSE fields

\* onFieldDrop, onFieldDragged.
MoveField(c, s, t) ==
  /\ Step /\ locked = None
  /\ c \in Cards(s)
  /\ ~IsFieldHighlighted(s)
  /\ ~IsGlobalSection(s) /\ ~IsGlobalSection(t) /\ ~IsGlobalField(c)
  /\ sections' = [[sections EXCEPT ![s].fields = @ \ {c}] EXCEPT ![t].fields = @ \cup {c}]
  /\ Relist(c)
  /\ Card({c}, name)
  /\ newFields' = newFields \ {c}
  /\ UNCHANGED control
  /\ Register
  /\ ContentValid
  /\ ways' = ways \cup (IF s # t /\ "global" \in {sections[s].kind, sections[t].kind} THEN {"early"} ELSE {})
  /\ UNCHANGED <<mode, templates, locked>>

\* Copies of the cards in S, under new objects.
CopyOf(S) == CHOOSE f \in Injection(S, Unused) : TRUE
CopyCards(f, S) ==
  LET Of(o) == IF o \in Range(f) THEN CHOOSE c \in DOMAIN f : f[c] = o ELSE o
  IN  /\ Card(Range(f) \cup S, [o \in Objects |-> name[Of(o)]])
      /\ control' = [o \in Objects |-> control[Of(o)]]

\* The section is replaced by a copy. A card whose object is not in the list
\* needs no new one.
ReplaceByCopy(s) ==
  LET f == CopyOf(Cards(s) \cap Range(fields))
  IN  /\ sections' = [sections EXCEPT ![s].fields = (@ \ DOMAIN f) \cup Range(f), ![s].new = FALSE]
      /\ CopyCards(f, Cards(s) \ DOMAIN f)

\* onSectionDrop, onSectionDragged.
MoveSection(s) ==
  /\ Step /\ MayDrag
  /\ Cardinality(Unused) >= Cardinality(Cards(s))
  /\ ReplaceByCopy(s)
  /\ newFields' = newFields \ Cards(s)
  /\ known' = FieldNames
  /\ UNCHANGED <<mode, templates, fields, valid, locked, ways>>

\* With the control key pressed: the copy bears the same name.
CopySection(s) ==
  LET f == CopyOf(Cards(s))
  IN  /\ Step /\ MayDrag /\ Room(Cardinality(Cards(s)))
      /\ sections' = With(NewSection, Section(sections[s].kind, sections[s].title,
                                              (sections[s].fields \ Objects) \cup Range(f)))
      /\ CopyCards(f, {})
      /\ ways' = ways \cup {"copied"}
      /\ UNCHANGED <<mode, templates, fields, newFields, known, valid, locked>>

\* The name of a copy is changed, which the page does not allow for global ones.
RenameSection(s) ==
  /\ Step /\ locked = None
  /\ sections[s].title # s
  /\ sections[s].kind # "global"
  /\ mode = "create" \/ sections[s].new
  /\ sections' = [sections EXCEPT ![s].title = s]
  /\ UNCHANGED <<mode, templates, fields, cards, known, valid, locked, ways>>

----------------------------------------------------------------------------
(* Names of fields. *)

\* The first field of a name.
First(n) == CHOOSE i \in DOMAIN fields : /\ name[fields[i]] = n
                                         /\ \A j \in 1..(i - 1) : name[fields[j]] # n

\* Mutant: all fields of their names go.
WithoutNames(S) == Only({o \in Range(fields) : name[o] \notin {name[c] : c \in S}})

\* What is left if for each card in S the first field of its name goes.
Without(S) ==
  LET UpTo(i) == {j \in 1..i : name[fields[j]] = name[fields[i]]}
      OfName(i) == {c \in S : name[c] = name[fields[i]]}
  IN  Only({fields[i] : i \in {k \in DOMAIN fields : Cardinality(UpTo(k)) > Cardinality(OfName(k))}})

\* onFieldChange, handleFieldChanges: the first field that has the card's old
\* name gets the new one.
Change(c, n) ==
  /\ name' = IF form[c] \in FieldNames THEN [name EXCEPT ![fields[First(form[c])]] = n] ELSE name
  /\ form' = [form EXCEPT ![c] = n]
  /\ prior' = IF n = form[c] THEN prior ELSE [prior EXCEPT ![c] = form[c]]
  /\ locked' = None
  /\ known' = {name'[o] : o \in Range(fields)}

\* Mutant: a name that is taken is no duplicate.
AnyName(c, n) == TRUE

\* onInputChange of a field's name control.
Accepted(c, n) == n \notin known \/ n = prior[c]

\* Fields whose cards show copies.
Originals == Range(fields) \ UNION {Cards(s) : s \in DOMAIN sections}

MayRename(c) ==
  /\ locked \in {None, c}
  /\ mode = "create" \/ c \in newFields
  /\ ~IsGlobalField(c)

RenameField(s, c, n) ==
  /\ Step
  /\ c \in Cards(s) /\ control[c] = "checked" /\ MayRename(c)
  /\ n # form[c]
  /\ Accepted(c, n)
  /\ Change(c, n)
  /\ ways' = ways \cup (IF form[c] \in FieldNames /\ fields[First(form[c])] \in Originals
                             THEN {"originalRenamed"} ELSE {})
                  \cup (IF form[c] \in FieldNames /\ fields[First(form[c])] # c THEN {"otherRenamed"} ELSE {})
                  \cup (IF n \in FieldNames /\ n = prior[c] THEN {"priorName"} ELSE {})
                  \cup (IF n \in FieldNames \ known THEN {"notKnown"} ELSE {})
  /\ UNCHANGED <<mode, templates, sections, fields, control, newFields, valid>>

\* All else is locked until the user has typed another name, or the old one.
RenameRefused(s, c, n) ==
  /\ Step
  /\ c \in Cards(s) /\ control[c] = "checked" /\ MayRename(c)
  /\ n # form[c]
  /\ ~Accepted(c, n)
  /\ locked' = c
  /\ prior' = [prior EXCEPT ![c] = form[c]]
  /\ UNCHANGED <<mode, templates, sections, fields, name, control, form, newFields, known, valid, ways>>

TypeOldName(c) ==
  /\ locked = c
  /\ Change(c, form[c])
  /\ UNCHANGED <<mode, templates, sections, fields, control, newFields, valid, left, ways>>

\* onNameChange of a reference's card: the name goes into its own object, unchecked
\* and without a word to the page. That of a location cannot be changed.
RenameReference(s, c, n) ==
  /\ Step /\ locked = None
  /\ c \in Cards(s) /\ control[c] = "ref" /\ MayRename(c)
  /\ n # name[c]
  /\ name' = [name EXCEPT ![c] = n]
  /\ ways' = ways \cup (IF c \notin Range(fields) THEN {"copyRenamed"}
                       ELSE IF n \in FieldNames THEN {"unchecked"} ELSE {})
  /\ UNCHANGED <<mode, templates, sections, fields, control, form, prior, newFields, known, valid, locked>>

----------------------------------------------------------------------------
(* Removing. *)

\* Cards and names of what is gone are forgotten.
Forget(S) ==
  LET kept == {o \in Objects : o \in Range(fields') \/ \E s \in DOMAIN sections' : o \in sections'[s].fields}
      shown == {o \in Objects \ S : \E s \in DOMAIN sections' : o \in sections'[s].fields}
  IN  /\ name' = [o \in Objects |-> IF o \in kept THEN name[o] ELSE None]
      /\ control' = [o \in Objects |-> IF o \in kept THEN control[o] ELSE "checked"]
      /\ form' = [o \in Objects |-> IF o \in shown THEN form[o] ELSE None]
      /\ prior' = [o \in Objects |-> IF o \in shown THEN prior[o] ELSE None]
      /\ newFields' = newFields \cap shown

\* The fields of a section go with it, found by name; those of a multi data
\* section stay, and those of which only names are left.
TakeFields(s) == fields' = IF sections[s].kind = "multi" THEN fields ELSE Without(Cards(s))

\* Mutant: the template stays listed.
StayListed(s) == UNCHANGED <<available, listed>>

\* handleGlobalTemplates: of a template that was dropped here, or has been
\* found to be used when the templates came.
Unlist(s) ==
  IF IsGlobalSection(s) /\ ~available THEN available' = TRUE /\ listed' = FALSE
  ELSE UNCHANGED <<available, listed>>

RemoveSection(s) ==
  /\ Step /\ locked = None
  /\ Unlist(s)
  /\ TakeFields(s)
  /\ sections' = [t \in DOMAIN sections \ {s} |-> sections[t]]
  /\ Forget(Cards(s))
  /\ Register
  /\ IF sections[s].kind = "multi" THEN UNCHANGED valid ELSE ContentValid
  /\ ways' = ways \cup (IF sections[s].kind = "multi" /\ sections[s].fields # {} THEN {"multiRemoved"} ELSE {})
                  \cup (IF sections[s].fields \ Objects # {} THEN {"namesRemoved"} ELSE {})
                  \cup (IF sections[s].kind = "global" /\ ~loaded THEN {"early"} ELSE {})
  /\ UNCHANGED <<mode, loaded, locked>>

\* Mutant: the field goes from its section only.
HideField(c) == UNCHANGED <<fields, valid>>

\* removeField, for the list of fields: the object if it is there.
TakeField(c) ==
  IF c \in Range(fields) THEN fields' = Only(Range(fields) \ {c}) /\ ContentValid
  ELSE UNCHANGED <<fields, valid>>

RemoveField(s, c) ==
  /\ Step /\ locked = None
  /\ c \in Cards(s) /\ ~IsGlobalField(c)
  /\ sections' = [sections EXCEPT ![s].fields = @ \ {c}]
  /\ TakeField(c)
  /\ Forget({c})
  /\ Register
  /\ ways' = ways \cup (IF c \in Range(fields) THEN {} ELSE {"copyRemoved"})
                  \cup (IF sections[s].kind = "global" THEN {"early"} ELSE {})
  /\ UNCHANGED <<mode, templates, locked>>

----------------------------------------------------------------------------
\* The section templates are answered: ngOnChanges. (A listed template that is not in
\* the answer takes another one out of what is offered: there is one template here.)
TemplatesArrive ==
  /\ ~loaded
  /\ loaded' = TRUE
  /\ available' = ~listed
  /\ UNCHANGED <<mode, listed, sections, fields, cards, known, valid, locked, left, ways>>

\* Other steps of the wizard have the content looked at again.
EditOtherStep ==
  /\ UNCHANGED <<mode, templates, sections, fields, cards, known, locked, left, ways>>
  /\ ContentValid /\ valid' # valid

\* saveType names the fields in place of the objects, and the request fails. If
\* it succeeds the page is left. (A second failure with one name twice in a
\* section is left out.)
SaveFails ==
  /\ Step /\ IsSaveButtonEnabled
  /\ \A s \in DOMAIN sections : \A c \in Cards(s) : name[c] \notin sections[s].fields
  /\ \E s \in DOMAIN sections : Cards(s) # {}
  /\ sections' = [s \in DOMAIN sections |-> [sections[s] EXCEPT !.fields = Shown(s)]]
  /\ UNCHANGED fields
  /\ Forget({})
  /\ UNCHANGED <<mode, templates, known, valid, locked, ways>>

Next ==
  \/ \E kind \in Kinds : DropSection(kind)
  \/ \E n \in Names : DropTemplate(n)
  \/ DropGlobalTemplate
  \/ \E s \in DOMAIN sections :
       \/ \E k \in Controls, n \in Names : DropField(s, k, n)
       \/ \E c \in Cards(s) : \/ \E t \in DOMAIN sections : MoveField(c, s, t)
                              \/ \E n \in Names : \/ RenameField(s, c, n) \/ RenameRefused(s, c, n)
                                                 \/ RenameReference(s, c, n)
                              \/ RemoveField(s, c)
       \/ MoveSection(s) \/ CopySection(s) \/ RenameSection(s) \/ RemoveSection(s)
  \/ \E c \in Objects : TypeOldName(c)
  \/ TemplatesArrive \/ EditOtherStep \/ SaveFails

Spec == Init /\ [][Next]_vars

----------------------------------------------------------------------------
(* Properties. *)

\* Types; every object in use has a name, and the editor of a card is there.
TypeOK ==
  /\ mode \in {"create", "edit"} /\ {loaded, available, listed, valid} \subseteq BOOLEAN
  /\ DOMAIN sections \subseteq SectionIds
  /\ \A s \in DOMAIN sections :
       /\ sections[s].kind \in Kinds /\ sections[s].title \in SectionIds
       /\ sections[s].new \in BOOLEAN /\ sections[s].fields \subseteq Objects \cup Names
       /\ \A c \in Cards(s) : name[c] \in Names /\ form[c] \in Names
  /\ Range(fields) \subseteq Objects /\ Cardinality(Range(fields)) = Len(fields)
  /\ \A o \in Range(fields) : name[o] \in Names
  /\ control \in [Objects -> Controls]
  /\ newFields \subseteq Objects /\ known \subseteq Names
  /\ locked = None \/ locked \in UNION {Cards(s) : s \in DOMAIN sections}

\* The sections name fields that exist, unless a section was copied, or a field
\* renamed that has only a copy in a section, which had been moved, or the copy.
SectionsNameFields ==
  ways \cap {"originalRenamed", "copyRenamed", "copied"} = {} =>
    \A s \in DOMAIN sections : Shown(s) \subseteq FieldNames

\* Where a name is shown, and the fields that have it.
Showing(n) == {x \in (DOMAIN sections) \X (Objects \cup Names) :
                 x[2] \in sections[x[1]].fields /\ Label(x[2]) = n}
Having(n) == {o \in Range(fields) : name[o] = n}

\* Every field is shown once: as many entries of the sections have a name as there
\* are fields of that name, but after the ways above, the removal of the card of a
\* copy, of a multi data section or of a section that a failed save has left names in.
FieldsAreShown ==
  ways \cap {"originalRenamed", "copyRenamed", "copied", "copyRemoved", "multiRemoved", "namesRemoved"} = {} =>
    \A n \in FieldNames : Cardinality(Showing(n)) = Cardinality(Having(n))

\* No two fields have one name, unless a field was named as it had been before
\* (priorName), or as one dropped with a template or renamed as a reference
\* (notKnown), a reference got a name that a field had (unchecked), or a location
\* or the global template was dropped when the name that comes with it was taken.
IdentifiersUnique ==
  ways \cap {"priorName", "notKnown", "unchecked", "nextLocation", "taken"} = {} => Cardinality(FieldNames) = Len(fields)

\* The global template is listed if its section is there, whole, but after a
\* change before the templates came, a copy, or a card that renamed the field of
\* another one.
TemplateListed ==
  ways \cap {"early", "copied", "otherRenamed"} = {} =>
    /\ listed <=> \E s \in DOMAIN sections : sections[s].kind = "global"
    /\ \A s \in DOMAIN sections : sections[s].kind = "global" => Shown(s) = {GlobalName}
=============================================================================

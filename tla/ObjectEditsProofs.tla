--------------------------- MODULE ObjectEditsProofs ---------------------------
(***************************************************************************)
(* Proofs about ObjectEdits for any workers, objects, fields and bounds:   *)
(* type correctness, that a write keeps what its client has not sent and   *)
(* the renderer has found, that the log replays to the document and that   *)
(* versions name contents, but for the races the histories name; and that  *)
(* the log implements EditLog.                                             *)
(***************************************************************************)
EXTENDS ObjectEdits, SequenceTheorems, TLAPS

Partials == UNION {[F -> Values] : F \in SUBSET Fields}

\* What the request r makes of the document it has read.
After(r) == IF r.kind = "edit" THEN Edited(r, r.old, r.lost) ELSE [r.old EXCEPT !.active = r.active]

(* What a request carries, by how far it has come. *)
NamesOK(r) == r.rest \in Seq(Objs) /\ Len(r.rest) \in 1..MaxIds

SentOK(r) == /\ r.kind \in {"edit", "state"}
             /\ r.kind = "edit" => /\ r.sent \in Partials /\ r.active \in BOOLEAN \cup {NotSent}
                                   /\ "base" \in DOMAIN r /\ r.base \in Versions
             /\ r.kind = "state" => r.active \in BOOLEAN /\ r.sent = <<>>

ReadOK(r) == /\ r.old \in Documents /\ r.new = After(r)
             /\ r.lost \subseteq Fragile /\ (r.kind = "state" => r.lost = {})

Carries == {"kind", "rest", "sent", "active", "lost", "old", "new"}

RequestOK(r) ==
  /\ r.at \in Labels /\ "at" \in DOMAIN r
  /\ r.at # "idle" => Carries \subseteq DOMAIN r /\ NamesOK(r) /\ SentOK(r)
  /\ r.at \notin {"idle", "read"} => ReadOK(r)

RequestsOK == /\ req = [w \in Workers |-> req[w]]
              /\ \A w \in Workers : RequestOK(req[w])

Entries == [obj : Objs, new : Partials]
States == [fields : [Fields -> Values], version : Versions]

DataOK == /\ doc \in [Objs -> Documents]
          /\ access \subseteq {"READ", "UPDATE"}
          /\ log \in Seq(Entries)
          /\ had \in [Objs -> SUBSET States]
          /\ turns \in 0..MaxTurns

HistoryOK == stale \subseteq Workers /\ crossed \subseteq Objs /\ blind \subseteq Objs

TypeInv == RequestsOK /\ DataOK /\ HistoryOK

----------------------------------------------------------------------------
(* Versions and documents. *)

LEMMA VersionKinds ==
  ASSUME NEW old, NEW new
  PROVE  VersionType(old, new) \in {"major", "minor", "patch"}
BY Zenon DEF VersionType

LEMMA UpdateMajor ==
  ASSUME NEW v
  PROVE  UpdateVersion(v, "major") = [v EXCEPT !.major = @ + 1]
BY Zenon DEF UpdateVersion

LEMMA UpdateMinor ==
  ASSUME NEW v
  PROVE  UpdateVersion(v, "minor") = [v EXCEPT !.minor = @ + 1]
BY Zenon DEF UpdateVersion

LEMMA UpdatePatch ==
  ASSUME NEW v
  PROVE  UpdateVersion(v, "patch") = [v EXCEPT !.patch = @ + 1]
BY Zenon DEF UpdateVersion

\* v has come to u: no number of v is greater than that of u.
UpTo(v, u) == v.major <= u.major /\ v.minor <= u.minor /\ v.patch <= u.patch

\* An update gives a version that is greater than every version up to it.
LEMMA VersionsGrow ==
  ASSUME NEW v \in Versions, NEW kind \in {"major", "minor", "patch"}
  PROVE  /\ UpdateVersion(v, kind) \in Versions
         /\ \A u \in Versions : UpTo(u, v) => /\ UpTo(u, UpdateVersion(v, kind))
                                              /\ u # UpdateVersion(v, kind)
<1>1. CASE kind = "major"
  BY <1>1, UpdateMajor DEF Versions, UpTo
<1>2. CASE kind = "minor"
  BY <1>2, UpdateMinor DEF Versions, UpTo
<1>3. CASE kind = "patch"
  BY <1>3, UpdatePatch DEF Versions, UpTo
<1> QED BY <1>1, <1>2, <1>3

LEMMA OverlayType ==
  ASSUME NEW fields \in [Fields -> Values], NEW sent \in Partials, NEW lost
  PROVE  Overlay(Rendered(fields, lost), sent) \in [Fields -> Values]
<1>1. Rendered(fields, lost) \in [Fields -> Values]
  BY NoneAssumption DEF Rendered
<1> QED BY <1>1 DEF Overlay, Partials

\* Whatever a request makes of a document is a document.
LEMMA EditedType ==
  ASSUME NEW r, SentOK(r), r.kind = "edit", NEW d \in Documents, NEW lost
  PROVE  /\ Edited(r, d, lost) \in Documents
         /\ Edited(r, d, lost).fields = Overlay(Rendered(d.fields, lost), r.sent)
         /\ Edited(r, d, lost).active = IF r.active = NotSent THEN d.active ELSE r.active
         /\ \E kind \in {"major", "minor", "patch"} :
              Edited(r, d, lost).version = UpdateVersion(r.base, kind)
<1> DEFINE fields == Overlay(Rendered(d.fields, lost), r.sent)
           kind == VersionType(d.fields, fields)
<1>1. fields \in [Fields -> Values]
  BY OverlayType DEF SentOK, Documents
<1>2. kind \in {"major", "minor", "patch"}
  BY VersionKinds
<1>3. UpdateVersion(r.base, kind) \in Versions
  BY <1>2, VersionsGrow DEF SentOK
<1> HIDE DEF fields, kind
<1>4. Edited(r, d, lost) = [fields |-> fields, active |-> IF r.active = NotSent THEN d.active ELSE r.active,
                      version |-> UpdateVersion(r.base, kind)]
  BY DEF Edited, fields, kind
<1> QED BY <1>1, <1>2, <1>3, <1>4 DEF Documents, SentOK, fields

LEMMA AfterType ==
  ASSUME NEW r, SentOK(r), r.old \in Documents
  PROVE  After(r) \in Documents
<1>1. CASE r.kind = "edit"
  BY <1>1, EditedType DEF After
<1>2. CASE r.kind = "state"
  BY <1>2 DEF After, SentOK, Documents
<1> QED BY <1>1, <1>2 DEF SentOK

LEMMA TypeInvImpliesTypeOK == TypeInv => TypeOK
<1> SUFFICES ASSUME TypeInv PROVE TypeOK
  OBVIOUS
<1>1. ASSUME NEW i \in DOMAIN log
      PROVE  log[i].obj \in Objs /\ DOMAIN log[i].new \subseteq Fields
  <2>1. log[i] \in Entries
    BY ElementOfSeq, LenProperties DEF TypeInv, DataOK
  <2> QED BY <2>1 DEF Entries, Partials
<1>2. ASSUME NEW w \in Workers
      PROVE  /\ req[w].at \in Labels
             /\ ~At(w, "idle") => Len(req[w].rest) \in 1..MaxIds /\ Obj(w) \in Objs
             /\ req[w].at \in Labels \ {"idle", "read"} => req[w].new \in Documents
  <2>1. RequestOK(req[w])
    BY DEF TypeInv, RequestsOK
  <2>2. ~At(w, "idle") => Len(req[w].rest) \in 1..MaxIds /\ Obj(w) \in Objs
    BY <2>1 DEF At, RequestOK, NamesOK, Obj
  <2>3. req[w].at \in Labels \ {"idle", "read"} => req[w].new \in Documents
    BY <2>1, AfterType DEF RequestOK, ReadOK
  <2> QED BY <2>1, <2>2, <2>3 DEF RequestOK
<1> QED BY <1>1, <1>2 DEF TypeInv, DataOK, HistoryOK, TypeOK

----------------------------------------------------------------------------
(* The steps, one by one. *)

LEMMA IdleOK ==
  ASSUME NEW how
  PROVE  RequestOK(Idle(how))
BY DEF RequestOK, Idle, Labels

\* A step of worker w leaves the requests of the others.
LEMMA SetRequest ==
  ASSUME RequestsOK, NEW w \in Workers, NEW r, RequestOK(r), req' = [req EXCEPT ![w] = r]
  PROVE  RequestsOK' /\ req'[w] = r /\ \A u \in Workers \ {w} : req'[u] = req[u]
BY DEF RequestsOK

LEMMA AnswerKeeps ==
  ASSUME RequestsOK, NEW w \in Workers, NEW how, Answer(w, how)
  PROVE  RequestsOK' /\ req'[w].at = "idle" /\ \A u \in Workers \ {w} : req'[u] = req[u]
<1>1. RequestsOK' /\ req'[w] = Idle(how) /\ \A u \in Workers \ {w} : req'[u] = req[u]
  BY IdleOK, SetRequest DEF Answer
<1> QED BY <1>1 DEF Idle

\* How far a request has come does not change what it makes of its document.
LEMMA AtOnly ==
  ASSUME NEW r, SentOK(r), Carries \subseteq DOMAIN r, "at" \in DOMAIN r, NEW label,
         ReadOK(r)
  PROVE  LET s == [r EXCEPT !.at = label]
         IN  /\ s.at = label /\ DOMAIN s = DOMAIN r
             /\ s.kind = r.kind /\ s.rest = r.rest /\ s.sent = r.sent /\ s.active = r.active
             /\ s.lost = r.lost /\ s.old = r.old /\ s.new = r.new
             /\ r.kind = "edit" => s.base = r.base
             /\ SentOK(s) /\ ReadOK(s)
<1> DEFINE s == [r EXCEPT !.at = label]
<1>1. /\ s.at = label /\ DOMAIN s = DOMAIN r
      /\ s.kind = r.kind /\ s.rest = r.rest /\ s.sent = r.sent /\ s.active = r.active
      /\ s.lost = r.lost /\ s.old = r.old /\ s.new = r.new
      /\ r.kind = "edit" => s.base = r.base
  BY DEF Carries
<1> HIDE DEF s
<1>2. SentOK(s)
  BY <1>1 DEF SentOK
<1>3. ReadOK(s)
  BY <1>1 DEF ReadOK, After, Edited
<1> QED BY <1>1, <1>2, <1>3 DEF s

LEMMA GoToKeeps ==
  ASSUME RequestsOK, NEW w \in Workers, req[w].at \in {"verify", "write", "reread"},
         NEW label \in {"write", "reread", "log"}, GoTo(w, label)
  PROVE  /\ RequestsOK' /\ \A u \in Workers \ {w} : req'[u] = req[u]
         /\ req'[w] = [req[w] EXCEPT !.at = label]
         /\ req'[w].at = label /\ Obj(w)' = Obj(w) /\ req'[w].kind = req[w].kind
         /\ req'[w].old = req[w].old /\ req'[w].new = req[w].new
<1> DEFINE r == req[w]
           s == [r EXCEPT !.at = label]
<1>1. RequestOK(r)
  BY DEF RequestsOK
<1>2. /\ s.at = label /\ DOMAIN s = DOMAIN r
      /\ s.kind = r.kind /\ s.rest = r.rest /\ s.old = r.old /\ s.new = r.new
      /\ SentOK(s) /\ ReadOK(s)
  BY <1>1, AtOnly DEF RequestOK
<1> HIDE DEF s
<1>3. RequestOK(s)
  BY <1>1, <1>2 DEF RequestOK, NamesOK, Labels
<1>4. req' = [req EXCEPT ![w] = s]
  BY DEF GoTo, s
<1>5. RequestsOK' /\ req'[w] = s /\ \A u \in Workers \ {w} : req'[u] = req[u]
  BY <1>3, <1>4, SetRequest
<1> QED BY <1>2, <1>5 DEF Obj, s

\* A request begins.
LEMMA StartKeeps ==
  ASSUME TypeInv, NEW w \in Workers, Start(w)
  PROVE  /\ RequestsOK' /\ \A u \in Workers \ {w} : req'[u] = req[u]
         /\ At(w, "idle") /\ req'[w].at = "read"
         /\ turns' \in 0..MaxTurns /\ UNCHANGED <<doc, access, log, first>>
<1> DEFINE Fresh(r) == r.at = "read" /\ RequestOK(r)
<1>1. ASSUME NEW r, Begin(w, r), Fresh(r)
      PROVE  /\ RequestsOK' /\ \A u \in Workers \ {w} : req'[u] = req[u]
             /\ At(w, "idle") /\ req'[w].at = "read"
             /\ turns' \in 0..MaxTurns /\ UNCHANGED <<doc, access, log, first>>
  <2>1. RequestsOK' /\ req'[w] = r /\ \A u \in Workers \ {w} : req'[u] = req[u]
    BY <1>1, SetRequest DEF Begin, TypeInv
  <2>2. Len(r.rest) \in Nat
    BY <1>1 DEF RequestOK, NamesOK
  <2>3. turns' \in 0..MaxTurns
    BY <1>1, <2>2, BoundsAssumption DEF Begin, TypeInv, DataOK
  <2> QED BY <1>1, <2>1, <2>3 DEF Begin, db
<1>2. ASSUME NEW ids \in IdLists, NEW sent \in Sends, NEW version \in Seen \cup {NotSent},
             StartEdit(w, ids, sent, version)
      PROVE  \E r : Begin(w, r) /\ Fresh(r)
  <2> DEFINE base == IF version = NotSent THEN Default ELSE version
             r == [at |-> "read", kind |-> "edit", rest |-> ids, sent |-> sent.fields,
                   active |-> sent.active, base |-> base, lost |-> {}, old |-> Unread, new |-> Unread]
  <2>1. Begin(w, r)
    BY <1>2 DEF StartEdit
  <2>2. ids \in Seq(Objs) /\ Len(ids) \in 1..MaxIds
    <3>1. PICK n \in 1..MaxIds : ids \in [1..n -> Objs]
      BY DEF IdLists
    <3>2. n \in Nat /\ ids \in Seq(Objs)
      BY <3>1, BoundsAssumption, SeqDef
    <3> QED BY <3>1, <3>2, LenProperties
  <2>3. base \in Versions
    <3>1. Seen \subseteq Versions
      BY DEF Seen, TypeInv, DataOK, States
    <3> QED BY <3>1 DEF Default, Versions
  <2>4. sent.fields \in Partials /\ sent.active \in BOOLEAN \cup {NotSent}
    BY SendsAssumption DEF Partials
  <2>5. Fresh(r)
    BY <2>2, <2>3, <2>4 DEF RequestOK, NamesOK, SentOK, Carries, Labels
  <2> QED BY <2>1, <2>5
<1>3. ASSUME NEW o \in Objs, NEW active \in BOOLEAN, StartState(w, o, active)
      PROVE  \E r : Begin(w, r) /\ Fresh(r)
  <2> DEFINE r == [at |-> "read", kind |-> "state", rest |-> <<o>>, sent |-> <<>>,
                   active |-> active, lost |-> {}, old |-> Unread, new |-> Unread]
  <2>1. Begin(w, r)
    BY <1>3 DEF StartState
  <2>2. <<o>> \in Seq(Objs) /\ Len(<<o>>) \in 1..MaxIds
    BY BoundsAssumption
  <2>3. Fresh(r)
    BY <2>2 DEF RequestOK, NamesOK, SentOK, Carries, Labels
  <2> QED BY <2>1, <2>3
<1> HIDE DEF Fresh
<1> QED BY <1>1, <1>2, <1>3 DEF Start

\* The document read becomes the old one; the request goes on as it was.
LEMMA ReadKeeps ==
  ASSUME TypeInv, NEW w \in Workers, Read(w)
  PROVE  /\ RequestsOK' /\ \A u \in Workers \ {w} : req'[u] = req[u]
         /\ At(w, "read")
         /\ \/ req'[w].at = "idle"
            \/ /\ req'[w].at = "verify" /\ Obj(w)' = Obj(w)
               /\ req'[w].old = doc[Obj(w)]
         /\ UNCHANGED <<doc, access, log, turns, first>>
<1> DEFINE r == req[w]
           d == doc[Obj(w)]
           s(new, lost) == [r EXCEPT !.at = "verify", !.lost = lost, !.old = d, !.new = new]
           Makes(new, lost) == /\ \/ r.kind = "edit" /\ new = Edited(r, d, lost)
                                  \/ r.kind = "state" /\ new = [d EXCEPT !.active = r.active] /\ lost = {}
                               /\ req' = [req EXCEPT ![w].at = "verify", ![w].lost = lost,
                                                     ![w].old = d, ![w].new = new]
<1>1. RequestOK(r) /\ r.at = "read"
  BY DEF TypeInv, RequestsOK, Read, At
<1>2. Obj(w) \in Objs /\ d \in Documents
  BY <1>1 DEF RequestOK, NamesOK, Obj, TypeInv, DataOK
<1>3. ASSUME NEW new, NEW lost \in SUBSET Fragile, Makes(new, lost)
      PROVE  /\ RequestsOK' /\ \A u \in Workers \ {w} : req'[u] = req[u]
             /\ req'[w].at = "verify" /\ Obj(w)' = Obj(w) /\ req'[w].old = d
  <2> DEFINE t == s(new, lost)
  <2>1. /\ t.at = "verify" /\ t.lost = lost /\ t.old = d /\ t.new = new /\ DOMAIN t = DOMAIN r
        /\ t.kind = r.kind /\ t.rest = r.rest /\ t.sent = r.sent /\ t.active = r.active
        /\ r.kind = "edit" => t.base = r.base
    BY <1>1 DEF RequestOK, Carries, SentOK
  <2>2. req' = [req EXCEPT ![w] = t]
    BY <1>3
  <2> HIDE DEF t
  <2>3. SentOK(t)
    BY <1>1, <2>1 DEF RequestOK, SentOK
  <2>4. ReadOK(t)
    BY <1>2, <1>3, <2>1 DEF ReadOK, After, Edited
  <2>5. RequestOK(t)
    BY <1>1, <2>1, <2>3, <2>4 DEF RequestOK, NamesOK, Labels
  <2>6. RequestsOK' /\ req'[w] = t /\ \A u \in Workers \ {w} : req'[u] = req[u]
    BY <2>2, <2>5, SetRequest DEF TypeInv
  <2> QED BY <2>1, <2>6 DEF Obj
<1>4. CASE \E how : Answer(w, how)
  <2>1. PICK how : Answer(w, how)
    BY <1>4
  <2> QED BY <1>1, <2>1, AnswerKeeps DEF Read, TypeInv, db, At
<1>5. CASE ~\E how : Answer(w, how)
  <2>1. \E new : \E lost \in SUBSET Fragile : Makes(new, lost)
    BY <1>5 DEF Read
  <2> HIDE DEF Makes
  <2> QED BY <1>1, <1>3, <2>1 DEF Read, db, At
<1> QED BY <1>4, <1>5

LEMMA VerifyKeeps ==
  ASSUME TypeInv, NEW w \in Workers, Verify(w)
  PROVE  /\ RequestsOK' /\ \A u \in Workers \ {w} : req'[u] = req[u]
         /\ At(w, "verify")
         /\ \/ req'[w].at = "idle"
            \/ /\ req'[w].at = "write" /\ Obj(w)' = Obj(w)
               /\ req'[w].old = req[w].old
         /\ UNCHANGED <<doc, access, log, turns, first>>
<1>1. CASE GoTo(w, "write")
  BY <1>1, GoToKeeps DEF Verify, At, TypeInv, db
<1>2. CASE Answer(w, "refused")
  BY <1>2, AnswerKeeps DEF Verify, TypeInv, db
<1> QED BY <1>1, <1>2 DEF Verify

LEMMA WriteKeeps ==
  ASSUME TypeInv, NEW w \in Workers, Write(w)
  PROVE  /\ RequestsOK' /\ \A u \in Workers \ {w} : req'[u] = req[u]
         /\ At(w, "write") /\ req'[w].at = "reread" /\ Obj(w)' = Obj(w) /\ Obj(w) \in Objs
         /\ req'[w].kind = req[w].kind /\ req'[w].old = req[w].old /\ req'[w].new = req[w].new
         /\ req[w].new \in Documents
         /\ doc' = [doc EXCEPT ![Obj(w)] = req[w].new] /\ doc' \in [Objs -> Documents]
         /\ UNCHANGED <<access, log, turns, first>>
<1>1. RequestOK(req[w]) /\ At(w, "write")
  BY DEF TypeInv, RequestsOK, Write
<1>2. Obj(w) \in Objs /\ req[w].new \in Documents
  BY <1>1, AfterType DEF RequestOK, NamesOK, ReadOK, Obj, At
<1> QED BY <1>1, <1>2, GoToKeeps DEF Write, At, TypeInv, DataOK

LEMMA RereadKeeps ==
  ASSUME TypeInv, NEW w \in Workers, Reread(w)
  PROVE  /\ RequestsOK' /\ \A u \in Workers \ {w} : req'[u] = req[u]
         /\ At(w, "reread")
         /\ \/ req'[w].at = "idle"
            \/ /\ req'[w].at = "log" /\ Obj(w)' = Obj(w) /\ req'[w].kind = req[w].kind
               /\ req'[w].old = req[w].old /\ req'[w].new = req[w].new
         /\ UNCHANGED <<doc, access, log, turns, first>>
<1>1. CASE GoTo(w, "log")
  BY <1>1, GoToKeeps DEF Reread, At, TypeInv, db
<1>2. CASE Answer(w, "refused")
  BY <1>2, AnswerKeeps DEF Reread, TypeInv, db
<1> QED BY <1>1, <1>2 DEF Reread

LEMMA EntryType ==
  ASSUME NEW o \in Objs, NEW old \in Documents, NEW new \in Documents
  PROVE  Entry(o, old, new) \in Entries
<1> DEFINE F == Changed(old.fields, new.fields)
<1>1. F \subseteq Fields
  BY DEF Changed
<1>2. new.fields \in [Fields -> Values]
  BY DEF Documents
<1>3. [f \in F |-> new.fields[f]] \in [F -> Values]
  BY <1>1, <1>2
<1> HIDE DEF F
<1>4. [f \in F |-> new.fields[f]] \in Partials
  BY <1>1, <1>3 DEF Partials
<1> QED BY <1>4 DEF Entry, Entries, F

\* The log gets the entry of an edit, or nothing; the request goes on to its
\* next object, or ends.
LEMMA LogKeeps ==
  ASSUME TypeInv, NEW w \in Workers, Log(w)
  PROVE  /\ RequestsOK' /\ \A u \in Workers \ {w} : req'[u] = req[u]
         /\ At(w, "log") /\ req'[w].at \in {"idle", "read"}
         /\ Obj(w) \in Objs /\ req[w].old \in Documents /\ req[w].new \in Documents
         /\ Entry(Obj(w), req[w].old, req[w].new) \in Entries
         /\ \/ req[w].kind = "edit" /\ log' = Append(log, Entry(Obj(w), req[w].old, req[w].new))
            \/ UNCHANGED log
         /\ log' \in Seq(Entries)
         /\ UNCHANGED <<doc, access, turns, first>>
<1> DEFINE r == req[w]
           e == Entry(Obj(w), r.old, r.new)
<1>1. RequestOK(r) /\ r.at = "log" /\ At(w, "log")
  BY DEF TypeInv, RequestsOK, Log, At
<1>2. Obj(w) \in Objs /\ r.old \in Documents /\ r.new \in Documents
  <2>1. NamesOK(r) /\ SentOK(r) /\ ReadOK(r)
    BY <1>1 DEF RequestOK
  <2>2. Head(r.rest) \in Objs
    BY <2>1 DEF NamesOK
  <2> QED BY <2>1, <2>2, AfterType DEF ReadOK, Obj
<1>3. e \in Entries
  BY <1>2, EntryType
<1>4. log' \in Seq(Entries)
  BY <1>3, AppendProperties DEF Log, TypeInv, DataOK
<1>5. CASE Answer(w, "done")
  BY <1>1, <1>2, <1>3, <1>4, <1>5, AnswerKeeps DEF Log, TypeInv
<1>6. CASE Len(r.rest) # 1 /\ req' = [req EXCEPT ![w].at = "read", ![w].rest = Tail(@)]
  <2> DEFINE s == [r EXCEPT !.at = "read", !.rest = Tail(@)]
  <2>1. req' = [req EXCEPT ![w] = s]
    BY <1>6
  <2>2. /\ s.at = "read" /\ s.rest = Tail(r.rest) /\ DOMAIN s = DOMAIN r
        /\ s.kind = r.kind /\ s.sent = r.sent /\ s.active = r.active
        /\ r.kind = "edit" => s.base = r.base
    BY <1>1 DEF RequestOK, Carries, SentOK
  <2> HIDE DEF s
  <2>3. NamesOK(s)
    <3>1. r.rest \in Seq(Objs)
      BY <1>1 DEF RequestOK, NamesOK
    <3>2. PICK n \in 1..MaxIds : n = Len(r.rest) /\ n # 1
      BY <1>1, <1>6 DEF RequestOK, NamesOK
    <3>3. n \in Nat /\ n - 1 \in 1..MaxIds
      <4>1. n # 1
        BY <3>2
      <4> QED BY <4>1, BoundsAssumption
    <3>4. r.rest # <<>>
      BY <3>2, <3>3, EmptySeq
    <3>5. s.rest \in Seq(Objs) /\ Len(s.rest) = n - 1
      BY <2>2, <3>1, <3>2, <3>4, HeadTailProperties
    <3> QED BY <3>3, <3>5 DEF NamesOK
  <2>4. SentOK(s)
    BY <1>1, <2>2 DEF RequestOK, SentOK
  <2>5. RequestOK(s)
    BY <1>1, <2>2, <2>3, <2>4 DEF RequestOK, Labels
  <2>6. RequestsOK' /\ req'[w] = s /\ \A u \in Workers \ {w} : req'[u] = req[u]
    BY <2>1, <2>5, SetRequest DEF TypeInv
  <2> QED BY <1>1, <1>2, <1>3, <1>4, <2>2, <2>6 DEF Log
<1> QED BY <1>5, <1>6 DEF Log, NextObject

LEMMA CrashKeeps ==
  ASSUME TypeInv, NEW w \in Workers, Crash(w)
  PROVE  /\ RequestsOK' /\ \A u \in Workers \ {w} : req'[u] = req[u]
         /\ ~At(w, "idle") /\ req'[w].at = "idle"
         /\ UNCHANGED <<doc, access, log, turns, first>>
BY AnswerKeeps DEF Crash, TypeInv, db

----------------------------------------------------------------------------
(* What any step does, for the invariants that follow. *)

\* A step writes a document, adds an entry to the log, or leaves both; only
\* its worker's request changes, and only a write is a Writing step.
Quiet(w) == /\ UNCHANGED <<doc, log, first>>
            /\ \A u \in Workers \ {w} : req'[u] = req[u]
            /\ \/ ~At(w, "idle") /\ req'[w].at = "idle"
               \/ At(w, "idle") /\ req'[w].at = "read"
               \/ At(w, "read") /\ req'[w].at = "verify" /\ Obj(w)' = Obj(w)
                                /\ req'[w].old = doc[Obj(w)]
               \/ At(w, "verify") /\ req'[w].at = "write" /\ Obj(w)' = Obj(w)
                                  /\ req'[w].old = req[w].old
               \/ At(w, "reread") /\ req'[w].at = "log" /\ Obj(w)' = Obj(w)
                                  /\ req'[w].kind = req[w].kind
                                  /\ req'[w].old = req[w].old /\ req'[w].new = req[w].new

Writes(w) == /\ UNCHANGED <<log, first>>
             /\ \A u \in Workers \ {w} : req'[u] = req[u]
             /\ At(w, "write") /\ req'[w].at = "reread" /\ Obj(w)' = Obj(w)
             /\ Obj(w) \in Objs /\ req[w].new \in Documents
             /\ req'[w].kind = req[w].kind
             /\ req'[w].old = req[w].old /\ req'[w].new = req[w].new
             /\ doc' = [doc EXCEPT ![Obj(w)] = req[w].new]

Logs(w) == /\ UNCHANGED <<doc, first>>
           /\ \A u \in Workers \ {w} : req'[u] = req[u]
           /\ At(w, "log") /\ req'[w].at \in {"idle", "read"}
           /\ Obj(w) \in Objs /\ req[w].old \in Documents /\ req[w].new \in Documents
           /\ \/ req[w].kind = "edit" /\ log' = Append(log, Entry(Obj(w), req[w].old, req[w].new))
              \/ UNCHANGED log

Rest == UNCHANGED <<doc, log, first, req>>

LEMMA NextKeeps ==
  ASSUME TypeInv, Next
  PROVE  /\ RequestsOK' /\ doc' \in [Objs -> Documents] /\ log' \in Seq(Entries)
         /\ access' \subseteq {"READ", "UPDATE"} /\ turns' \in 0..MaxTurns
         /\ History
         /\ Rest \/ \E w \in Workers : Quiet(w) \/ Writes(w) \/ Logs(w)
<1> DEFINE Good == /\ RequestsOK' /\ doc' \in [Objs -> Documents] /\ log' \in Seq(Entries)
                   /\ access' \subseteq {"READ", "UPDATE"} /\ turns' \in 0..MaxTurns
           Seen1 == Rest \/ \E w \in Workers : Quiet(w) \/ Writes(w) \/ Logs(w)
<1> USE DEF TypeInv, DataOK
<1>1. ASSUME NEW w \in Workers, Start(w) PROVE Good /\ Quiet(w)
  BY <1>1, StartKeeps DEF Quiet
<1>2. ASSUME NEW w \in Workers, Read(w) PROVE Good /\ Quiet(w)
  BY <1>2, ReadKeeps DEF Quiet, At
<1>3. ASSUME NEW w \in Workers, Verify(w) PROVE Good /\ Quiet(w)
  BY <1>3, VerifyKeeps DEF Quiet, At
<1>4. ASSUME NEW w \in Workers, Write(w) PROVE Good /\ Writes(w)
  BY <1>4, WriteKeeps DEF Writes
<1>5. ASSUME NEW w \in Workers, Reread(w) PROVE Good /\ Quiet(w)
  BY <1>5, RereadKeeps DEF Quiet, At
<1>6. ASSUME NEW w \in Workers, Log(w) PROVE Good /\ Logs(w)
  BY <1>6, LogKeeps DEF Logs
<1>7. ASSUME NEW w \in Workers, Crash(w) PROVE Good /\ Quiet(w)
  BY <1>7, CrashKeeps DEF Quiet
<1>8. ASSUME NEW A \in SUBSET {"READ", "UPDATE"}, SetAccess(A) PROVE Good /\ Rest
  <2>1. turns' \in 0..MaxTurns
    BY <1>8, BoundsAssumption DEF SetAccess
  <2>2. RequestsOK'
    BY <1>8 DEF SetAccess, RequestsOK
  <2> QED BY <1>8, <2>1, <2>2 DEF SetAccess, Rest
<1> HIDE DEF Good
<1>9. Good /\ Seen1
  BY <1>1, <1>2, <1>3, <1>4, <1>5, <1>6, <1>7, <1>8 DEF Next, Step
<1> QED BY <1>9 DEF Good, Next

\* Of the steps only a write is a Writing step, and it is one of its worker.
LEMMA WritingIsWrites ==
  ASSUME NEW w \in Workers, Quiet(w) \/ Writes(w) \/ Logs(w) \/ Rest, NEW v \in Workers
  PROVE  Writing(v) <=> v = w /\ Writes(w)
BY DEF Quiet, Writes, Logs, Rest, Writing, At

LEMMA TypeInvStep ==
  ASSUME TypeInv, [Next]_vars
  PROVE  TypeInv'
<1>1. CASE Next
  <2>1. had' \in [Objs -> SUBSET States]
    BY <1>1, NextKeeps DEF History, TypeInv, DataOK, States, Documents
  <2>2. stale' \subseteq Workers
    BY <1>1 DEF Next, History
  <2>3. ASSUME NEW w \in Workers, Writing(w) \/ LosesEntry(w) PROVE Obj(w) \in Objs
    BY <2>3 DEF TypeInv, RequestsOK, RequestOK, NamesOK, Obj, Writing, LosesEntry, At
  <2>4. crossed' \subseteq Objs /\ blind' \subseteq Objs
    BY <1>1, <2>3 DEF Next, History, TypeInv, HistoryOK
  <2> QED BY <1>1, <2>1, <2>2, <2>4, NextKeeps DEF TypeInv, DataOK, HistoryOK
<1>2. CASE UNCHANGED vars
  BY <1>2 DEF vars, db, history, TypeInv, RequestsOK, DataOK, HistoryOK
<1> QED BY <1>1, <1>2

LEMMA TypeInvInit == Init => TypeInv
<1> SUFFICES ASSUME Init PROVE TypeInv
  OBVIOUS
<1>1. RequestsOK
  BY IdleOK DEF Init, RequestsOK
<1>2. DataOK
  BY BoundsAssumption, EmptySeq DEF Init, DataOK, States, Documents
<1> QED BY <1>1, <1>2 DEF Init, TypeInv, HistoryOK

LEMMA TypeInvCorrect == Spec => []TypeInv
BY TypeInvInit, TypeInvStep, PTL DEF Spec

\* Every reachable state of the edits has its type: the requests of
\* update_cmdb_object and update_cmdb_object_state, documents, versions, log.
THEOREM TypeCorrect == Spec => []TypeOK
BY TypeInvCorrect, TypeInvImpliesTypeOK, PTL

----------------------------------------------------------------------------
(* Nobody has written the object of a worker that is not stale. *)

\* What a worker is about to write starts from the document as it is, unless
\* the worker is stale.
Current == /\ \A w \in Workers \ stale : req[w].at \in {"verify", "write"} => req[w].old = doc[Obj(w)]
           /\ \A w \in stale : req[w].at \in {"verify", "write"}

LEMMA CurrentStep ==
  ASSUME TypeInv, Current, [Next]_vars
  PROVE  Current'
<1>1. CASE UNCHANGED vars
  BY <1>1 DEF vars, db, history, Current, Obj
<1>2. CASE Next
  <2>1. /\ Rest \/ \E v \in Workers : Quiet(v) \/ Writes(v) \/ Logs(v)
        /\ stale' = {w \in Workers : /\ req'[w].at \in {"verify", "write"}
                                     /\ \/ w \in stale
                                        \/ \E v \in Workers \ {w} : Writing(v) /\ Holds(w, Obj(v))}
    BY <1>2, NextKeeps DEF History
  <2>2. SUFFICES ASSUME NEW w \in Workers, w \notin stale', req'[w].at \in {"verify", "write"}
                 PROVE  req'[w].old = doc'[Obj(w)']
    BY <2>1 DEF Current
  <2>3. w \notin stale /\ \A v \in Workers \ {w} : Writing(v) => ~Holds(w, Obj(v))
    BY <2>1, <2>2
  <2>4. CASE Rest
    BY <2>2, <2>3, <2>4 DEF Rest, Current, Obj
  <2>5. ASSUME NEW v \in Workers, Quiet(v) PROVE req'[w].old = doc'[Obj(w)']
    <3>1. CASE v = w
      BY <2>2, <2>3, <2>5, <3>1 DEF Quiet, Current, At
    <3>2. CASE v # w
      BY <2>2, <2>3, <2>5, <3>2 DEF Quiet, Current, Obj
    <3> QED BY <3>1, <3>2
  <2>6. ASSUME NEW v \in Workers, Writes(v) PROVE req'[w].old = doc'[Obj(w)']
    <3>1. v # w /\ Writing(v)
      BY <2>2, <2>6, WritingIsWrites DEF Writes
    <3>2. req'[w] = req[w] /\ Obj(w)' = Obj(w) /\ req[w].old = doc[Obj(w)]
      BY <2>2, <2>3, <2>6, <3>1 DEF Writes, Current, Obj
    <3>3. Obj(w) # Obj(v)
      BY <2>2, <2>3, <3>1, <3>2 DEF Holds
    <3>4. doc'[Obj(w)] = doc[Obj(w)]
      BY <2>6, <3>3 DEF Writes, TypeInv, DataOK
    <3> QED BY <3>2, <3>4
  <2>7. ASSUME NEW v \in Workers, Logs(v) PROVE req'[w].old = doc'[Obj(w)']
    <3>1. v # w
      BY <2>2, <2>7 DEF Logs
    <3> QED BY <2>2, <2>3, <2>7, <3>1 DEF Logs, Current, Obj
  <2> QED BY <2>1, <2>4, <2>5, <2>6, <2>7
<1> QED BY <1>1, <1>2

LEMMA CurrentInit == Init => Current
BY DEF Init, Current, Idle

LEMMA CurrentCorrect == Spec => [](TypeInv /\ Current)
<1>1. TypeInv /\ Current /\ [Next]_vars => (TypeInv /\ Current)'
  BY TypeInvStep, CurrentStep
<1>2. Init => TypeInv /\ Current
  BY TypeInvInit, CurrentInit
<1> QED BY <1>1, <1>2, PTL DEF Spec

\* What a worker writes differs from what it has read in what its client sent.
LEMMA AfterKeepsUnsent ==
  ASSUME NEW r, SentOK(r), ReadOK(r)
  PROVE  /\ \A f \in Fields \ DOMAIN r.sent :
              After(r).fields[f] = IF f \in r.lost THEN None ELSE r.old.fields[f]
         /\ r.active = NotSent => After(r).active = r.old.active
         /\ r.kind = "state" => After(r).fields = r.old.fields /\ After(r).version = r.old.version
<1>1. CASE r.kind = "edit"
  <2>1. /\ After(r).fields = Overlay(Rendered(r.old.fields, r.lost), r.sent)
        /\ After(r).active = IF r.active = NotSent THEN r.old.active ELSE r.active
    BY <1>1, EditedType DEF After, ReadOK
  <2>2. \A f \in Fields \ DOMAIN r.sent :
          Overlay(Rendered(r.old.fields, r.lost), r.sent)[f] = IF f \in r.lost THEN None ELSE r.old.fields[f]
    BY DEF Overlay, Rendered
  <2> QED BY <1>1, <2>1, <2>2
<1>2. CASE r.kind = "state"
  BY <1>2, NotSentAssumption DEF After, SentOK, ReadOK, Documents
<1> QED BY <1>1, <1>2 DEF SentOK

\* A step that writes an object another worker has not written since it was
\* read leaves what the client has not sent and the renderer has found: Write.
LEMMA UnsentKeptStep ==
  ASSUME TypeInv, Current, [Next]_vars, NEW w \in Workers, Writing(w), w \notin stale
  PROVE  /\ \A f \in Fields \ DOMAIN req[w].sent :
              doc'[Obj(w)].fields[f] = IF f \in req[w].lost THEN None ELSE doc[Obj(w)].fields[f]
         /\ req[w].active = NotSent => doc'[Obj(w)].active = doc[Obj(w)].active
<1>1. Next
  BY DEF Writing, At, vars
<1>2. Writes(w)
  BY <1>1, NextKeeps, WritingIsWrites
<1>3. req[w].old = doc[Obj(w)]
  BY DEF Current, Writing, At
<1>4. SentOK(req[w]) /\ ReadOK(req[w])
  BY <1>2 DEF TypeInv, RequestsOK, RequestOK, Writes, At
<1>5. doc'[Obj(w)] = After(req[w])
  BY <1>2, <1>4 DEF Writes, ReadOK, TypeInv, DataOK
<1> QED BY <1>3, <1>4, <1>5, AfterKeepsUnsent DEF ReadOK

\* A write of update_cmdb_object or update_cmdb_object_state changes what the
\* client has not sent only if another write came between its read and it, or to
\* None where CmdbRender has got no value for a reference or a date.
THEOREM UnsentStaysKept == Spec => UnsentKept
<1>1. TypeInv /\ Current /\ [Next]_vars
        => [\A w \in Workers : Writing(w) /\ w \notin stale =>
              LET o == Obj(w)
              IN  /\ \A f \in Fields \ DOMAIN req[w].sent :
                       doc'[o].fields[f] = IF f \in req[w].lost THEN None ELSE doc[o].fields[f]
                  /\ req[w].active = NotSent => doc'[o].active = doc[o].active]_vars
  BY UnsentKeptStep
<1> QED BY <1>1, CurrentCorrect, PTL DEF Spec, UnsentKept

----------------------------------------------------------------------------
(* Versions name contents. *)

StateOf(d) == [fields |-> d.fields, version |-> d.version]

\* An object that no write has taken by surprise has had no later version than
\* the one it has, and what a worker has read is something the object has had.
VersionsInv ==
  /\ \A o \in Objs : StateOf(doc[o]) \in had[o]
  /\ \A o \in Objs \ blind : \A h \in had[o] : UpTo(h.version, doc[o].version)
  /\ \A w \in Workers : req[w].at \in {"verify", "write"} => StateOf(req[w].old) \in had[Obj(w)]
  /\ VersionNamesFields

LEMMA HadKeeps ==
  ASSUME TypeInv, Next
  PROVE  /\ \A o \in Objs : had'[o] = had[o] \cup {StateOf(doc'[o])}
         /\ blind' = blind \cup
              {Obj(w) : w \in {v \in Workers : Writing(v) /\ doc[Obj(v)].version # From(v)}}
BY DEF Next, History, StateOf

\* What a worker writes on the version the object has: the state it has, or
\* one with a later version.
LEMMA WriteVersions ==
  ASSUME TypeInv, VersionsInv, NEW w \in Workers, Writes(w), Obj(w) \notin blind,
         doc[Obj(w)].version = From(w)
  PROVE  LET new == StateOf(req[w].new)
         IN  \/ new = StateOf(doc[Obj(w)])
             \/ \A h \in had[Obj(w)] : UpTo(h.version, new.version) /\ h.version # new.version
<1> DEFINE r == req[w]
           o == Obj(w)
           new == StateOf(r.new)
<1>1. o \in Objs /\ SentOK(r) /\ ReadOK(r) /\ r.at = "write"
  BY DEF TypeInv, RequestsOK, RequestOK, Writes, At
<1>2. CASE r.kind = "edit"
  <2>1. r.base = doc[o].version /\ r.base \in Versions
    BY <1>1, <1>2 DEF From, SentOK
  <2>2. PICK kind \in {"major", "minor", "patch"} : r.new.version = UpdateVersion(r.base, kind)
    BY <1>1, <1>2, EditedType DEF ReadOK, After
  <2>3. ASSUME NEW h \in had[o]
        PROVE  UpTo(h.version, new.version) /\ h.version # new.version
    <3>1. h.version \in Versions
      BY <1>1 DEF TypeInv, DataOK, States
    <3>2. UpTo(h.version, r.base)
      BY <1>1, <2>1 DEF VersionsInv
    <3> QED BY <2>1, <2>2, <3>1, <3>2, VersionsGrow DEF StateOf
  <2> QED BY <2>3
<1>3. CASE r.kind = "state"
  <2>1. r.new.fields = r.old.fields /\ r.new.version = r.old.version
    BY <1>1, <1>3, AfterKeepsUnsent DEF ReadOK
  <2>2. new \in had[o] /\ StateOf(doc[o]) \in had[o]
    BY <1>1, <2>1 DEF VersionsInv, StateOf
  <2>3. new.version = StateOf(doc[o]).version
    BY <1>3 DEF From, StateOf
  <2> QED BY <1>1, <2>2, <2>3 DEF VersionsInv, VersionNamesFields
<1> QED BY <1>1, <1>2, <1>3 DEF SentOK

LEMMA VersionsStep ==
  ASSUME TypeInv, VersionsInv, [Next]_vars
  PROVE  VersionsInv'
<1>1. CASE UNCHANGED vars
  BY <1>1 DEF vars, db, history, VersionsInv, VersionNamesFields, Obj
<1>2. CASE Next
  <2>1. /\ Rest \/ \E v \in Workers : Quiet(v) \/ Writes(v) \/ Logs(v)
        /\ \A o \in Objs : had'[o] = had[o] \cup {StateOf(doc'[o])}
        /\ blind' = blind \cup
             {Obj(w) : w \in {v \in Workers : Writing(v) /\ doc[Obj(v)].version # From(v)}}
    BY <1>2, NextKeeps, HadKeeps
  <2>2. \A o \in Objs : StateOf(doc'[o]) \in had'[o] /\ had[o] \subseteq had'[o]
    BY <2>1
  \* An object that is not written has had nothing new.
  <2>3. ASSUME NEW o \in Objs \ blind', doc'[o] = doc[o]
        PROVE  /\ \A h \in had'[o] : UpTo(h.version, doc'[o].version)
               /\ \A a, b \in had'[o] : a.version = b.version => a = b
    <3>1. o \notin blind
      BY <2>1, <2>3
    <3>2. had'[o] = had[o]
      BY <2>1, <2>3 DEF VersionsInv
    <3> QED BY <2>3, <3>1, <3>2 DEF VersionsInv, VersionNamesFields
  \* One that is written gets what WriteVersions says.
  <2>4. ASSUME NEW v \in Workers, Writes(v), Obj(v) \notin blind'
        PROVE  LET o == Obj(v)
               IN  /\ \A h \in had'[o] : UpTo(h.version, doc'[o].version)
                   /\ \A a, b \in had'[o] : a.version = b.version => a = b
    <3> DEFINE o == Obj(v)
               new == StateOf(req[v].new)
    <3>1. Writing(v) /\ o \in Objs
      BY <2>4, WritingIsWrites DEF Writes
    <3>2. o \notin blind /\ doc[o].version = From(v)
      BY <2>1, <2>4, <3>1
    <3>3. doc'[o] = req[v].new /\ new \in States
      BY <2>4, <3>1 DEF Writes, TypeInv, DataOK, StateOf, States, Documents
    <3>4. had'[o] = had[o] \cup {new} /\ StateOf(doc[o]) \in had[o] /\ had[o] \subseteq States
      BY <2>1, <3>1, <3>3 DEF VersionsInv, TypeInv, DataOK
    <3>5. /\ \A h \in had[o] : UpTo(h.version, doc[o].version)
          /\ \A a, b \in had[o] : a.version = b.version => a = b
      BY <3>1, <3>2 DEF VersionsInv, VersionNamesFields
    <3>6. CASE new = StateOf(doc[o])
      BY <3>3, <3>4, <3>5, <3>6 DEF StateOf
    <3>7. CASE \A h \in had[o] : UpTo(h.version, new.version) /\ h.version # new.version
      <4>1. UpTo(new.version, new.version)
        BY <3>3 DEF UpTo, States, Versions
      <4> QED BY <3>3, <3>4, <3>5, <3>7, <4>1 DEF StateOf
    <3> QED BY <2>4, <3>2, <3>6, <3>7, WriteVersions
  <2>5. \A o \in Objs \ blind' : /\ \A h \in had'[o] : UpTo(h.version, doc'[o].version)
                                 /\ \A a, b \in had'[o] : a.version = b.version => a = b
    <3> SUFFICES ASSUME NEW o \in Objs \ blind'
                 PROVE  /\ \A h \in had'[o] : UpTo(h.version, doc'[o].version)
                        /\ \A a, b \in had'[o] : a.version = b.version => a = b
      OBVIOUS
    <3>1. CASE doc'[o] = doc[o]
      BY <2>3, <3>1
    <3>2. CASE doc'[o] # doc[o]
      <4>1. PICK v \in Workers : Writes(v) /\ Obj(v) = o
        BY <2>1, <3>2 DEF Rest, Quiet, Logs, Writes, TypeInv, DataOK
      <4> QED BY <2>4, <4>1
    <3> QED BY <3>1, <3>2
  \* What a worker has read is the document as it was.
  <2>6. ASSUME NEW w \in Workers, req'[w].at \in {"verify", "write"}
        PROVE  StateOf(req'[w].old) \in had'[Obj(w)']
    <3>1. RequestOK(req'[w])
      BY <1>2, <2>6, NextKeeps DEF RequestsOK
    <3>2. Obj(w)' \in Objs
      BY <2>6, <3>1 DEF RequestOK, NamesOK, Obj
    <3>3. \/ /\ req[w].at \in {"verify", "write"} /\ req'[w].old = req[w].old
             /\ Obj(w)' = Obj(w)
          \/ req'[w].old = doc[Obj(w)] /\ Obj(w)' = Obj(w)
      BY <2>1, <2>6 DEF Rest, Quiet, Writes, Logs, At, Obj
    <3> QED BY <2>2, <3>2, <3>3 DEF VersionsInv
  <2>7. VersionNamesFields'
    BY <2>5 DEF VersionNamesFields
  <2> QED BY <2>2, <2>5, <2>6, <2>7 DEF VersionsInv
<1> QED BY <1>1, <1>2

LEMMA VersionsInit == Init => VersionsInv
<1> SUFFICES ASSUME Init PROVE VersionsInv
  OBVIOUS
<1>1. \A o \in Objs : had[o] = {StateOf(doc[o])} /\ doc[o].version \in Versions
  BY DEF Init, StateOf, Documents
<1>2. \A o \in Objs : UpTo(doc[o].version, doc[o].version)
  BY <1>1 DEF UpTo, Versions
<1>3. \A w \in Workers : req[w].at = "idle"
  BY DEF Init, Idle
<1> QED BY <1>1, <1>2, <1>3 DEF VersionsInv, VersionNamesFields, StateOf

\* An object has had different fields under one version only if the version that
\* update_version raised for one of its writes was not the one it had.
THEOREM VersionsNameFields == Spec => []VersionNamesFields
<1>1. TypeInv /\ VersionsInv /\ [Next]_vars => (TypeInv /\ VersionsInv)'
  BY TypeInvStep, VersionsStep
<1>2. Init => TypeInv /\ VersionsInv
  BY TypeInvInit, VersionsInit
<1>3. VersionsInv => VersionNamesFields
  BY DEF VersionsInv
<1> QED BY <1>1, <1>2, <1>3, PTL DEF Spec

----------------------------------------------------------------------------
(* The log tells the fields. *)

\* Of an object on which nothing went wrong: at most one request has written it
\* and not yet logged; the log tells what this one has read, or, if there is
\* none, the document.
LogInvOf(o) ==
  /\ (~\E w \in Workers : HasWritten(w, o)) => \A f \in Fields : ReplaysTo(o, f, doc[o].fields[f])
  /\ \A w \in Workers : HasWritten(w, o) =>
       /\ req[w].new.fields = doc[o].fields
       /\ \A f \in Fields : ReplaysTo(o, f, req[w].old.fields[f])
       /\ \A u \in Workers : HasWritten(u, o) => u = w

LogInv == \A o \in Objs \ crossed : LogInvOf(o)

\* An entry tells the fields of its object that change, and nothing else.
LEMMA EntryTells ==
  ASSUME NEW o \in Objs, NEW old \in Documents, NEW new \in Documents, log \in Seq(Entries),
         log' = Append(log, Entry(o, old, new)), first' = first
  PROVE  /\ \A p \in Objs \ {o} : \A f, v : ReplaysTo(p, f, v)' <=> ReplaysTo(p, f, v)
         /\ \A f \in Fields : ReplaysTo(o, f, old.fields[f]) => ReplaysTo(o, f, new.fields[f])'
<1> DEFINE e == Entry(o, old, new)
           n == Len(log) + 1
<1>1. /\ n \in Nat /\ DOMAIN log = 1..(n - 1) /\ DOMAIN log' = 1..n
      /\ \A i \in 1..(n - 1) : log'[i] = log[i]
      /\ log'[n] = e
  BY EntryType, LenProperties, AppendProperties
<1>2. e.obj = o /\ DOMAIN e.new = Changed(old.fields, new.fields)
      /\ \A f \in Changed(old.fields, new.fields) : e.new[f] = new.fields[f]
  BY DEF Entry
<1> HIDE DEF e, n
<1>3. ASSUME NEW p \in Objs, NEW f, p # o \/ f \notin DOMAIN e.new, NEW v
      PROVE  ReplaysTo(p, f, v)' <=> ReplaysTo(p, f, v)
  <2>1. Telling(p, f)' = Telling(p, f) /\ Telling(p, f) \subseteq 1..(n - 1)
    BY <1>1, <1>2, <1>3 DEF Telling
  <2> QED BY <1>1, <2>1 DEF ReplaysTo
<1>4. ASSUME NEW f \in Fields, ReplaysTo(o, f, old.fields[f])
      PROVE  ReplaysTo(o, f, new.fields[f])'
  <2>1. CASE f \in DOMAIN e.new
    <3>1. n \in Telling(o, f)' /\ \A j \in Telling(o, f)' : j <= n
      BY <1>1, <1>2, <2>1 DEF Telling
    <3>2. log'[n].new[f] = new.fields[f]
      BY <1>1, <1>2, <2>1
    <3> QED BY <3>1, <3>2 DEF ReplaysTo
  <2>2. CASE f \notin DOMAIN e.new
    <3>1. new.fields[f] = old.fields[f]
      BY <1>2, <2>2 DEF Changed
    <3> QED BY <1>3, <1>4, <2>2, <3>1
  <2> QED BY <2>1, <2>2
<1> QED BY <1>3, <1>4

LEMMA CrossedGrows ==
  ASSUME Next
  PROVE  /\ crossed \subseteq crossed'
         /\ \A w \in Workers : LosesEntry(w) => Obj(w) \in crossed'
         /\ \A w \in Workers : Writing(w) /\ (w \in stale \/ \E u \in Workers \ {w} : HasWritten(u, Obj(w)))
                                => Obj(w) \in crossed'
BY DEF Next, History

\* A step that leaves the object, its entries and those who have written it.
LEMMA LogInvFrame ==
  ASSUME NEW o \in Objs, LogInvOf(o), doc'[o] = doc[o],
         \A f, v : ReplaysTo(o, f, v)' <=> ReplaysTo(o, f, v),
         \A w \in Workers : HasWritten(w, o)' <=> HasWritten(w, o),
         \A w \in Workers : HasWritten(w, o) => req'[w].old = req[w].old /\ req'[w].new = req[w].new
  PROVE  LogInvOf(o)'
BY DEF LogInvOf

LEMMA SameLog ==
  ASSUME UNCHANGED <<log, first>>, NEW o
  PROVE  \A f, v : ReplaysTo(o, f, v)' <=> ReplaysTo(o, f, v)
BY DEF ReplaysTo, Telling

LEMMA LogInvQuiet ==
  ASSUME TypeInv, Next, NEW o \in Objs \ crossed', LogInvOf(o), NEW w \in Workers, Quiet(w)
  PROVE  LogInvOf(o)'
<1>1. ASSUME NEW v \in Workers
      PROVE  /\ HasWritten(v, o)' <=> HasWritten(v, o)
             /\ HasWritten(v, o) => req'[v].old = req[v].old /\ req'[v].new = req[v].new
  <2>1. CASE v # w
    BY <2>1 DEF Quiet, HasWritten, Obj
  <2>2. CASE v = w /\ ~At(w, "idle") /\ req'[w].at = "idle"
    <3>1. ~HasWritten(w, o)'
      BY <2>2 DEF HasWritten
    <3>2. HasWritten(w, o) => LosesEntry(w) /\ Obj(w) = o
      BY <2>2 DEF HasWritten, LosesEntry, At, Quiet
    <3> QED BY <2>2, <3>1, <3>2, CrossedGrows
  <2>3. CASE v = w /\ ~(~At(w, "idle") /\ req'[w].at = "idle")
    BY <2>3 DEF Quiet, HasWritten, At
  <2> QED BY <2>1, <2>2, <2>3
<1>2. doc'[o] = doc[o] /\ UNCHANGED <<log, first>>
  BY DEF Quiet
<1> QED BY <1>1, <1>2, SameLog, LogInvFrame

LEMMA LogInvWrites ==
  ASSUME TypeInv, Current, Next, NEW o \in Objs \ crossed', LogInvOf(o), NEW w \in Workers, Writes(w)
  PROVE  LogInvOf(o)'
<1>1. \A v \in Workers \ {w} : /\ HasWritten(v, o)' <=> HasWritten(v, o)
                               /\ req'[v].old = req[v].old /\ req'[v].new = req[v].new
  BY DEF Writes, HasWritten, Obj
<1>2. ~HasWritten(w, o) /\ UNCHANGED <<log, first>>
  BY DEF Writes, HasWritten, At
<1>3. CASE o # Obj(w)
  <2>1. ~HasWritten(w, o)'
    BY <1>3 DEF Writes, HasWritten
  <2>2. doc'[o] = doc[o]
    BY <1>3 DEF Writes, TypeInv, DataOK
  <2> QED BY <1>1, <1>2, <2>1, <2>2, SameLog, LogInvFrame
<1>4. CASE o = Obj(w)
  <2>1. w \notin stale /\ \A u \in Workers \ {w} : ~HasWritten(u, o)
    BY <1>4, CrossedGrows, WritingIsWrites
  <2>2. req[w].old = doc[o] /\ doc'[o] = req[w].new
    BY <1>4, <2>1 DEF Current, Writes, At, TypeInv, DataOK
  <2>3. \A f \in Fields : ReplaysTo(o, f, req[w].old.fields[f])'
    <3>1. \A f \in Fields : ReplaysTo(o, f, req[w].old.fields[f])
      BY <1>2, <2>1, <2>2 DEF LogInvOf
    <3>2. \A f, v : ReplaysTo(o, f, v)' <=> ReplaysTo(o, f, v)
      BY <1>2, SameLog
    <3>3. req'[w].old = req[w].old
      BY DEF Writes
    <3> QED BY <3>1, <3>2, <3>3
  <2>4. CASE req[w].kind = "edit"
    <3>1. /\ HasWritten(w, o)' /\ \A u \in Workers \ {w} : ~HasWritten(u, o)'
          /\ req'[w].old = req[w].old /\ req'[w].new = req[w].new
      BY <1>1, <1>4, <2>1, <2>4 DEF Writes, HasWritten
    <3> QED BY <2>2, <2>3, <3>1 DEF LogInvOf
  <2>5. CASE req[w].kind # "edit"
    <3>1. \A u \in Workers : ~HasWritten(u, o)'
      BY <1>1, <2>1, <2>5 DEF Writes, HasWritten
    <3>2. doc'[o].fields = req[w].old.fields
      <4>1. SentOK(req[w]) /\ ReadOK(req[w])
        BY DEF TypeInv, RequestsOK, RequestOK, Writes, At
      <4> QED BY <2>2, <2>5, <4>1, AfterKeepsUnsent DEF SentOK, ReadOK
    <3>3. \A f \in Fields : ReplaysTo(o, f, doc[o].fields[f])'
      BY <2>3, <3>2 DEF Writes
    <3> QED BY <3>1, <3>3 DEF LogInvOf
  <2> QED BY <2>4, <2>5
<1> QED BY <1>3, <1>4

LEMMA LogInvLogs ==
  ASSUME TypeInv, Next, NEW o \in Objs \ crossed', LogInvOf(o), NEW w \in Workers, Logs(w)
  PROVE  LogInvOf(o)'
<1>1. \A v \in Workers \ {w} : /\ HasWritten(v, o)' <=> HasWritten(v, o)
                               /\ req'[v].old = req[v].old /\ req'[v].new = req[v].new
  BY DEF Logs, HasWritten, Obj
<1>2. ~HasWritten(w, o)' /\ doc'[o] = doc[o]
  BY DEF Logs, HasWritten
<1>3. CASE UNCHANGED log
  <2>1. HasWritten(w, o) => LosesEntry(w) /\ Obj(w) = o
    BY <1>3 DEF HasWritten, LosesEntry, Logs, At
  <2>2. ~HasWritten(w, o)
    BY <2>1, CrossedGrows
  <2>3. UNCHANGED <<log, first>>
    BY <1>3 DEF Logs
  <2> QED BY <1>1, <1>2, <2>2, <2>3, SameLog, LogInvFrame
<1>4. CASE req[w].kind = "edit" /\ log' = Append(log, Entry(Obj(w), req[w].old, req[w].new))
  <2>0. PICK p \in Objs, old \in Documents, new \in Documents :
          p = Obj(w) /\ old = req[w].old /\ new = req[w].new
    BY DEF Logs
  <2>1. /\ \A q \in Objs \ {p} : \A f, v : ReplaysTo(q, f, v)' <=> ReplaysTo(q, f, v)
        /\ \A f \in Fields : ReplaysTo(p, f, old.fields[f]) => ReplaysTo(p, f, new.fields[f])'
    BY <1>4, <2>0, EntryTells DEF Logs, TypeInv, DataOK
  <2>2. CASE o # Obj(w)
    <3>1. ~HasWritten(w, o) /\ \A f, v : ReplaysTo(o, f, v)' <=> ReplaysTo(o, f, v)
      BY <2>0, <2>1, <2>2 DEF HasWritten
    <3> QED BY <1>1, <1>2, <3>1, LogInvFrame
  <2>3. CASE o = Obj(w)
    <3>1. HasWritten(w, o)
      BY <1>4, <2>3 DEF HasWritten, Logs, At
    <3>2. \A u \in Workers : ~HasWritten(u, o)'
      BY <1>1, <1>2, <3>1 DEF LogInvOf
    <3>3. \A f \in Fields : ReplaysTo(o, f, doc[o].fields[f])'
      BY <1>2, <2>0, <2>1, <2>3, <3>1 DEF LogInvOf
    <3> QED BY <3>2, <3>3 DEF LogInvOf
  <2> QED BY <2>2, <2>3
<1> QED BY <1>3, <1>4 DEF Logs

LEMMA LogStep ==
  ASSUME TypeInv, Current, LogInv, [Next]_vars
  PROVE  LogInv'
<1>1. CASE UNCHANGED vars
  <2>1. doc' = doc /\ crossed' = crossed /\ req' = req /\ UNCHANGED <<log, first>>
    BY <1>1 DEF vars, db, history
  <2>2. \A w \in Workers, o \in Objs : HasWritten(w, o)' <=> HasWritten(w, o)
    BY <2>1 DEF HasWritten, Obj
  <2> QED BY <2>1, <2>2, SameLog, LogInvFrame DEF LogInv
<1>2. CASE Next
  <2> SUFFICES ASSUME NEW o \in Objs \ crossed' PROVE LogInvOf(o)'
    BY DEF LogInv
  <2>1. LogInvOf(o)
    BY <1>2, CrossedGrows DEF LogInv
  <2>2. CASE Rest
    <3>1. \A w \in Workers : HasWritten(w, o)' <=> HasWritten(w, o)
      BY <2>2 DEF Rest, HasWritten, Obj
    <3> QED BY <2>1, <2>2, <3>1, SameLog, LogInvFrame DEF Rest
  <2> QED BY <1>2, <2>1, <2>2, NextKeeps, LogInvQuiet, LogInvWrites, LogInvLogs
<1> QED BY <1>1, <1>2

LEMMA LogInit == Init => LogInv
BY DEF Init, LogInv, LogInvOf, ReplaysTo, Telling, HasWritten, Idle

\* The log of edits replays to the fields of every object that no request is
\* about to log, unless requests on it crossed or the entry of a write was lost.
THEOREM LogTells == Spec => []LogTellsFields
<1>1. TypeInv /\ Current /\ LogInv /\ [Next]_vars => (TypeInv /\ Current /\ LogInv)'
  BY TypeInvStep, CurrentStep, LogStep
<1>2. Init => TypeInv /\ Current /\ LogInv
  BY TypeInvInit, CurrentInit, LogInit
<1>3. LogInv => LogTellsFields
  BY DEF LogInv, LogInvOf, LogTellsFields
<1> QED BY <1>1, <1>2, <1>3, PTL DEF Spec


----------------------------------------------------------------------------
(* The log implements EditLog. *)

\* The variables of EditLog, as ObjectEdits keeps them.
Contents == [o \in Objs |-> StateOf(doc[o])]
Debts == [w \in Workers |-> Owed(w)]

LEMMA MappedVars ==
  /\ Contents = [o \in Objs |-> [fields |-> doc[o].fields, version |-> doc[o].version]]
  /\ Contents' = [o \in Objs |-> [fields |-> doc[o].fields, version |-> doc[o].version]]'
  /\ Debts = [w \in Workers |-> Owed(w)]
  /\ Debts' = [w \in Workers |-> Owed(w)]'
BY DEF Contents, Debts, StateOf

\* A request that stays as it is owes what it owed.
LEMMA OwedFrame ==
  ASSUME NEW w \in Workers, req'[w] = req[w]
  PROVE  Owed(w)' = Owed(w)
BY DEF Owed, Obj

\* A worker owes nothing before its write and after its log.
LEMMA NothingOwed ==
  ASSUME NEW w \in Workers
  PROVE  /\ req[w].at \notin {"reread", "log"} => Owed(w) = {}
         /\ req'[w].at \notin {"reread", "log"} => Owed(w)' = {}
BY DEF Owed

\* The debts of the others stay; w owes D afterwards.
LEMMA DebtsOfOne ==
  ASSUME NEW w \in Workers, \A u \in Workers \ {w} : req'[u] = req[u],
         NEW D, Owed(w)' = D
  PROVE  Debts' = [Debts EXCEPT ![w] = D]
<1>1. \A u \in Workers \ {w} : Owed(u)' = Owed(u)
  BY OwedFrame
<1> QED BY <1>1 DEF Debts

\* A step that writes no document adds nothing to what the objects have been.
LEMMA HadStays ==
  ASSUME TypeInv, VersionsInv, Next, doc' = doc
  PROVE  had' = had /\ Contents' = Contents
<1>1. TypeInv'
  BY TypeInvStep
<1>2. \A o \in Objs : had'[o] = had[o]
  <2>1. \A o \in Objs : had'[o] = had[o] \cup {StateOf(doc'[o])}
    BY HadKeeps
  <2>2. \A o \in Objs : StateOf(doc'[o]) \in had[o]
    BY DEF VersionsInv
  <2> QED BY <2>1, <2>2
<1>3. had \in [Objs -> SUBSET States] /\ had' \in [Objs -> SUBSET States]
  BY <1>1 DEF TypeInv, DataOK
<1>4. had' = had
  BY <1>2, <1>3
<1> QED BY <1>4 DEF Contents

LEMMA QuietForgets ==
  ASSUME TypeInv, VersionsInv, Next, NEW w \in Workers, Quiet(w)
  PROVE  Told!Forget(w) \/ UNCHANGED <<Contents, had, log, Debts>>
<1>1. had' = had /\ Contents' = Contents /\ log' = log
  BY HadStays DEF Quiet
<1>2. CASE Owed(w)' = {}
  <2>1. Debts' = [Debts EXCEPT ![w] = {}]
    BY <1>2, DebtsOfOne DEF Quiet
  <2> QED BY <1>1, <2>1, MappedVars DEF Told!Forget
<1>3. CASE Owed(w)' # {}
  <2>1. At(w, "reread") /\ req'[w].at = "log"
    BY <1>3, NothingOwed DEF Quiet
  <2>2. Owed(w)' = Owed(w)
    BY <2>1 DEF Quiet, Owed, At
  <2>3. Debts' = [Debts EXCEPT ![w] = Owed(w)]
    BY <2>2, DebtsOfOne DEF Quiet
  <2>4. Debts' = Debts
    BY <2>3 DEF Debts
  <2> QED BY <1>1, <2>4
<1> QED BY <1>2, <1>3

\* An entry tells the difference of the two documents.
LEMMA EntryIsDifference ==
  ASSUME NEW o, NEW old, NEW new
  PROVE  Told!Difference(o, StateOf(old), StateOf(new)) = Entry(o, old, new)
BY DEF Told!Difference, StateOf, Entry, Changed

LEMMA WriteStores ==
  ASSUME TypeInv, VersionsInv, Next, NEW w \in Workers, Writes(w), NEW o \in Objs, o = Obj(w)
  PROVE  Told!Store(w, o)
<1> DEFINE r == req[w]
           new == StateOf(r.new)
           from == StateOf(r.old)
<1>1. SentOK(r) /\ ReadOK(r) /\ r.at = "write"
  BY DEF TypeInv, RequestsOK, RequestOK, Writes, At
<1>2. from \in had[o]
  BY <1>1 DEF VersionsInv
<1>3. Contents' = [Contents EXCEPT ![o] = new] /\ Contents'[o] = new
  BY <1>1 DEF Contents, Writes, TypeInv, DataOK
<1>4. had' = [had EXCEPT ![o] = @ \cup {new}]
  <2>1. TypeInv'
    BY TypeInvStep
  <2>2. had \in [Objs -> SUBSET States] /\ had' \in [Objs -> SUBSET States]
    BY <2>1 DEF TypeInv, DataOK
  <2>3. had'[o] = had[o] \cup {new}
    BY <1>1, HadKeeps DEF Writes, TypeInv, DataOK
  <2>4. \A p \in Objs \ {o} : had'[p] = had[p]
    <3>1. \A p \in Objs \ {o} : doc'[p] = doc[p]
      BY DEF Writes, TypeInv, DataOK
    <3>2. \A p \in Objs : had'[p] = had[p] \cup {StateOf(doc'[p])}
      BY HadKeeps
    <3>3. \A p \in Objs \ {o} : StateOf(doc'[p]) \in had[p]
      BY <3>1 DEF VersionsInv
    <3> QED BY <3>2, <3>3
  <2> QED BY <2>2, <2>3, <2>4
<1>5. Debts[w] = {}
  BY <1>1, NothingOwed DEF Debts
<1>6. \/ Debts' = [Debts EXCEPT ![w] = {Told!Difference(o, from, new)}]
      \/ new = from /\ UNCHANGED Debts
  <2>1. CASE r.kind = "edit"
    <3>1. Owed(w)' = {Entry(o, r.old, r.new)}
      BY <2>1 DEF Owed, Writes
    <3> QED BY <3>1, DebtsOfOne, EntryIsDifference DEF Writes
  <2>2. CASE r.kind = "state"
    <3>1. new = from
      BY <1>1, <2>2, AfterKeepsUnsent DEF ReadOK, StateOf
    <3>2. Owed(w)' = {}
      BY <2>2 DEF Owed, Writes
    <3>3. Debts' = [Debts EXCEPT ![w] = {}]
      BY <3>2, DebtsOfOne DEF Writes
    <3>4. Debts' = Debts
      BY <1>5, <3>3 DEF Debts
    <3> QED BY <3>1, <3>4
  <2> QED BY <1>1, <2>1, <2>2 DEF SentOK
<1> HIDE DEF from, new
<1>7. log' = log
  BY DEF Writes
<1> QED BY <1>2, <1>3, <1>4, <1>5, <1>6, <1>7, MappedVars DEF Told!Store

LEMMA LogTellsOrForgets ==
  ASSUME TypeInv, VersionsInv, Next, NEW w \in Workers, Logs(w)
  PROVE  Told!Tell(w) \/ Told!Forget(w)
<1>1. had' = had /\ Contents' = Contents
  BY HadStays DEF Logs
<1>2. Debts' = [Debts EXCEPT ![w] = {}]
  BY NothingOwed, DebtsOfOne DEF Logs
<1>3. CASE UNCHANGED log
  BY <1>1, <1>2, <1>3, MappedVars DEF Told!Forget
<1>4. CASE req[w].kind = "edit" /\ log' = Append(log, Entry(Obj(w), req[w].old, req[w].new))
  <2>1. Debts[w] = {Entry(Obj(w), req[w].old, req[w].new)}
    BY <1>4 DEF Debts, Owed, Logs, At
  <2> QED BY <1>1, <1>2, <1>4, <2>1, MappedVars DEF Told!Tell
<1> QED BY <1>3, <1>4 DEF Logs

Stutters == UNCHANGED <<Contents, had, log, Debts>>

LEMMA EditLogStep ==
  ASSUME TypeInv, VersionsInv, [Next]_vars
  PROVE  Told!LogNext \/ Stutters
<1>1. CASE UNCHANGED vars
  <2>1. Debts' = Debts
    BY <1>1, OwedFrame DEF Debts, vars
  <2>2. Contents' = Contents /\ UNCHANGED <<had, log>>
    BY <1>1 DEF vars, db, history, Contents
  <2> QED BY <2>1, <2>2 DEF Stutters
<1>2. CASE Next
  <2>1. CASE Rest
    <3>1. had' = had /\ Contents' = Contents /\ log' = log
      BY <1>2, <2>1, HadStays DEF Rest
    <3>2. Debts' = Debts
      BY <2>1, OwedFrame DEF Rest, Debts
    <3> QED BY <3>1, <3>2 DEF Stutters
  <2>2. ASSUME NEW w \in Workers, Quiet(w) \/ Writes(w) \/ Logs(w)
        PROVE  Told!LogNext \/ Stutters
    <3>1. CASE Quiet(w)
      BY <1>2, <3>1, QuietForgets DEF Told!LogNext, Stutters
    <3>2. CASE Writes(w)
      <4>1. PICK o \in Objs : o = Obj(w)
        BY <3>2 DEF Writes
      <4>2. Told!Store(w, o)
        BY <1>2, <3>2, <4>1, WriteStores
      <4> QED BY <4>2 DEF Told!LogNext
    <3>3. CASE Logs(w)
      BY <1>2, <3>3, LogTellsOrForgets DEF Told!LogNext
    <3> QED BY <2>2, <3>1, <3>2, <3>3
  <2> QED BY <1>2, <2>1, <2>2, NextKeeps
<1> QED BY <1>1, <1>2

LEMMA StuttersMapped == Stutters => UNCHANGED Told!logVars
BY MappedVars DEF Stutters, Told!logVars

\* Whatever requests cross, fail or are killed (update_cmdb_object, insert_log),
\* the log of edits only grows, and each entry tells, once, a change that was stored.
THEOREM EditLogRefinement == Spec => ImplementsEditLog
<1>1. Init => Told!LogInit
  BY DEF Init, Idle, Owed, Told!LogInit
<1>2. TypeInv /\ VersionsInv /\ [Next]_vars => (TypeInv /\ VersionsInv)'
  BY TypeInvStep, VersionsStep
<1>3. Init => TypeInv /\ VersionsInv
  BY TypeInvInit, VersionsInit
<1>4. TypeInv /\ VersionsInv /\ [Next]_vars => [Told!LogNext]_(Told!logVars)
  BY EditLogStep, StuttersMapped
<1> QED BY <1>1, <1>2, <1>3, <1>4, PTL DEF Spec, ImplementsEditLog, Told!LogSpec
=============================================================================

------------------------ MODULE ObjectDeletionProofs ------------------------
(***************************************************************************)
(* Proofs about ObjectDeletion for any workers, any objects and any number *)
(* of requests: type correctness, that assignments keep their assessment,  *)
(* that relations which are taken away are logged, and that a deletion     *)
(* that was answered leaves nothing pointing at its object.                *)
(***************************************************************************)
EXTENDS ObjectDeletion, TLAPS

(* The requests a worker can be serving, label by label. *)
DeletionLabels == {"locate", "children", "unlocate", "locations", "findAssessments",
                   "dropAssessments", "dropMeasures", "verify", "remove", "references",
                   "groups", "findRelations", "dropRelations", "logRelations"}
WriteLabels == {"checkType", "write", "checkTypeNew", "insert"}

Deletions == {r \in [at : DeletionLabels, kind : {"one", "many"}, ids : SUBSET Objs,
                     obj : Objs, rest : SUBSET Objs, found : SUBSET Pairs] :
                /\ r.obj \in r.ids
                /\ r.rest \subseteq r.ids \ {r.obj}}
Writes == [at : WriteLabels, obj : Objs, value : Refs]
Assessings == [at : {"measures"}, obj : Objs]
Idles == [at : {"idle"}, last : {"done", "refused", "killed"}]

ReqOK == req \in [Workers -> Deletions \cup Writes \cup Assessings \cup Idles]

\* What is in the collections, and how many requests there were.
DataOK == /\ doc \in [Objs -> Refs \cup {Missing}]
          /\ group \subseteq Objs
          /\ relations \subseteq Pairs /\ relationLog \subseteq Pairs
          /\ place \in [Objs -> Objs \cup {"never", "root", "gone"}]
          /\ assessment \in [Objs -> {"never", "there", "gone"}]
          /\ measures \subseteq Objs
          /\ open \in BOOLEAN
          /\ started \in 0..MaxRequests

TypeInv == ReqOK /\ DataOK

\* The label tells the kind of request, and so what the record has.
LEMMA KindOfRequest ==
  ASSUME ReqOK, NEW w \in Workers
  PROVE  /\ req[w].at \in DeletionLabels => req[w] \in Deletions
         /\ req[w].at \in WriteLabels => req[w] \in Writes
         /\ At(w, "measures") => req[w] \in Assessings
         /\ At(w, "idle") => req[w] \in Idles
         /\ req[w].at \in DeletionLabels \cup WriteLabels \cup {"measures", "idle"}
  BY DEF ReqOK, Deletions, Writes, Assessings, Idles, DeletionLabels, WriteLabels, At

LEMMA DeletingIsDeletion ==
  ASSUME ReqOK, NEW w \in Workers
  PROVE  Deleting(w) <=> req[w] \in Deletions
  BY DEF ReqOK, Deletions, Writes, Assessings, Idles, Deleting

LEMMA TypeInvImpliesTypeOK == TypeInv => TypeOK
<1> SUFFICES ASSUME TypeInv PROVE TypeOK
  OBVIOUS
<1>1. ASSUME NEW w \in Workers
      PROVE  /\ req[w].at \in Labels
             /\ ~At(w, "idle") => req[w].obj \in Objs
             /\ Deleting(w) => /\ req[w].obj \in req[w].ids
                               /\ req[w].rest \subseteq req[w].ids \ {req[w].obj}
                               /\ req[w].found \subseteq Pairs
  <2>1. ReqOK
    BY DEF TypeInv
  <2>2. req[w].at \in Labels
    BY <2>1, KindOfRequest DEF Labels, DeletionLabels, WriteLabels
  <2>3. ~At(w, "idle") => req[w].obj \in Objs
    BY <2>1 DEF ReqOK, Deletions, Writes, Assessings, Idles, At
  <2>4. Deleting(w) => req[w] \in Deletions
    BY <2>1, DeletingIsDeletion
  <2> QED BY <2>2, <2>3, <2>4 DEF Deletions
<1> QED BY <1>1 DEF TypeInv, DataOK, TypeOK

\* The three ways in which a step changes the request of its worker.
LEMMA GoToKeeps ==
  ASSUME ReqOK, NEW w \in Workers, NEW label \in DeletionLabels,
         req[w] \in Deletions, GoTo(w, label)
  PROVE  /\ ReqOK'
         /\ req'[w] = [req[w] EXCEPT !.at = label]
         /\ req'[w] \in Deletions
         /\ \A v \in Workers : v # w => req'[v] = req[v]
  BY DEF ReqOK, GoTo, Deletions

LEMMA GoToWriteKeeps ==
  ASSUME ReqOK, NEW w \in Workers, NEW label \in WriteLabels,
         req[w] \in Writes, GoTo(w, label)
  PROVE  /\ ReqOK'
         /\ req'[w] = [req[w] EXCEPT !.at = label]
         /\ \A v \in Workers : v # w => req'[v] = req[v]
  BY DEF ReqOK, GoTo, Writes

LEMMA AnswerKeeps ==
  ASSUME ReqOK, NEW w \in Workers, NEW how \in {"done", "refused", "killed"}, Answer(w, how)
  PROVE  /\ ReqOK'
         /\ req'[w] = Idle(how)
         /\ \A v \in Workers : v # w => req'[v] = req[v]
  BY DEF ReqOK, Answer, Idle, Idles

LEMMA BeginKeeps ==
  ASSUME TypeInv, NEW w \in Workers, NEW r \in Deletions \cup Writes \cup Assessings, Begin(w, r)
  PROVE  /\ ReqOK'
         /\ started' \in 0..MaxRequests
         /\ req'[w] = r
         /\ At(w, "idle")
         /\ \A v \in Workers : v # w => req'[v] = req[v]
  BY MaxRequestsAssumption DEF TypeInv, DataOK, ReqOK, Begin

LEMMA NextObjectKeeps ==
  ASSUME ReqOK, NEW w \in Workers, req[w] \in Deletions, NextObject(w)
  PROVE  /\ ReqOK'
         /\ \A v \in Workers : v # w => req'[v] = req[v]
         /\ req'[w].at \in {"idle", "groups", "findAssessments"}
<1>1. CASE Answer(w, "done")
  BY <1>1, AnswerKeeps DEF Idle
<1>2. CASE GoTo(w, "groups")
  <2>1. "groups" \in DeletionLabels
    BY DEF DeletionLabels
  <2>2. /\ ReqOK'
        /\ req'[w] = [req[w] EXCEPT !.at = "groups"]
        /\ \A v \in Workers : v # w => req'[v] = req[v]
    BY <1>2, <2>1, GoToKeeps
  <2>3. req'[w].at = "groups"
    BY <2>2 DEF Deletions
  <2> QED BY <2>2, <2>3
<1>3. CASE \E o \in req[w].rest :
             req' = [req EXCEPT ![w] = [@ EXCEPT !.at = "findAssessments", !.obj = o,
                                                 !.rest = req[w].rest \ {o}, !.found = {}]]
  <2> PICK o \in req[w].rest :
        req' = [req EXCEPT ![w] = [@ EXCEPT !.at = "findAssessments", !.obj = o,
                                            !.rest = req[w].rest \ {o}, !.found = {}]]
    BY <1>3
  <2> DEFINE r == [at |-> "findAssessments", kind |-> req[w].kind, ids |-> req[w].ids,
                   obj |-> o, rest |-> req[w].rest \ {o}, found |-> {}]
  <2>1. r \in Deletions
    BY DEF Deletions, DeletionLabels
  <2>2. req'[w] = r
    BY DEF ReqOK, Deletions
  <2>3. /\ req' \in [Workers -> {req'[v] : v \in Workers}]
        /\ \A v \in Workers : v # w => req'[v] = req[v]
    BY DEF ReqOK
  <2>4. ReqOK'
    BY <2>1, <2>2, <2>3 DEF ReqOK
  <2> QED BY <2>2, <2>3, <2>4
<1> QED BY <1>1, <1>2, <1>3 DEF NextObject

\* Only the request of its worker changes in a step, and stays of its kind.
LEMMA DeleteStepRequests ==
  ASSUME ReqOK, NEW w \in Workers, DeleteStep(w), DataOK
  PROVE  ReqOK' /\ \A v \in Workers : v # w => req'[v] = req[v]
<1> DEFINE Kept == ReqOK' /\ \A v \in Workers : v # w => req'[v] = req[v]
<1>1. req[w] \in Deletions
  BY KindOfRequest
     DEF DeleteStep, Locate, Children, Unlocate, Locations, FindAssessments, DropAssessments,
         DropMeasures, Verify, Remove, References, Groups, FindRelations, DropRelations,
         LogRelations, At, DeletionLabels
<1>2. ASSUME NEW label \in DeletionLabels, GoTo(w, label)
      PROVE  Kept
  BY <1>1, <1>2, GoToKeeps
<1>3. ASSUME NEW how \in {"done", "refused"}, Answer(w, how)
      PROVE  Kept
  BY <1>3, AnswerKeeps
<1>4. NextObject(w) => Kept
  BY <1>1, NextObjectKeeps
<1>5. CASE \/ Locate(w) \/ Children(w) \/ Unlocate(w) \/ Locations(w)
           \/ FindAssessments(w) \/ DropAssessments(w) \/ DropMeasures(w)
           \/ References(w) \/ Groups(w) \/ DropRelations(w)
  BY <1>2, <1>3, <1>5
     DEF Locate, Children, Unlocate, Locations, FindAssessments, DropAssessments,
         DropMeasures, References, Groups, DropRelations, DeletionLabels
<1>6. CASE Verify(w) \/ Remove(w)
  BY <1>2, <1>3, <1>6 DEF Verify, Remove, AfterObject, DeletionLabels
<1>7. CASE FindRelations(w)
  <2>1. CASE RelationsOf(req[w].obj) = {}
    BY <1>4, <1>7, <2>1 DEF FindRelations
  <2>2. CASE req' = [req EXCEPT ![w].at = "dropRelations", ![w].found = RelationsOf(req[w].obj)]
    <3>1. RelationsOf(req[w].obj) \subseteq Pairs
      BY DEF DataOK, RelationsOf
    <3>2. [req[w] EXCEPT !.at = "dropRelations", !.found = RelationsOf(req[w].obj)] \in Deletions
      BY <1>1, <3>1 DEF Deletions, DeletionLabels
    <3> QED BY <2>2, <3>2 DEF ReqOK
  <2> QED BY <1>7, <2>1, <2>2 DEF FindRelations
<1>8. CASE LogRelations(w)
  BY <1>4, <1>8 DEF LogRelations
<1> QED BY <1>5, <1>6, <1>7, <1>8 DEF DeleteStep

LEMMA OtherStepRequests ==
  ASSUME ReqOK, NEW w \in Workers, OtherStep(w)
  PROVE  ReqOK' /\ \A v \in Workers : v # w => req'[v] = req[v]
<1>1. CASE CheckType(w) \/ CheckTypeNew(w)
  <2>1. req[w] \in Writes
    BY <1>1, KindOfRequest DEF CheckType, CheckTypeNew, At, WriteLabels
  <2> QED BY <1>1, <2>1, GoToWriteKeeps, AnswerKeeps DEF CheckType, CheckTypeNew, WriteLabels
<1>2. CASE Write(w) \/ Insert(w) \/ AddMeasures(w)
  BY <1>2, AnswerKeeps DEF Write, Insert, AddMeasures
<1> QED BY <1>1, <1>2 DEF OtherStep

LEMMA StepKeepsData ==
  ASSUME TypeInv, NEW w \in Workers, Step(w)
  PROVE  DataOK'
<1> USE DEF TypeInv, DataOK
<1>1. CASE \/ Locate(w) \/ Children(w) \/ Locations(w) \/ FindAssessments(w) \/ Verify(w)
           \/ FindRelations(w) \/ CheckType(w) \/ CheckTypeNew(w)
  BY <1>1 DEF Locate, Children, Locations, FindAssessments, Verify, FindRelations, CheckType,
              CheckTypeNew, db, data
<1>2. CASE Unlocate(w) \/ DropAssessments(w) \/ DropMeasures(w) \/ Groups(w) \/ DropRelations(w)
  BY <1>2 DEF Unlocate, DropAssessments, DropMeasures, Groups, DropRelations
<1>3. CASE Remove(w) \/ References(w)
  BY <1>3 DEF Remove, References, Refs, data
<1>4. CASE LogRelations(w)
  <2>1. req[w].found \subseteq Pairs
    BY <1>4, KindOfRequest DEF LogRelations, At, DeletionLabels, Deletions
  <2> QED BY <1>4, <2>1 DEF LogRelations
<1>5. CASE Write(w) \/ Insert(w)
  <2>1. req[w].value \in Refs
    BY <1>5, KindOfRequest DEF Write, Insert, At, WriteLabels, Writes
  <2> QED BY <1>5, <2>1 DEF Write, Insert, data
<1>6. CASE AddMeasures(w)
  <2>1. req[w].obj \in Objs
    BY <1>6, KindOfRequest DEF AddMeasures, Assessings
  <2> QED BY <1>6, <2>1 DEF AddMeasures
<1> QED BY <1>1, <1>2, <1>3, <1>4, <1>5, <1>6 DEF Step, DeleteStep, OtherStep

\* What an idle worker takes on is a request; none begins between two calls
\* that belong together.
MidLabels == {"dropMeasures", "dropRelations", "logRelations"}
Requests == {r \in Deletions \cup Writes \cup Assessings : r.at \notin MidLabels}

LEMMA StartBeginsRequest ==
  ASSUME TypeInv, NEW w \in Workers, Start(w)
  PROVE  /\ \E r \in Requests : Begin(w, r)
         /\ UNCHANGED <<group, relations, place, measures, open, relationLog>>
         /\ UNCHANGED <<doc, assessment>>
              \/ (UNCHANGED doc /\ \E o \in Objs : ~Assessed(o) /\ assessment' = [assessment EXCEPT ![o] = "there"])
<1> USE DEF db, data
<1>1. ASSUME NEW o \in Objs, StartDelete(w, o)
      PROVE  UNCHANGED db /\ \E r \in Requests : Begin(w, r)
  <2>1. Deletion("locate", "one", {o}, o) \in Requests
    BY DEF Deletion, Requests, Deletions, DeletionLabels, MidLabels
  <2> QED BY <1>1, <2>1 DEF StartDelete
<1>2. ASSUME NEW S \in SUBSET Objs, NEW o \in S, StartDeleteMany(w, S, o)
      PROVE  UNCHANGED db /\ \E r \in Requests : Begin(w, r)
  <2>1. Deletion("locations", "many", S, o) \in Requests
    BY DEF Deletion, Requests, Deletions, DeletionLabels, MidLabels
  <2> QED BY <1>2, <2>1 DEF StartDeleteMany
<1>3. ASSUME NEW o \in Objs, NEW v \in Refs \cup {Missing}, StartUpdate(w, o, v)
      PROVE  UNCHANGED db /\ \E r \in Requests : Begin(w, r)
  <2> DEFINE r == [at |-> "checkType", obj |-> o, value |-> IF v = Missing THEN doc[o] ELSE v]
  <2>1. doc[o] \in Refs
    BY <1>3 DEF StartUpdate, Exists, TypeInv, DataOK
  <2>2. r \in Requests
    BY <2>1 DEF Requests, Writes, WriteLabels, MidLabels
  <2> QED BY <1>3, <2>2 DEF StartUpdate
<1>4. ASSUME NEW o \in Objs, NEW v \in Refs, StartInsert(w, o, v)
      PROVE  UNCHANGED db /\ \E r \in Requests : Begin(w, r)
  <2>1. [at |-> "checkTypeNew", obj |-> o, value |-> v] \in Requests
    BY DEF Requests, Writes, WriteLabels, MidLabels
  <2> QED BY <1>4, <2>1 DEF StartInsert
<1>5. ASSUME NEW o \in Objs, StartAssess(w, o)
      PROVE  /\ \E r \in Requests : Begin(w, r)
             /\ UNCHANGED <<doc, group, relations, place, measures, open, relationLog>>
             /\ ~Assessed(o)
             /\ assessment' = [assessment EXCEPT ![o] = "there"]
  <2>1. [at |-> "measures", obj |-> o] \in Requests
    BY DEF Requests, Assessings, MidLabels
  <2> QED BY <1>5, <2>1 DEF StartAssess, Assessed
<1> QED BY <1>1, <1>2, <1>3, <1>4, <1>5 DEF Start

LEMMA StartKeepsType ==
  ASSUME TypeInv, NEW w \in Workers, Start(w)
  PROVE  /\ TypeInv'
         /\ At(w, "idle")
         /\ req'[w].at \notin MidLabels
         /\ \A v \in Workers : v # w => req'[v] = req[v]
<1> PICK r \in Requests : Begin(w, r)
  BY StartBeginsRequest
<1>1. /\ ReqOK' /\ started' \in 0..MaxRequests
      /\ req'[w] = r /\ At(w, "idle")
      /\ \A v \in Workers : v # w => req'[v] = req[v]
  BY BeginKeeps DEF Requests
<1>2. DataOK'
  BY <1>1, StartBeginsRequest DEF TypeInv, DataOK
<1> QED BY <1>1, <1>2 DEF TypeInv, Requests

LEMMA CrashKeepsType ==
  ASSUME TypeInv, NEW w \in Workers, Crash(w)
  PROVE  /\ TypeInv'
         /\ req'[w] = Idle("killed")
         /\ \A v \in Workers : v # w => req'[v] = req[v]
  BY AnswerKeeps DEF Crash, TypeInv, DataOK, db, data

LEMMA CallKeepsType ==
  ASSUME TypeInv, Call
  PROVE  TypeInv' /\ UNCHANGED req
<1> USE DEF TypeInv, DataOK
<1>1. ASSUME Single PROVE started' \in 0..MaxRequests /\ ReqOK' /\ UNCHANGED <<doc, req>>
  BY <1>1, MaxRequestsAssumption DEF Single, ReqOK
<1>2. ASSUME NEW S \in SUBSET Objs, SetGroup(S) PROVE TypeInv' /\ UNCHANGED req
  BY <1>1, <1>2 DEF SetGroup
<1>3. ASSUME NEW r \in Pairs, Relate(r) PROVE TypeInv' /\ UNCHANGED req
  BY <1>1, <1>3 DEF Relate
<1>4. ASSUME NEW o \in Objs, NEW p \in Objs \cup {"root"}, PlaceUnder(o, p)
      PROVE  TypeInv' /\ UNCHANGED req
  BY <1>1, <1>4 DEF PlaceUnder
<1>5. ASSUME SwitchType PROVE TypeInv' /\ UNCHANGED req
  BY <1>1, <1>5 DEF SwitchType
<1> QED BY <1>2, <1>3, <1>4, <1>5 DEF Call

LEMMA NextKeepsType == TypeInv /\ [Next]_vars => TypeInv'
<1> SUFFICES ASSUME TypeInv, [Next]_vars PROVE TypeInv'
  OBVIOUS
<1>1. ASSUME NEW w \in Workers, Step(w) PROVE TypeInv'
  BY <1>1, DeleteStepRequests, OtherStepRequests, StepKeepsData DEF TypeInv, Step
<1>2. CASE UNCHANGED vars
  BY <1>2 DEF vars, db, data, TypeInv, ReqOK, DataOK
<1> QED BY <1>1, <1>2, StartKeepsType, CrashKeepsType, CallKeepsType DEF Next

\* ObjectDeletion is type correct.
THEOREM TypeCorrect == Spec => []TypeOK
<1>1. Init => TypeInv
  BY MaxRequestsAssumption DEF Init, TypeInv, ReqOK, DataOK, Idle, Idles
<1> QED BY <1>1, NextKeepsType, TypeInvImpliesTypeOK, PTL DEF Spec

-----------------------------------------------------------------------------
(* What the steps do to assessments and relations. *)

\* The labels that matter below are left by one action each.
LEMMA StepAtLabel ==
  ASSUME NEW w \in Workers, Step(w)
  PROVE  /\ At(w, "dropMeasures") => DropMeasures(w)
         /\ At(w, "dropRelations") => DropRelations(w)
         /\ At(w, "logRelations") => LogRelations(w)
         /\ DropMeasures(w) => At(w, "dropMeasures")
         /\ DropRelations(w) => At(w, "dropRelations")
         /\ LogRelations(w) => At(w, "logRelations")
  BY DEF Step, DeleteStep, OtherStep, Locate, Children, Unlocate, Locations, FindAssessments,
         DropAssessments, DropMeasures, Verify, Remove, References, Groups, FindRelations,
         DropRelations, LogRelations, CheckType, Write, CheckTypeNew, Insert, AddMeasures, At

LEMMA StepAssessments ==
  ASSUME NEW w \in Workers, Step(w)
  PROVE  \/ UNCHANGED <<measures, assessment>>
         \/ DropAssessments(w) \/ DropMeasures(w) \/ AddMeasures(w)
  BY DEF Step, DeleteStep, OtherStep, Locate, Children, Unlocate, Locations, FindAssessments,
         Verify, Remove, References, Groups, FindRelations,
         DropRelations, LogRelations, CheckType, Write, CheckTypeNew, Insert, db, data

LEMMA StepRelations ==
  ASSUME NEW w \in Workers, Step(w)
  PROVE  UNCHANGED relations \/ DropRelations(w)
  BY DEF Step, DeleteStep, OtherStep, Locate, Children, Unlocate, Locations, FindAssessments,
         DropAssessments, DropMeasures, Verify, Remove, References, Groups, FindRelations,
         LogRelations, CheckType, Write, CheckTypeNew, Insert, AddMeasures, db, data

LEMMA StepRequests ==
  ASSUME TypeInv, NEW w \in Workers, Step(w)
  PROVE  /\ ReqOK'
         /\ \A v \in Workers : v # w => req'[v] = req[v]
  BY DeleteStepRequests, OtherStepRequests DEF TypeInv, Step

\* Assignments stay with their assessments when neither is touched and no
\* worker between the two deletions moves.
LEMMA MeasuresQuiet ==
  ASSUME MeasuresHaveAssessment, NEW w \in Workers,
         measures' \subseteq measures,
         \A o \in measures : Assessed(o) => Assessed(o)',
         stranded \subseteq stranded',
         ~At(w, "dropMeasures"),
         \A v \in Workers : v # w => req'[v] = req[v]
  PROVE  MeasuresHaveAssessment'
  BY DEF MeasuresHaveAssessment, At

LEMMA HistoryGrows == History => stranded \subseteq stranded' /\ unseen \subseteq unseen'
  BY DEF History

LEMMA StepKeepsMeasures ==
  ASSUME TypeInv, MeasuresHaveAssessment, NEW w \in Workers, Step(w), History
  PROVE  MeasuresHaveAssessment'
<1>1. /\ \A v \in Workers : v # w => req'[v] = req[v]
      /\ stranded \subseteq stranded'
  BY StepRequests, HistoryGrows
<1>2. CASE UNCHANGED <<measures, assessment>> /\ ~At(w, "dropMeasures")
  BY <1>1, <1>2, MeasuresQuiet DEF Assessed
<1>3. CASE DropAssessments(w)
  <2>1. req[w] \in Deletions /\ ReqOK
    BY <1>3, KindOfRequest DEF DropAssessments, At, DeletionLabels, TypeInv
  <2>2. At(w, "dropMeasures")' /\ req'[w].obj = req[w].obj
    <3>1. "dropMeasures" \in DeletionLabels
      BY DEF DeletionLabels
    <3>2. req'[w] = [req[w] EXCEPT !.at = "dropMeasures"]
      BY <1>3, <2>1, <3>1, GoToKeeps DEF DropAssessments
    <3> QED BY <2>1, <3>2 DEF Deletions, At
  <2>3. \A o \in Objs : o # req[w].obj /\ Assessed(o) => Assessed(o)'
    BY <1>3 DEF DropAssessments, Assessed, TypeInv, DataOK
  <2>4. ~At(w, "dropMeasures") /\ UNCHANGED measures /\ measures \subseteq Objs
    BY <1>3 DEF DropAssessments, At, TypeInv, DataOK
  <2> QED BY <1>1, <2>2, <2>3, <2>4 DEF MeasuresHaveAssessment, At
<1>4. CASE DropMeasures(w)
  BY <1>1, <1>4 DEF DropMeasures, MeasuresHaveAssessment, Assessed, At
<1>5. CASE AddMeasures(w)
  <2>1. ~At(w, "dropMeasures") /\ UNCHANGED assessment
    BY <1>5 DEF AddMeasures, At
  <2>2. \A o \in measures' \ measures : Assessed(o) \/ o \in stranded'
    BY DEF History
  <2> QED BY <1>1, <2>1, <2>2 DEF MeasuresHaveAssessment, At, Assessed
<1> QED BY <1>2, <1>3, <1>4, <1>5, StepAssessments, StepAtLabel

LEMMA NextKeepsMeasures ==
  TypeInv /\ MeasuresHaveAssessment /\ [Next]_vars => MeasuresHaveAssessment'
<1> SUFFICES ASSUME TypeInv, MeasuresHaveAssessment, [Next]_vars PROVE MeasuresHaveAssessment'
  OBVIOUS
<1>1. CASE UNCHANGED vars
  BY <1>1 DEF vars, db, data, history, MeasuresHaveAssessment, Assessed, At
<1>2. ASSUME NEW w \in Workers, Start(w), History PROVE MeasuresHaveAssessment'
  <2>1. /\ ~At(w, "dropMeasures")
        /\ \A v \in Workers : v # w => req'[v] = req[v]
    BY <1>2, StartKeepsType DEF At
  <2>2. measures \subseteq Objs /\ UNCHANGED measures
    BY <1>2, StartBeginsRequest DEF TypeInv, DataOK
  <2>3. \A o \in Objs : Assessed(o) => Assessed(o)'
    BY <1>2, StartBeginsRequest DEF Assessed, TypeInv, DataOK
  <2> QED BY <1>2, <2>1, <2>2, <2>3, HistoryGrows, MeasuresQuiet
<1>3. ASSUME NEW w \in Workers, Crash(w), History PROVE MeasuresHaveAssessment'
  <2>1. /\ req'[w] = Idle("killed")
        /\ \A v \in Workers : v # w => req'[v] = req[v]
        /\ UNCHANGED <<measures, assessment>>
    BY <1>3, CrashKeepsType DEF Crash, db, data
  <2>2. CASE At(w, "dropMeasures")
    <3>1. Deleting(w)
      BY <2>2, KindOfRequest, DeletingIsDeletion DEF At, DeletionLabels, TypeInv
    <3>2. req[w].obj \in stranded'
      BY <1>3, <2>1, <2>2, <3>1 DEF History, Ended
    <3> QED BY <1>3, <2>1, <3>2, HistoryGrows DEF MeasuresHaveAssessment, Assessed, At
  <2>3. CASE ~At(w, "dropMeasures")
    BY <1>3, <2>1, <2>3, HistoryGrows, MeasuresQuiet DEF Assessed
  <2> QED BY <2>2, <2>3
<1>4. ASSUME Call, History PROVE MeasuresHaveAssessment'
  <2>1. UNCHANGED <<req, measures, assessment>>
    BY <1>4 DEF Call, Single, SetGroup, Relate, PlaceUnder, SwitchType
  <2> QED BY <1>4, <2>1, HistoryGrows DEF MeasuresHaveAssessment, Assessed, At
<1>5. ASSUME NEW w \in Workers, Step(w), History PROVE MeasuresHaveAssessment'
  BY <1>5, StepKeepsMeasures
<1> QED BY <1>1, <1>2, <1>3, <1>4, <1>5 DEF Next

\* Assignments without assessment come only from a worker killed between the
\* two deletions of the cascade, or from an assignment inserted after them.
THEOREM MeasuresHaveAssessmentAlways == Spec => []MeasuresHaveAssessment
<1>1. Init => TypeInv
  BY MaxRequestsAssumption DEF Init, TypeInv, ReqOK, DataOK, Idle, Idles
<1>2. Init => MeasuresHaveAssessment
  BY DEF Init, MeasuresHaveAssessment
<1> QED BY <1>1, <1>2, NextKeepsType, NextKeepsMeasures, PTL DEF Spec

\* Before its deletion of relations, a worker has found all that are there,
\* but for those that came since.
RelationsFound ==
  \A w \in Workers :
    At(w, "dropRelations") => RelationsOf(req[w].obj) \subseteq req[w].found \cup unseen

\* A worker gets to that deletion only by looking.
LEMMA EntersDropRelations ==
  ASSUME TypeInv, NEW w \in Workers, Step(w), At(w, "dropRelations")'
  PROVE  /\ req'[w].found = RelationsOf(req'[w].obj)
         /\ UNCHANGED relations
<1>1. ASSUME NEW label \in DeletionLabels \ {"dropRelations"}, req[w] \in Deletions, GoTo(w, label)
      PROVE  FALSE
  <2>1. req'[w] = [req[w] EXCEPT !.at = label]
    BY <1>1, GoToKeeps DEF TypeInv
  <2> QED BY <1>1, <2>1 DEF Deletions, At
<1>2. ASSUME NEW label \in WriteLabels, req[w] \in Writes, GoTo(w, label)
      PROVE  FALSE
  BY <1>2, GoToWriteKeeps DEF TypeInv, At, Writes, WriteLabels
<1>3. ASSUME NEW how \in {"done", "refused"}, Answer(w, how)
      PROVE  FALSE
  BY <1>3, AnswerKeeps DEF TypeInv, At, Idle
<1>4. ASSUME req[w] \in Deletions, NextObject(w)
      PROVE  FALSE
  BY <1>4, NextObjectKeeps DEF TypeInv, At
<1>5. CASE DeleteStep(w)
  <2>1. req[w] \in Deletions
    BY <1>5, KindOfRequest
       DEF DeleteStep, Locate, Children, Unlocate, Locations, FindAssessments, DropAssessments,
           DropMeasures, Verify, Remove, References, Groups, FindRelations, DropRelations,
           LogRelations, At, DeletionLabels, TypeInv
  <2>2. FindRelations(w)
    BY <1>1, <1>3, <1>4, <1>5, <2>1
       DEF DeleteStep, Locate, Children, Unlocate, Locations, FindAssessments, DropAssessments,
           DropMeasures, Verify, Remove, AfterObject, References, Groups, DropRelations,
           LogRelations, DeletionLabels
  <2>3. req' = [req EXCEPT ![w].at = "dropRelations", ![w].found = RelationsOf(req[w].obj)]
    BY <1>4, <2>1, <2>2 DEF FindRelations
  <2> QED BY <2>1, <2>2, <2>3 DEF FindRelations, TypeInv, ReqOK, Deletions, db, data
<1>6. CASE CheckType(w) \/ CheckTypeNew(w)
  <2>1. req[w] \in Writes
    BY <1>6, KindOfRequest DEF CheckType, CheckTypeNew, At, WriteLabels, TypeInv
  <2> QED BY <1>2, <1>3, <1>6, <2>1 DEF CheckType, CheckTypeNew, WriteLabels
<1>7. CASE Write(w) \/ Insert(w) \/ AddMeasures(w)
  BY <1>3, <1>7 DEF Write, Insert, AddMeasures
<1> QED BY <1>5, <1>6, <1>7 DEF Step, OtherStep

\* A relation that appears is one that a worker about to delete has not seen.
LEMMA NewRelationsUnseen ==
  ASSUME History, NEW w \in Workers, At(w, "dropRelations")
  PROVE  relations' \ relations \subseteq unseen'
  BY DEF History

LEMMA RelationsFoundKept ==
  ASSUME RelationsFound, History, NEW v \in Workers, At(v, "dropRelations"), req'[v] = req[v]
  PROVE  RelationsOf(req[v].obj)' \subseteq req'[v].found \cup unseen'
<1>1. RelationsOf(req[v].obj) \subseteq req[v].found \cup unseen
  BY DEF RelationsFound
<1>2. relations' \ relations \subseteq unseen' /\ unseen \subseteq unseen'
  BY NewRelationsUnseen, HistoryGrows
<1> QED BY <1>1, <1>2 DEF RelationsOf

LEMMA NextKeepsRelationsFound ==
  TypeInv /\ RelationsFound /\ [Next]_vars => RelationsFound'
<1> SUFFICES ASSUME TypeInv, RelationsFound, [Next]_vars,
                    NEW v \in Workers, At(v, "dropRelations")'
             PROVE  RelationsOf(req[v].obj)' \subseteq req'[v].found \cup unseen'
  BY DEF RelationsFound
<1>1. CASE UNCHANGED vars
  BY <1>1 DEF vars, db, data, history, RelationsFound, RelationsOf, At
<1>2. ASSUME History, req'[v] = req[v] PROVE RelationsOf(req[v].obj)' \subseteq req'[v].found \cup unseen'
  BY <1>2, RelationsFoundKept DEF At
<1>3. ASSUME NEW w \in Workers, Start(w) PROVE req'[v] = req[v]
  BY <1>3, StartKeepsType DEF At, MidLabels
<1>4. ASSUME NEW w \in Workers, Crash(w) PROVE req'[v] = req[v]
  BY <1>4, CrashKeepsType DEF At, Idle
<1>5. ASSUME Call PROVE req'[v] = req[v]
  BY <1>5, CallKeepsType
<1>6. ASSUME NEW w \in Workers, Step(w), History
      PROVE  RelationsOf(req[v].obj)' \subseteq req'[v].found \cup unseen'
  <2>1. CASE v # w
    BY <1>2, <1>6, <2>1, StepRequests
  <2>2. CASE v = w
    BY <1>6, <2>2, EntersDropRelations DEF RelationsOf
  <2> QED BY <2>1, <2>2
<1> QED BY <1>1, <1>2, <1>3, <1>4, <1>5, <1>6 DEF Next

\* What the other workers are about to log stays with them.
LEMMA UnloggedKept ==
  ASSUME NEW w \in Workers, \A v \in Workers : v # w => req'[v] = req[v]
  PROVE  /\ ~At(w, "logRelations") => Unlogged \subseteq Unlogged'
         /\ Unlogged \subseteq req[w].found \cup Unlogged'
  BY DEF Unlogged, At

LEMMA NextLogsRelations ==
  ASSUME TypeInv, RelationsFound, [Next]_vars
  PROVE  (relations \ relations') \cup Unlogged \subseteq relationLog' \cup unseen' \cup Unlogged'
<1> DEFINE Logged == (relations \ relations') \cup Unlogged \subseteq relationLog' \cup unseen' \cup Unlogged'
<1>1. CASE UNCHANGED vars
  BY <1>1 DEF vars, db, data, history, Unlogged, At
<1>2. ASSUME NEW w \in Workers, Start(w) PROVE Logged
  <2>1. ~At(w, "logRelations") /\ \A v \in Workers : v # w => req'[v] = req[v]
    BY <1>2, StartKeepsType DEF At
  <2> QED BY <1>2, <2>1, UnloggedKept, StartBeginsRequest
<1>3. ASSUME Call PROVE Logged
  <2>1. relations \subseteq relations' /\ UNCHANGED req
    BY <1>3 DEF Call, Single, SetGroup, Relate, PlaceUnder, SwitchType
  <2> QED BY <2>1 DEF Unlogged, At
<1>4. ASSUME NEW w \in Workers, Crash(w), History PROVE Logged
  <2>1. /\ UNCHANGED relations
        /\ req'[w] = Idle("killed")
        /\ \A v \in Workers : v # w => req'[v] = req[v]
    BY <1>4, CrashKeepsType DEF Crash, db, data
  <2>2. CASE At(w, "logRelations")
    <3>1. Deleting(w)
      BY <2>2, KindOfRequest, DeletingIsDeletion DEF At, DeletionLabels, TypeInv
    <3>2. req[w].found \subseteq unseen'
      BY <1>4, <2>1, <2>2, <3>1 DEF History, Ended
    <3> QED BY <2>1, <3>2, UnloggedKept
  <2> QED BY <2>1, <2>2, UnloggedKept
<1>5. ASSUME NEW w \in Workers, Step(w), History PROVE Logged
  <2>1. \A v \in Workers : v # w => req'[v] = req[v]
    BY <1>5, StepRequests
  <2>2. CASE LogRelations(w)
    <3>1. req[w].found \subseteq relationLog' /\ UNCHANGED relations
      BY <2>2 DEF LogRelations
    <3> QED BY <2>1, <3>1, UnloggedKept
  <2>3. CASE DropRelations(w)
    <3>1. req[w] \in Deletions /\ At(w, "dropRelations") /\ ~At(w, "logRelations")
      BY <2>3, KindOfRequest DEF DropRelations, At, DeletionLabels, TypeInv
    <3>2. relations \ relations' \subseteq req[w].found \cup unseen'
      BY <1>5, <2>3, <3>1, HistoryGrows DEF DropRelations, RelationsFound
    <3>3. req'[w] = [req[w] EXCEPT !.at = "logRelations"]
      BY <2>3 DEF DropRelations, GoTo, TypeInv, ReqOK
    <3>4. req[w].found \subseteq Unlogged'
      BY <3>1, <3>3 DEF Unlogged, At, Deletions
    <3> QED BY <2>1, <3>1, <3>2, <3>4, UnloggedKept
  <2>4. CASE UNCHANGED relations /\ ~At(w, "logRelations")
    BY <2>1, <2>4, UnloggedKept
  <2> QED BY <1>5, <2>2, <2>3, <2>4, StepRelations, StepAtLabel
<1> QED BY <1>1, <1>2, <1>3, <1>4, <1>5 DEF Next

\* A relation that a deletion takes away stays in some worker's hand until it
\* is in the log, but for those inserted after the look and those of a worker
\* killed before it wrote the log.
THEOREM TakenRelationsAreLogged == Spec => TakenRelationsLogged
<1>1. Init => TypeInv
  BY MaxRequestsAssumption DEF Init, TypeInv, ReqOK, DataOK, Idle, Idles
<1>2. Init => RelationsFound
  BY DEF Init, RelationsFound, Idle, At
<1>3. TypeInv /\ RelationsFound /\ [Next]_vars =>
        [(relations \ relations') \cup Unlogged \subseteq relationLog' \cup unseen' \cup Unlogged']_vars
  BY NextLogsRelations
<1> QED
  BY <1>1, <1>2, <1>3, NextKeepsType, NextKeepsRelationsFound, PTL DEF Spec, TakenRelationsLogged

-----------------------------------------------------------------------------
(* What a finished deletion leaves behind. *)

\* Something of kind k points at object o.
TraceKinds == {"ref", "group", "relation", "location", "assessment", "measures"}
PointsAt(k, o) ==
  \/ k = "ref" /\ \E p \in Objs : doc[p] = o
  \/ k = "group" /\ o \in group
  \/ k = "relation" /\ RelationsOf(o) # {}
  \/ k = "location" /\ Located(o)
  \/ k = "assessment" /\ Assessed(o)
  \/ k = "measures" /\ o \in measures

TracesAreLinks == \A k \in TraceKinds, o \in Objs : <<k, o>> \in Traces <=> PointsAt(k, o)

LEMMA TracesPointAt == DataOK => TracesAreLinks
<1> SUFFICES ASSUME DataOK, NEW k \in TraceKinds, NEW o \in Objs
             PROVE  <<k, o>> \in Traces <=> PointsAt(k, o)
  BY DEF TracesAreLinks
<1>1. CASE k = "ref"
  <2>1. <<k, o>> \in Traces <=> <<k, o>> \in {<<"ref", doc[p]>> : p \in {q \in Objs : doc[q] \in Objs}}
    BY <1>1 DEF Traces
  <2> QED BY <1>1, <2>1 DEF PointsAt
<1>2. CASE k = "relation"
  <2>1. <<k, o>> \in Traces <=> \/ <<k, o>> \in {<<"relation", r[1]>> : r \in relations}
                                \/ <<k, o>> \in {<<"relation", r[2]>> : r \in relations}
    BY <1>2 DEF Traces
  <2>2. (\E r \in relations : o = r[1] \/ o = r[2]) <=> RelationsOf(o) # {}
    BY DEF RelationsOf
  <2> QED BY <1>2, <2>1, <2>2 DEF PointsAt
<1>3. CASE k \in {"group", "location", "assessment", "measures"}
  BY <1>3 DEF Traces, PointsAt
<1> QED BY <1>1, <1>2, <1>3 DEF TraceKinds

LEMMA TracesPointAtNext == DataOK' => TracesAreLinks'
  BY TracesPointAt, PTL

LEMMA TracesAreOfObjects ==
  ASSUME DataOK, NEW t \in Traces
  PROVE  \E k \in TraceKinds, o \in Objs : t = <<k, o>>
<1>1. CASE t \in {<<"ref", doc[p]>> : p \in {q \in Objs : doc[q] \in Objs}}
  BY <1>1 DEF TraceKinds
<1>2. CASE t \in {<<"relation", r[1]>> : r \in relations} \cup {<<"relation", r[2]>> : r \in relations}
  BY <1>2 DEF TraceKinds, DataOK, Pairs
<1>3. CASE \/ t \in {<<"group", o>> : o \in group} \/ t \in {<<"measures", o>> : o \in measures}
           \/ t \in {<<"location", o>> : o \in {p \in Objs : Located(p)}}
           \/ t \in {<<"assessment", o>> : o \in {p \in Objs : Assessed(p)}}
  BY <1>3 DEF TraceKinds, DataOK
<1> QED BY <1>1, <1>2, <1>3 DEF Traces

\* How far a deletion r has come for each of its objects: what it has taken
\* away, or has seen to be absent.
PastMeasures == {"verify", "remove", "references", "groups",
                 "findRelations", "dropRelations", "logRelations"}
HadItsTurn(r, o) == r.kind = "many" /\ (o \notin r.rest \cup {r.obj} \/ r.at \in {"groups", "references"})
PastGroups(r) == r.at \in (IF r.kind = "one" THEN {"findRelations", "dropRelations", "logRelations"}
                                             ELSE {"references"})

Passed(r, k, o) ==
  \/ k = "location" /\ r.at \notin {"locate", "children", "unlocate", "locations"}
  \/ k \in {"assessment", "measures", "relation"} /\ HadItsTurn(r, o)
  \/ k = "assessment" /\ o = r.obj /\ r.at \in PastMeasures \cup {"dropMeasures"}
  \/ k = "measures" /\ o = r.obj /\ r.at \in PastMeasures
  \/ k = "relation" /\ o = r.obj /\ r.at = "logRelations"
  \/ k = "group" /\ PastGroups(r)
  \/ k = "ref" /\ r.kind = "one" /\ (r.at = "groups" \/ PastGroups(r))

\* What the property allows, and an assignment that some deletion has in hand.
InHand(o) == \E w \in Workers : At(w, "dropMeasures") /\ req[w].obj = o
Excused(k, o) == \/ <<k, o>> \in late
                 \/ k = "measures" /\ (o \in stranded \/ InHand(o))

\* A deletion of one object has one; only such a deletion handles a location.
KindFits(r) == /\ r.kind = "one" => r.ids = {r.obj}
               /\ r.at \in {"locate", "children", "unlocate"} => r.kind = "one"
KindsFit == \A w \in Workers : Deleting(w) => KindFits(req[w])
DeletedSoFar ==
  \A w \in Workers, k \in TraceKinds, o \in Objs :
    Deleting(w) /\ o \in req[w].ids /\ Passed(req[w], k, o) /\ PointsAt(k, o) => Excused(k, o)
CleanedExcused ==
  \A k \in TraceKinds, o \in Objs : o \in cleaned /\ PointsAt(k, o) => Excused(k, o)
DeletionInv == KindsFit /\ DeletedSoFar /\ CleanedExcused

LEMMA DeletionInvSuffices == TypeInv /\ DeletionInv => DeletionComplete
<1> SUFFICES ASSUME TypeInv, DeletionInv, NEW t \in Traces, t[2] \in cleaned \ Doomed
             PROVE  t \in late \/ (t[1] = "measures" /\ t[2] \in stranded)
  BY DEF DeletionComplete
<1> PICK k \in TraceKinds, o \in Objs : t = <<k, o>>
  BY TracesAreOfObjects DEF TypeInv
<1>1. Excused(k, o)
  BY TracesPointAt DEF TypeInv, DeletionInv, CleanedExcused, TracesAreLinks
<1>2. ~InHand(o)
  <2> SUFFICES ASSUME NEW w \in Workers, At(w, "dropMeasures"), req[w].obj = o PROVE FALSE
    BY DEF InHand
  <2>1. req[w] \in Deletions
    BY KindOfRequest DEF TypeInv, At, DeletionLabels
  <2>2. Deleting(w)
    BY <2>1, DeletingIsDeletion DEF TypeInv
  <2>3. o \in req[w].ids
    BY <2>1 DEF Deletions
  <2> QED BY <2>2, <2>3 DEF Doomed
<1> QED BY <1>1, <1>2 DEF Excused

\* An assignment in hand stays so until it is deleted or its worker killed.
LEMMA InHandKept ==
  ASSUME TypeInv, Next, NEW o \in Objs, InHand(o)
  PROVE  o \notin measures' \/ o \in stranded' \/ InHand(o)'
<1> PICK v \in Workers : At(v, "dropMeasures") /\ req[v].obj = o
  BY DEF InHand
<1>1. ASSUME req'[v] = req[v] PROVE InHand(o)'
  BY <1>1 DEF InHand, At
<1>2. ASSUME NEW w \in Workers, Start(w) PROVE req'[v] = req[v]
  BY <1>2, StartKeepsType DEF At
<1>3. ASSUME Call PROVE req'[v] = req[v]
  BY <1>3, CallKeepsType
<1>4. ASSUME NEW w \in Workers, Step(w), w # v PROVE req'[v] = req[v]
  BY <1>4, StepRequests
<1>5. ASSUME Step(v) PROVE o \notin measures'
  BY <1>5, StepAtLabel DEF DropMeasures
<1>6. ASSUME NEW w \in Workers, Crash(w), w # v PROVE req'[v] = req[v]
  BY <1>6, CrashKeepsType
<1>7. ASSUME Crash(v) PROVE o \in stranded'
  <2>1. Deleting(v)
    BY KindOfRequest, DeletingIsDeletion DEF At, DeletionLabels, TypeInv
  <2>2. req'[v] = Idle("killed")
    BY <1>7, CrashKeepsType
  <2> QED BY <2>1, <2>2 DEF Next, History, Ended
<1> QED BY <1>1, <1>2, <1>3, <1>4, <1>5, <1>6, <1>7 DEF Next

\* An excuse lasts while the object is being deleted or counts as deleted, and
\* what has come to point at it since is late.
LEMMA ExcusesLast ==
  ASSUME TypeInv, TypeInv', Next, NEW k \in TraceKinds, NEW o \in Objs,
         PointsAt(k, o)', o \in Doomed' \cup cleaned',
         PointsAt(k, o) => Excused(k, o)
  PROVE  Excused(k, o)'
<1>1. <<k, o>> \in Traces' /\ (<<k, o>> \in Traces <=> PointsAt(k, o))
  BY TracesPointAt, TracesPointAtNext DEF TypeInv, TracesAreLinks
<1>2. late' = {t \in Traces' \cap (late \cup (Traces' \ Traces)) : t[2] \in Doomed' \cup cleaned'}
  BY DEF Next, History
<1>3. CASE ~PointsAt(k, o) \/ <<k, o>> \in late
  BY <1>1, <1>2, <1>3 DEF Excused
<1>4. CASE k = "measures" /\ o \in stranded
  BY <1>4, HistoryGrows DEF Next, Excused
<1>5. CASE k = "measures" /\ InHand(o)
  <2>1. o \in measures'
    BY <1>5 DEF PointsAt
  <2> QED BY <1>5, <2>1, InHandKept DEF Excused
<1> QED BY <1>3, <1>4, <1>5 DEF Excused

\* An assignment without assessment is excused already.
LEMMA UnassessedExcused ==
  ASSUME MeasuresHaveAssessment, NEW o \in measures, ~Assessed(o)
  PROVE  Excused("measures", o)
  BY DEF MeasuresHaveAssessment, Excused, InHand

\* A deletion that goes to another label stays what it is.
LEMMA GoToMoves ==
  ASSUME ReqOK, NEW w \in Workers, NEW label \in DeletionLabels,
         req[w] \in Deletions, GoTo(w, label)
  PROVE  /\ req'[w].at = label
         /\ req'[w].kind = req[w].kind /\ req'[w].ids = req[w].ids
         /\ req'[w].obj = req[w].obj /\ req'[w].rest = req[w].rest
<1>1. req'[w] = [req[w] EXCEPT !.at = label]
  BY GoToKeeps
<1> QED BY <1>1 DEF Deletions

\* Where a deletion goes at the end of what it does for one object.
LEMMA NextObjectMoves ==
  ASSUME ReqOK, NEW w \in Workers, req[w] \in Deletions, KindFits(req[w]), NextObject(w)
  PROVE  \/ req[w].kind = "one" /\ req'[w] = Idle("done")
         \/ /\ req[w].kind = "many" /\ req[w].rest = {}
            /\ req'[w].at = "groups" /\ req'[w].kind = "many" /\ req'[w].ids = req[w].ids
            /\ req'[w].obj = req[w].obj /\ req'[w].rest = {}
         \/ /\ req[w].kind = "many"
            /\ req'[w].at = "findAssessments" /\ req'[w].kind = "many" /\ req'[w].ids = req[w].ids
            /\ req'[w].obj \in req[w].rest /\ req'[w].rest = req[w].rest \ {req'[w].obj}
<1>1. CASE req[w].kind = "one" /\ Answer(w, "done")
  BY <1>1, AnswerKeeps
<1>2. CASE req[w].kind = "many" /\ req[w].rest = {} /\ GoTo(w, "groups")
  BY <1>2, GoToMoves DEF DeletionLabels
<1>3. CASE \E o \in req[w].rest :
             req' = [req EXCEPT ![w] = [@ EXCEPT !.at = "findAssessments", !.obj = o,
                                                 !.rest = req[w].rest \ {o}, !.found = {}]]
  BY <1>3 DEF ReqOK, Deletions, KindFits
<1> QED BY <1>1, <1>2, <1>3 DEF NextObject

LEMMA NextObjectPasses ==
  ASSUME ReqOK, NEW w \in Workers, req[w] \in Deletions, KindFits(req[w]), NextObject(w),
         Deleting(w)', NEW k \in TraceKinds, NEW o \in Objs, Passed(req'[w], k, o),
         req[w].at \in {"findRelations", "logRelations"}
  PROVE  Passed(req[w], k, o) \/ (k = "relation" /\ o = req[w].obj)
<1>1. req'[w] # Idle("done")
  BY DEF Deleting, Idle
<1> QED BY <1>1, NextObjectMoves DEF Passed, HadItsTurn, PastGroups, PastMeasures, Deletions

\* The requests of other kinds do not turn into deletions.
LEMMA OtherStepsDeleteNothing ==
  ASSUME TypeInv, NEW w \in Workers, OtherStep(w)
  PROVE  ~Deleting(w) /\ ~Deleting(w)'
<1>1. ~Deleting(w)
  BY KindOfRequest, DeletingIsDeletion
     DEF OtherStep, CheckType, Write, CheckTypeNew, Insert, AddMeasures, At, TypeInv,
         WriteLabels, DeletionLabels, Deletions
<1>2. ASSUME NEW how \in {"done", "refused"}, Answer(w, how) PROVE "ids" \notin DOMAIN req'[w]
  BY <1>2, AnswerKeeps DEF Idle, TypeInv
<1>3. CASE CheckType(w) \/ CheckTypeNew(w)
  <2>1. req[w] \in Writes
    BY <1>3, KindOfRequest DEF CheckType, CheckTypeNew, At, WriteLabels, TypeInv
  <2>2. ASSUME NEW label \in WriteLabels, GoTo(w, label) PROVE "ids" \notin DOMAIN req'[w]
    BY <2>1, <2>2, GoToWriteKeeps DEF Writes, TypeInv
  <2> QED BY <1>1, <1>2, <1>3, <2>2 DEF CheckType, CheckTypeNew, WriteLabels, Deleting
<1>4. CASE Write(w) \/ Insert(w) \/ AddMeasures(w)
  BY <1>1, <1>2, <1>4 DEF Write, Insert, AddMeasures, Deleting
<1> QED BY <1>1, <1>3, <1>4 DEF OtherStep

LEMMA DeleteStepOfDeletion ==
  ASSUME TypeInv, NEW w \in Workers, DeleteStep(w)
  PROVE  req[w] \in Deletions /\ Deleting(w)
<1>1. req[w] \in Deletions
  BY KindOfRequest
     DEF DeleteStep, Locate, Children, Unlocate, Locations, FindAssessments, DropAssessments,
         DropMeasures, Verify, Remove, References, Groups, FindRelations, DropRelations,
         LogRelations, At, DeletionLabels, TypeInv
<1> QED BY <1>1, DeletingIsDeletion DEF TypeInv

\* A step of a deletion passes only what it takes away or sees to be absent,
\* and the assignments of an object without assessment.
LEMMA StepPasses ==
  ASSUME TypeInv, KindsFit, NEW w \in Workers, DeleteStep(w), Deleting(w)',
         NEW k \in TraceKinds, NEW o \in Objs, o \in req[w].ids,
         Passed(req'[w], k, o), PointsAt(k, o)'
  PROVE  Passed(req[w], k, o) \/ (k = "measures" /\ ~Assessed(o))
<1> DEFINE Old == Passed(req[w], k, o)
<1>1. ReqOK /\ req[w] \in Deletions /\ KindFits(req[w])
  BY DeleteStepOfDeletion DEF TypeInv, KindsFit
<1>2. ASSUME NEW how \in {"done", "refused"}, Answer(w, how) PROVE FALSE
  BY <1>1, <1>2, AnswerKeeps DEF Deleting, Idle
<1>3. ASSUME NEW label \in DeletionLabels, GoTo(w, label)
      PROVE  /\ req'[w].at = label
             /\ req'[w].kind = req[w].kind /\ req'[w].ids = req[w].ids
             /\ req'[w].obj = req[w].obj /\ req'[w].rest = req[w].rest
  BY <1>1, <1>3, GoToMoves
<1>4. CASE Locate(w)
  <2>1. CASE Located(req[w].obj)
    <3>1. req[w].at = "locate" /\ GoTo(w, "children")
      BY <1>4, <2>1 DEF Locate, At
    <3> QED BY <1>1, <1>3, <3>1 DEF Passed, HadItsTurn, PastGroups, PastMeasures, DeletionLabels
  <2>2. CASE ~Located(req[w].obj)
    <3>1. req[w].at = "locate" /\ GoTo(w, "findAssessments")
      BY <1>4, <2>2 DEF Locate, At
    <3>2. o = req[w].obj
      BY <1>1, <3>1 DEF KindFits
    <3>3. k # "location"
      BY <1>4, <2>2, <3>2 DEF Locate, PointsAt, Located, db, data
    <3> QED BY <1>1, <1>3, <3>1, <3>3
            DEF Passed, HadItsTurn, PastGroups, PastMeasures, DeletionLabels
  <2> QED BY <2>1, <2>2
<1>5. CASE Children(w)
  <2>1. req[w].at = "children" /\ GoTo(w, "unlocate")
    BY <1>2, <1>5 DEF Children, At
  <2> QED BY <1>1, <1>3, <2>1 DEF Passed, HadItsTurn, PastGroups, PastMeasures, DeletionLabels
<1>6. CASE Unlocate(w)
  <2>1. req[w].at = "unlocate" /\ GoTo(w, "findAssessments")
    BY <1>6 DEF Unlocate, At
  <2>2. o = req[w].obj
    BY <1>1, <2>1 DEF KindFits
  <2>3. k # "location"
    BY <1>6, <2>2 DEF Unlocate, PointsAt, Located, TypeInv, DataOK
  <2> QED BY <1>1, <1>3, <2>1, <2>3 DEF Passed, HadItsTurn, PastGroups, PastMeasures, DeletionLabels
<1>7. CASE Locations(w)
  <2>1. req[w].at = "locations" /\ GoTo(w, "findAssessments") /\ ~Located(o)
    BY <1>2, <1>7 DEF Locations, At
  <2>2. k # "location"
    BY <1>7, <2>1 DEF Locations, PointsAt, Located, db, data
  <2> QED BY <1>1, <1>3, <2>1, <2>2 DEF Passed, HadItsTurn, PastGroups, PastMeasures, DeletionLabels
<1>8. CASE FindAssessments(w)
  <2>1. CASE Assessed(req[w].obj)
    <3>1. req[w].at = "findAssessments" /\ GoTo(w, "dropAssessments")
      BY <1>8, <2>1 DEF FindAssessments, At
    <3> QED BY <1>1, <1>3, <3>1 DEF Passed, HadItsTurn, PastGroups, PastMeasures, DeletionLabels
  <2>2. CASE ~Assessed(req[w].obj)
    <3>1. req[w].at = "findAssessments" /\ GoTo(w, "verify")
      BY <1>8, <2>2 DEF FindAssessments, At
    <3>2. ~(k = "assessment" /\ o = req[w].obj)
      BY <1>8, <2>2 DEF FindAssessments, PointsAt, Assessed, db, data
    <3> QED BY <1>1, <1>3, <2>2, <3>1, <3>2
            DEF Passed, HadItsTurn, PastGroups, PastMeasures, DeletionLabels
  <2> QED BY <2>1, <2>2
<1>9. CASE DropAssessments(w)
  <2>1. req[w].at = "dropAssessments" /\ GoTo(w, "dropMeasures")
    BY <1>9 DEF DropAssessments, At
  <2>2. ~(k = "assessment" /\ o = req[w].obj)
    BY <1>9 DEF DropAssessments, PointsAt, Assessed, TypeInv, DataOK
  <2> QED BY <1>1, <1>3, <2>1, <2>2 DEF Passed, HadItsTurn, PastGroups, PastMeasures, DeletionLabels
<1>10. CASE DropMeasures(w)
  <2>1. req[w].at = "dropMeasures" /\ GoTo(w, "verify")
    BY <1>10 DEF DropMeasures, At
  <2>2. ~(k = "measures" /\ o = req[w].obj)
    BY <1>10 DEF DropMeasures, PointsAt
  <2> QED BY <1>1, <1>3, <2>1, <2>2 DEF Passed, HadItsTurn, PastGroups, PastMeasures, DeletionLabels
<1>11. CASE Verify(w) \/ Remove(w)
  <2>1. /\ req[w].at \in {"verify", "remove"}
        /\ \/ GoTo(w, "remove")
           \/ GoTo(w, "references") /\ req[w].kind = "one"
           \/ GoTo(w, "findRelations") /\ req[w].kind # "one"
    BY <1>2, <1>11 DEF Verify, Remove, AfterObject, At
  <2> QED BY <1>1, <1>3, <2>1
          DEF Passed, HadItsTurn, PastGroups, PastMeasures, DeletionLabels, KindFits
<1>12. CASE References(w)
  <2>1. req[w].at = "references" /\ req[w].kind = "one" /\ GoTo(w, "groups")
    BY <1>2, <1>12 DEF References, At
  <2>2. \A p \in Objs : doc'[p] # o
    BY <1>12, SentinelsAssumption DEF References
  <2>3. k # "ref"
    BY <2>2 DEF PointsAt
  <2> QED BY <1>1, <1>3, <2>1, <2>3 DEF Passed, HadItsTurn, PastGroups, PastMeasures, DeletionLabels
<1>13. CASE Groups(w)
  <2>1. /\ req[w].at = "groups"
        /\ \/ GoTo(w, "findRelations") /\ req[w].kind = "one"
           \/ GoTo(w, "references") /\ req[w].kind # "one"
    BY <1>13 DEF Groups, At
  <2>2. k # "group"
    BY <1>13 DEF Groups, PointsAt
  <2> QED BY <1>1, <1>3, <2>1, <2>2
          DEF Passed, HadItsTurn, PastGroups, PastMeasures, DeletionLabels, KindFits
<1>14. CASE FindRelations(w)
  <2>1. CASE RelationsOf(req[w].obj) = {}
    <3>1. req[w].at = "findRelations" /\ NextObject(w)
      BY <1>14, <2>1 DEF FindRelations, At
    <3>2. ~(k = "relation" /\ o = req[w].obj)
      BY <1>14, <2>1 DEF FindRelations, PointsAt, RelationsOf, db, data
    <3> QED BY <1>1, <3>1, <3>2, NextObjectPasses
  <2>2. CASE RelationsOf(req[w].obj) # {}
    <3>1. /\ req[w].at = "findRelations"
          /\ req' = [req EXCEPT ![w].at = "dropRelations", ![w].found = RelationsOf(req[w].obj)]
      BY <1>14, <2>2 DEF FindRelations, At
    <3>2. /\ req'[w].at = "dropRelations"
          /\ req'[w].kind = req[w].kind
          /\ req'[w].obj = req[w].obj /\ req'[w].rest = req[w].rest
      BY <1>1, <3>1 DEF ReqOK, Deletions
    <3> QED BY <1>1, <3>1, <3>2 DEF Passed, HadItsTurn, PastGroups, PastMeasures
  <2> QED BY <2>1, <2>2
<1>15. CASE DropRelations(w)
  <2>1. req[w].at = "dropRelations" /\ GoTo(w, "logRelations")
    BY <1>15 DEF DropRelations, At
  <2>2. ~(k = "relation" /\ o = req[w].obj)
    BY <1>15 DEF DropRelations, PointsAt, RelationsOf
  <2> QED BY <1>1, <1>3, <2>1, <2>2 DEF Passed, HadItsTurn, PastGroups, PastMeasures, DeletionLabels
<1>16. CASE LogRelations(w)
  <2>1. req[w].at = "logRelations" /\ NextObject(w)
    BY <1>16 DEF LogRelations, At
  <2>2. Passed(req[w], k, o) \/ (k = "relation" /\ o = req[w].obj)
    BY <1>1, <2>1, NextObjectPasses
  <2> QED BY <2>1, <2>2 DEF Passed
<1> QED BY <1>4, <1>5, <1>6, <1>7, <1>8, <1>9, <1>10, <1>11, <1>12, <1>13, <1>14, <1>15, <1>16
        DEF DeleteStep

\* A deletion that is answered True has passed everything but what its last
\* call takes away or sees to be absent.
LEMMA DonePasses ==
  ASSUME TypeInv, KindsFit, NEW w \in Workers, DeleteStep(w), req'[w] = Idle("done"),
         NEW k \in TraceKinds, NEW o \in Objs, o \in req[w].ids, PointsAt(k, o)'
  PROVE  Passed(req[w], k, o)
<1>1. ReqOK /\ req[w] \in Deletions /\ KindFits(req[w])
  BY DeleteStepOfDeletion DEF TypeInv, KindsFit
<1>2. ASSUME NEW label \in DeletionLabels, GoTo(w, label) PROVE FALSE
  <2>1. req'[w].at = label
    BY <1>1, <1>2, GoToMoves
  <2> QED BY <2>1 DEF Idle, DeletionLabels
<1>3. ASSUME Answer(w, "refused") PROVE FALSE
  BY <1>1, <1>3, AnswerKeeps DEF Idle
<1>4. CASE References(w)
  <2>1. req[w].at = "references" /\ req[w].kind = "many"
    BY <1>1, <1>2, <1>4 DEF References, At, DeletionLabels, Deletions
  <2>2. \A p \in Objs : doc'[p] # o
    BY <1>4, SentinelsAssumption DEF References
  <2>3. k # "ref"
    BY <2>2 DEF PointsAt
  <2> QED BY <2>1, <2>3 DEF Passed, HadItsTurn, PastGroups, TraceKinds
<1>5. ASSUME req[w].at \in {"findRelations", "logRelations"}, NextObject(w),
             req[w].at = "logRelations" \/ k # "relation"
      PROVE  Passed(req[w], k, o)
  <2>1. req[w].kind = "one"
    BY <1>1, <1>5, NextObjectMoves DEF Idle
  <2>2. o = req[w].obj
    BY <1>1, <2>1 DEF KindFits
  <2> QED BY <1>5, <2>1, <2>2 DEF Passed, HadItsTurn, PastGroups, PastMeasures, TraceKinds
<1>6. CASE LogRelations(w)
  BY <1>5, <1>6 DEF LogRelations, At
<1>7. CASE FindRelations(w)
  <2>1. CASE RelationsOf(req[w].obj) = {}
    <3>1. req[w].at = "findRelations" /\ NextObject(w)
      BY <1>7, <2>1 DEF FindRelations, At
    <3>2. req[w].kind = "one"
      BY <1>1, <3>1, NextObjectMoves DEF Idle
    <3>3. o = req[w].obj
      BY <1>1, <3>2 DEF KindFits
    <3>4. k # "relation"
      BY <1>7, <2>1, <3>3 DEF FindRelations, PointsAt, RelationsOf, db, data
    <3> QED BY <1>5, <3>1, <3>4
  <2>2. CASE RelationsOf(req[w].obj) # {}
    <3>1. req' = [req EXCEPT ![w].at = "dropRelations", ![w].found = RelationsOf(req[w].obj)]
      BY <1>7, <2>2 DEF FindRelations
    <3>2. req'[w].at = "dropRelations"
      BY <1>1, <3>1 DEF ReqOK, Deletions
    <3> QED BY <3>2 DEF Idle
  <2> QED BY <2>1, <2>2
<1>8. CASE \/ Locate(w) \/ Children(w) \/ Unlocate(w) \/ Locations(w) \/ FindAssessments(w)
           \/ DropAssessments(w) \/ DropMeasures(w) \/ Groups(w) \/ DropRelations(w)
  BY <1>2, <1>3, <1>8 DEF Locate, Children, Unlocate, Locations, FindAssessments,
     DropAssessments, DropMeasures, Groups, DropRelations, DeletionLabels
<1>9. CASE Verify(w) \/ Remove(w)
  BY <1>2, <1>3, <1>9 DEF Verify, Remove, AfterObject, DeletionLabels
<1> QED BY <1>4, <1>6, <1>7, <1>8, <1>9 DEF DeleteStep

\* A step leaves the objects asked for and the fit of kind and label.
LEMMA StepKeepsKind ==
  ASSUME TypeInv, KindsFit, NEW w \in Workers, DeleteStep(w), Deleting(w)'
  PROVE  req'[w].ids = req[w].ids /\ KindFits(req'[w])
<1> DEFINE Kept == req'[w].ids = req[w].ids /\ KindFits(req'[w])
<1>1. ReqOK /\ req[w] \in Deletions /\ KindFits(req[w])
  BY DeleteStepOfDeletion DEF TypeInv, KindsFit
<1>2. ASSUME NEW how \in {"done", "refused"}, Answer(w, how) PROVE FALSE
  BY <1>1, <1>2, AnswerKeeps DEF Deleting, Idle
<1>3. ASSUME NEW label \in DeletionLabels \ {"locate", "children", "unlocate"}, GoTo(w, label)
      PROVE  Kept
  BY <1>1, <1>3, GoToMoves DEF KindFits
<1>4. ASSUME req[w].at \in {"locate", "children"}, NEW label \in {"children", "unlocate"}, GoTo(w, label)
      PROVE  Kept
  BY <1>1, <1>4, GoToMoves DEF KindFits, DeletionLabels
<1>5. ASSUME NextObject(w) PROVE Kept
  <2>1. req'[w] # Idle("done")
    BY DEF Deleting, Idle
  <2> QED BY <1>1, <1>5, <2>1, NextObjectMoves DEF KindFits
<1>6. CASE Locate(w) \/ Children(w)
  BY <1>2, <1>3, <1>4, <1>6 DEF Locate, Children, At, DeletionLabels
<1>7. CASE \/ Unlocate(w) \/ Locations(w) \/ FindAssessments(w) \/ DropAssessments(w)
           \/ DropMeasures(w) \/ References(w) \/ Groups(w) \/ DropRelations(w)
  BY <1>2, <1>3, <1>7 DEF Unlocate, Locations, FindAssessments, DropAssessments, DropMeasures,
     References, Groups, DropRelations, DeletionLabels
<1>8. CASE Verify(w) \/ Remove(w)
  BY <1>2, <1>3, <1>8 DEF Verify, Remove, AfterObject, DeletionLabels
<1>9. CASE FindRelations(w)
  <2>1. CASE req' = [req EXCEPT ![w].at = "dropRelations", ![w].found = RelationsOf(req[w].obj)]
    <3>1. /\ req'[w].at = "dropRelations"
          /\ req'[w].kind = req[w].kind /\ req'[w].ids = req[w].ids
          /\ req'[w].obj = req[w].obj
      BY <1>1, <2>1 DEF ReqOK, Deletions
    <3> QED BY <1>1, <3>1 DEF KindFits
  <2> QED BY <1>5, <1>9, <2>1 DEF FindRelations
<1>10. CASE LogRelations(w)
  BY <1>5, <1>10 DEF LogRelations
<1> QED BY <1>6, <1>7, <1>8, <1>9, <1>10 DEF DeleteStep

\* The other actions: what becomes of the deletions in progress.
LEMMA DeletionsElsewhere ==
  ASSUME TypeInv, Next, NEW v \in Workers, Deleting(v)'
  PROVE  \/ req'[v] = req[v]
         \/ DeleteStep(v)
         \/ /\ At(v, "idle") /\ KindFits(req'[v])
            /\ \A k \in TraceKinds, o \in req'[v].ids : ~Passed(req'[v], k, o)
<1> DEFINE Fresh == /\ At(v, "idle") /\ KindFits(req'[v])
                    /\ \A k \in TraceKinds, o \in req'[v].ids : ~Passed(req'[v], k, o)
<1>1. ASSUME NEW w \in Workers, w # v, Start(w) \/ Step(w) \/ Crash(w)
      PROVE  req'[v] = req[v]
  BY <1>1, StartKeepsType, StepRequests, CrashKeepsType
<1>2. ASSUME Call PROVE req'[v] = req[v]
  BY <1>2, CallKeepsType
<1>3. ASSUME Crash(v) PROVE FALSE
  BY <1>3, CrashKeepsType DEF Deleting, Idle
<1>4. ASSUME Step(v) PROVE DeleteStep(v)
  BY <1>4, OtherStepsDeleteNothing DEF Step
<1>5. ASSUME Start(v) PROVE Fresh
  <2>1. At(v, "idle") /\ v \in DOMAIN req
    BY <1>5, StartKeepsType DEF TypeInv, ReqOK
  <2>2. ASSUME NEW o \in Objs, StartDelete(v, o) PROVE Fresh
    <3>1. req'[v] = Deletion("locate", "one", {o}, o)
      BY <2>1, <2>2 DEF StartDelete, Begin
    <3> QED BY <2>1, <3>1 DEF Deletion, KindFits, Passed, HadItsTurn, PastGroups, PastMeasures, TraceKinds
  <2>3. ASSUME NEW S \in SUBSET Objs, NEW o \in S, StartDeleteMany(v, S, o) PROVE Fresh
    <3>1. req'[v] = Deletion("locations", "many", S, o)
      BY <2>1, <2>3 DEF StartDeleteMany, Begin
    <3> QED BY <2>1, <3>1 DEF Deletion, KindFits, Passed, HadItsTurn, PastGroups, PastMeasures, TraceKinds
  <2>4. ASSUME NEW o \in Objs, \/ StartAssess(v, o)
                               \/ \E x \in Refs \cup {Missing} : StartUpdate(v, o, x)
                               \/ \E x \in Refs : StartInsert(v, o, x)
        PROVE  FALSE
    BY <2>1, <2>4 DEF StartAssess, StartUpdate, StartInsert, Begin, Deleting
  <2> QED BY <1>5, <2>2, <2>3, <2>4 DEF Start
<1> QED BY <1>1, <1>2, <1>3, <1>4, <1>5 DEF Next

\* Only a step of its own has a deletion answered True.
LEMMA DoneByStep ==
  ASSUME TypeInv, Next, NEW v \in Workers, Deleting(v), req'[v] = Idle("done")
  PROVE  DeleteStep(v)
<1>1. ASSUME req'[v] = req[v] PROVE FALSE
  BY <1>1 DEF Deleting, Idle
<1>2. ASSUME NEW w \in Workers, w # v, Start(w) \/ Step(w) \/ Crash(w)
      PROVE  req'[v] = req[v]
  BY <1>2, StartKeepsType, StepRequests, CrashKeepsType
<1>3. ASSUME Call PROVE req'[v] = req[v]
  BY <1>3, CallKeepsType
<1>4. ASSUME Crash(v) PROVE FALSE
  BY <1>4, CrashKeepsType DEF Idle
<1>5. ASSUME Start(v) PROVE FALSE
  BY <1>5, StartKeepsType, KindOfRequest DEF TypeInv, Idles, Deleting
<1>6. ASSUME Step(v) PROVE DeleteStep(v)
  BY <1>6, OtherStepsDeleteNothing DEF Step
<1> QED BY <1>1, <1>2, <1>3, <1>4, <1>5, <1>6 DEF Next

LEMMA NextKeepsDeletionInv ==
  ASSUME TypeInv, TypeInv', MeasuresHaveAssessment, DeletionInv, Next
  PROVE  DeletionInv'
<1>1. KindsFit /\ DeletedSoFar /\ CleanedExcused
  BY DEF DeletionInv
<1>2. ASSUME NEW k \in TraceKinds, NEW o \in Objs, k = "measures", ~Assessed(o), PointsAt(k, o)
      PROVE  Excused(k, o)
  BY <1>2, UnassessedExcused DEF PointsAt
<1>3. KindsFit'
  <2> SUFFICES ASSUME NEW w \in Workers, Deleting(w)' PROVE KindFits(req'[w])
    BY DEF KindsFit
  <2>1. CASE req'[w] = req[w]
    BY <1>1, <2>1 DEF KindsFit, Deleting
  <2>2. CASE DeleteStep(w)
    BY <1>1, <2>2, StepKeepsKind
  <2> QED BY <2>1, <2>2, DeletionsElsewhere
<1>4. DeletedSoFar'
  <2> SUFFICES ASSUME NEW w \in Workers, NEW k \in TraceKinds, NEW o \in Objs,
                      Deleting(w)', o \in req'[w].ids, Passed(req'[w], k, o), PointsAt(k, o)'
               PROVE  Excused(k, o)'
    BY DEF DeletedSoFar
  <2>1. o \in Doomed'
    BY DEF Doomed
  <2>2. PointsAt(k, o) => Excused(k, o)
    <3>1. CASE req'[w] = req[w]
      BY <1>1, <3>1 DEF DeletedSoFar, Deleting
    <3>2. CASE DeleteStep(w)
      <4>1. o \in req[w].ids /\ Deleting(w)
        BY <1>1, <3>2, StepKeepsKind, DeleteStepOfDeletion
      <4>2. Passed(req[w], k, o) \/ (k = "measures" /\ ~Assessed(o))
        BY <1>1, <3>2, <4>1, StepPasses
      <4> QED BY <1>1, <1>2, <4>1, <4>2 DEF DeletedSoFar
    <3> QED BY <3>1, <3>2, DeletionsElsewhere
  <2> QED BY <2>1, <2>2, ExcusesLast
<1>5. CleanedExcused'
  <2> SUFFICES ASSUME NEW k \in TraceKinds, NEW o \in Objs, o \in cleaned', PointsAt(k, o)'
               PROVE  Excused(k, o)'
    BY DEF CleanedExcused
  <2>1. PointsAt(k, o) => Excused(k, o)
    <3>1. CASE o \in cleaned
      BY <1>1, <3>1 DEF CleanedExcused
    <3>2. CASE o \notin cleaned
      <4>1. PICK w \in Ended("done") : o \in req[w].ids
        BY <3>2 DEF Next, History
      <4>2. w \in Workers /\ Deleting(w) /\ req'[w] = Idle("done")
        BY <4>1 DEF Ended
      <4>3. DeleteStep(w)
        BY <4>2, DoneByStep
      <4>4. Passed(req[w], k, o)
        BY <1>1, <4>1, <4>2, <4>3, DonePasses
      <4> QED BY <1>1, <4>1, <4>2, <4>4 DEF DeletedSoFar
    <3> QED BY <3>1, <3>2
  <2> QED BY <2>1, ExcusesLast
<1> QED BY <1>3, <1>4, <1>5 DEF DeletionInv

LEMMA StutterKeepsDeletionInv ==
  ASSUME DeletionInv, UNCHANGED vars
  PROVE  DeletionInv'
  BY DEF vars, db, data, history, DeletionInv, KindsFit, DeletedSoFar, CleanedExcused, Deleting,
         PointsAt, RelationsOf, Located, Assessed, Excused, InHand, At

\* After a deletion was answered True, what still points at the object was
\* written while or after it was deleted, whatever else went on.
THEOREM DeletionIsComplete == Spec => []DeletionComplete
<1>1. Init => TypeInv
  BY MaxRequestsAssumption DEF Init, TypeInv, ReqOK, DataOK, Idle, Idles
<1>2. Init => MeasuresHaveAssessment
  BY DEF Init, MeasuresHaveAssessment
<1>3. Init => DeletionInv
  BY DEF Init, DeletionInv, KindsFit, DeletedSoFar, CleanedExcused, Deleting, Idle
<1>4. TypeInv /\ MeasuresHaveAssessment /\ DeletionInv /\ [Next]_vars => DeletionInv'
  BY NextKeepsType, NextKeepsDeletionInv, StutterKeepsDeletionInv
<1> QED
  BY <1>1, <1>2, <1>3, <1>4, NextKeepsType, NextKeepsMeasures, DeletionInvSuffices, PTL DEF Spec
=============================================================================

---------------------------- MODULE SessionProofs ----------------------------
(***************************************************************************)
(* Proofs about Session for any tabs, users and bounds: type correctness,  *)
(* whose rights a tab shows, who may end a session, and that the timer     *)
(* warns before it does.                                                   *)
(***************************************************************************)
EXTENDS Session, TLAPS

(* TypeOK in three parts: what the sessions are, what the tabs show, and     *)
(* what is on its way.                                                       *)
SessionsOK == /\ now \in 0..MaxNow
              /\ stored \in Tokens \cup {None} /\ storedRights \in Users \cup {None}
              /\ mem \in [Tabs -> Tokens \cup {None}] /\ rights \in [Tabs -> Users \cup {None}]
              /\ deadline = [t \in Tabs |-> IF mem[t] = None THEN None ELSE mem[t].expire]

ViewsOK == /\ notified \in [Tabs -> BOOLEAN] /\ modal \in [Tabs -> BOOLEAN]
           /\ tick \in [Tabs -> {"due", "done", "warned", "missed"}] /\ mixed \subseteq Tabs

RequestsOK == /\ posts \subseteq [tab : Tabs, user : Users, from : {"page", "dialog"}]
              /\ groups \subseteq [tab : Tabs, token : Tokens]
              /\ fetches \subseteq [tab : Tabs, token : Tokens \cup {None}]
              /\ posted \in 0..MaxPosts

LEMMA TypeParts == TypeOK <=> SessionsOK /\ ViewsOK /\ RequestsOK
BY DEF TypeOK, SessionsOK, ViewsOK, RequestsOK

LEMMA TypePartsNext == TypeOK' <=> SessionsOK' /\ ViewsOK' /\ RequestsOK'
BY DEF TypeOK, SessionsOK, ViewsOK, RequestsOK

\* A token that has just been issued.
LEMMA NewToken ==
  ASSUME SessionsOK, NEW u \in Users
  PROVE  [user |-> u, expire |-> now + Life] \in Tokens
BY LifeAssumption, BoundsAssumption DEF SessionsOK, Tokens

LEMMA LogoutTypes ==
  ASSUME SessionsOK, ViewsOK, NEW t \in Tabs, Logout(t), now' = now
  PROVE  /\ SessionsOK'
         /\ tick' \in [Tabs -> {"due", "done", "warned", "missed"}] /\ mixed' \subseteq Tabs
BY DEF SessionsOK, ViewsOK, Logout, StopTimer, Put

LEMMA StoreTypes ==
  ASSUME SessionsOK, ViewsOK, NEW t \in Tabs, NEW u \in Users, Store(t, u),
         UNCHANGED <<now, storedRights, rights>>
  PROVE  /\ SessionsOK'
         /\ notified' \in [Tabs -> BOOLEAN]
         /\ tick' \in [Tabs -> {"due", "done", "warned", "missed"}] /\ mixed' \subseteq Tabs
<1> DEFINE token == [user |-> u, expire |-> now + Life]
<1>1. token \in Tokens
  BY NewToken
<1>2. token # None
  BY <1>1, NoneAssumption
<1>3. /\ stored' = token /\ mem' = [mem EXCEPT ![t] = token]
      /\ deadline' = [deadline EXCEPT ![t] = token.expire]
      /\ notified' = [notified EXCEPT ![t] = FALSE]
      /\ tick' = [tick EXCEPT ![t] = IF token.expire > now THEN "due" ELSE "missed"]
      /\ mixed' = IF rights[t] \in {None, u} THEN mixed \ {t} ELSE mixed \cup {t}
  BY DEF Store, StartTimer, Put
<1> HIDE DEF token
<1>4. SessionsOK'
  BY <1>1, <1>2, <1>3 DEF SessionsOK
<1>5. /\ notified' \in [Tabs -> BOOLEAN]
      /\ tick' \in [Tabs -> {"due", "done", "warned", "missed"}] /\ mixed' \subseteq Tabs
  BY <1>3 DEF ViewsOK
<1> QED
  BY <1>4, <1>5

\* Init and every step keep the types.
LEMMA TypeInit == Init => TypeOK
BY BoundsAssumption DEF Init, TypeOK

LEMMA TypeStep == TypeOK /\ [Next]_vars => TypeOK'
<1> SUFFICES ASSUME SessionsOK, ViewsOK, RequestsOK, [Next]_vars
             PROVE  SessionsOK' /\ ViewsOK' /\ RequestsOK'
  BY TypeParts, TypePartsNext
<1>a. /\ \A p \in posts : p.tab \in Tabs /\ p.user \in Users
      /\ \A g \in groups : g.tab \in Tabs /\ g.token.user \in Users
      /\ \A f \in fetches \cup groups : f.tab \in Tabs
  BY DEF RequestsOK, Tokens
<1>1. ASSUME NEW t \in Tabs, NEW u \in Users, Login(t, u)
      PROVE  SessionsOK' /\ ViewsOK' /\ RequestsOK'
  BY <1>1, BoundsAssumption DEF SessionsOK, ViewsOK, RequestsOK, Login, storage, tab
<1>2. ASSUME NEW t \in Tabs, LogoutClick(t)
      PROVE  SessionsOK' /\ ViewsOK' /\ RequestsOK'
  BY <1>2, LogoutTypes DEF ViewsOK, RequestsOK, LogoutClick, requests
<1>3. ASSUME NEW t \in Tabs, GuardRefuses(t)
      PROVE  SessionsOK' /\ ViewsOK' /\ RequestsOK'
  BY <1>3, LogoutTypes DEF ViewsOK, RequestsOK, GuardRefuses, requests
<1>4. ASSUME NEW t \in Tabs, Reload(t)
      PROVE  SessionsOK' /\ ViewsOK' /\ RequestsOK'
  <2>1. RequestsOK' /\ modal' \in [Tabs -> BOOLEAN]
    BY <1>4 DEF Reload, RequestsOK, ViewsOK, Put
  <2>2. CASE StartInside(t)
    <3>1. Logout(t) /\ now' = now /\ notified' = [notified EXCEPT ![t] = FALSE]
      BY <1>4, <2>2 DEF Reload, StartInside, Put
    <3> QED
      BY <2>1, <3>1, LogoutTypes DEF ViewsOK
  <2>4. CASE StartAtLogin(t)
    <3>1. /\ mem' = [mem EXCEPT ![t] = None] /\ rights' = [rights EXCEPT ![t] = storedRights]
          /\ deadline' = [deadline EXCEPT ![t] = None] /\ notified' = [notified EXCEPT ![t] = FALSE]
          /\ tick' = [tick EXCEPT ![t] = "due"]
          /\ mixed' \subseteq mixed \cup {t}
          /\ UNCHANGED <<now, stored, storedRights>>
      BY <1>4, <2>4 DEF Reload, StartAtLogin, StopTimer, Put, storage
    <3>2. SessionsOK'
      BY <3>1 DEF SessionsOK
    <3>3. ViewsOK'
      BY <2>1, <3>1 DEF ViewsOK
    <3> QED
      BY <2>1, <3>2, <3>3
  <2>3. CASE StartInSession(t)
    <3>1. /\ mem' = [mem EXCEPT ![t] = stored] /\ rights' = [rights EXCEPT ![t] = storedRights]
          /\ StartTimer(t, stored)
          /\ mixed' \subseteq mixed \cup {t}
          /\ UNCHANGED <<now, stored, storedRights>>
      BY <1>4, <2>3 DEF Reload, StartInSession, Put, storage
    <3>2. SessionsOK'
      BY <2>3, <3>1 DEF SessionsOK, StartInSession, StartTimer, Put
    <3>3. ViewsOK'
      BY <2>1, <3>1 DEF ViewsOK, StartTimer, Put
    <3> QED
      BY <2>1, <3>2, <3>3
  <2> QED
    BY <1>4, <2>2, <2>3, <2>4 DEF Reload
<1>5. ASSUME NEW t \in Tabs, TimesOut(t)
      PROVE  SessionsOK' /\ ViewsOK' /\ RequestsOK'
  <2>1. Logout(t) /\ UNCHANGED <<now, notified, groups, fetches, posted>>
        /\ modal' = [modal EXCEPT ![t] = FALSE] /\ posts' \subseteq posts
    BY <1>5 DEF TimesOut, Put
  <2> QED
    BY <2>1, LogoutTypes DEF ViewsOK, RequestsOK
<1>6. ASSUME NEW t \in Tabs, Notifies(t)
      PROVE  SessionsOK' /\ ViewsOK' /\ RequestsOK'
  BY <1>6 DEF Notifies, Ticked, Put, SessionsOK, ViewsOK, RequestsOK, storage, requests
<1>7. ASSUME NEW t \in Tabs, CountsDown(t)
      PROVE  SessionsOK' /\ ViewsOK' /\ RequestsOK'
  BY <1>7 DEF CountsDown, Ticked, Put, SessionsOK, ViewsOK, RequestsOK, storage, tab, requests
<1>8. ASSUME NEW t \in Tabs, Renew(t)
      PROVE  SessionsOK' /\ ViewsOK' /\ RequestsOK'
  <2>1. mem[t].user \in Users
    BY <1>8 DEF Renew, SessionsOK, Tokens
  <2> QED
    BY <1>8, <2>1, BoundsAssumption DEF Renew, SessionsOK, ViewsOK, RequestsOK, storage, tab
<1>9. ASSUME NEW t \in Tabs, Dismiss(t)
      PROVE  SessionsOK' /\ ViewsOK' /\ RequestsOK'
  BY <1>9 DEF Dismiss, Put, SessionsOK, ViewsOK, RequestsOK, storage
<1>10. ASSUME NEW t \in Tabs, Fetch(t)
       PROVE  SessionsOK' /\ ViewsOK' /\ RequestsOK'
  BY <1>10 DEF Fetch, SessionsOK, ViewsOK, RequestsOK, storage, tab
<1>11. ASSUME NEW p \in posts, LoginAnswered(p)
       PROVE  SessionsOK' /\ ViewsOK' /\ RequestsOK'
  <2>1. SessionsOK' /\ ViewsOK'
    BY <1>a, <1>11, StoreTypes DEF LoginAnswered, ViewsOK
  <2>2. stored' \in Tokens
    BY <1>a, <1>11, NewToken DEF LoginAnswered, Store
  <2>3. RequestsOK'
    BY <1>a, <1>11, <2>2 DEF LoginAnswered, RequestsOK
  <2> QED
    BY <2>1, <2>3
<1>12. ASSUME NEW p \in posts, LoginRefused(p)
       PROVE  SessionsOK' /\ ViewsOK' /\ RequestsOK'
  BY <1>12 DEF LoginRefused, SessionsOK, ViewsOK, RequestsOK, storage, tab
<1>13. ASSUME NEW p \in posts, RenewAnswered(p)
       PROVE  SessionsOK' /\ ViewsOK' /\ RequestsOK'
  <2>1. SessionsOK' /\ ViewsOK'
    BY <1>a, <1>13, StoreTypes DEF RenewAnswered, Put, ViewsOK
  <2>2. RequestsOK'
    BY <1>13 DEF RenewAnswered, RequestsOK
  <2> QED
    BY <2>1, <2>2
<1>14. ASSUME NEW p \in posts, RenewAnsweredByList(p)
       PROVE  SessionsOK' /\ ViewsOK' /\ RequestsOK'
  BY <1>14 DEF RenewAnsweredByList, Put, SessionsOK, ViewsOK, RequestsOK, storage
<1>15. ASSUME NEW g \in groups, RightsAnswered(g)
       PROVE  SessionsOK' /\ ViewsOK' /\ RequestsOK'
  BY <1>a, <1>15 DEF RightsAnswered, Put, SessionsOK, ViewsOK, RequestsOK
<1>16. ASSUME NEW g \in groups, RightsFail(g)
       PROVE  SessionsOK' /\ ViewsOK' /\ RequestsOK'
  BY <1>16 DEF RightsFail, SessionsOK, ViewsOK, RequestsOK, storage, tab
<1>17. ASSUME NEW f \in fetches, Fetched(f)
       PROVE  SessionsOK' /\ ViewsOK' /\ RequestsOK'
  BY <1>17 DEF Fetched, SessionsOK, ViewsOK, RequestsOK, storage, tab
<1>18. ASSUME NEW f \in fetches \cup groups, Unauthorized(f) \/ UserNotFound(f)
       PROVE  SessionsOK' /\ ViewsOK' /\ RequestsOK'
  <2>1. /\ Logout(f.tab) /\ UNCHANGED <<now, notified, modal, posts, posted>>
        /\ fetches' \subseteq fetches /\ groups' \subseteq groups
    BY <1>18 DEF Unauthorized, UserNotFound, Refused
  <2> QED
    BY <1>a, <2>1, LogoutTypes DEF ViewsOK, RequestsOK
<1>19. CASE Clock
  BY <1>19, BoundsAssumption DEF Clock, SessionsOK, ViewsOK, RequestsOK, storage, tab, requests
<1>20. CASE UNCHANGED vars
  BY <1>20 DEF vars, SessionsOK, ViewsOK, RequestsOK, storage, tab, requests
<1> QED
  BY <1>1, <1>2, <1>3, <1>4, <1>5, <1>6, <1>7, <1>8, <1>9, <1>10, <1>11, <1>12, <1>13, <1>14,
     <1>15, <1>16, <1>17, <1>18, <1>19, <1>20 DEF Next, Tick

\* Session is type correct, and a tab's timer counts down to the expiry of its
\* own token, whatever crosses.
THEOREM TypeCorrect == Spec => []TypeOK
BY TypeInit, TypeStep, PTL DEF Spec

----------------------------------------------------------------------------
(* Whose rights a tab shows.                                                *)

\* What Logout and Store leave of RightsAreOwn.
LEMMA LogoutOwn ==
  ASSUME SessionsOK, RightsAreOwn, NEW t \in Tabs, Logout(t)
  PROVE  RightsAreOwn'
BY DEF SessionsOK, RightsAreOwn, Logout, Put

LEMMA StoreOwn ==
  ASSUME SessionsOK, ViewsOK, RightsAreOwn, NEW t \in Tabs, NEW u \in Users, Store(t, u),
         UNCHANGED rights
  PROVE  RightsAreOwn'
<1> DEFINE token == [user |-> u, expire |-> now + Life]
<1>1. token # None /\ token.user = u
  BY NewToken, NoneAssumption
<1>2. mem' = [mem EXCEPT ![t] = token] /\ mixed' = IF rights[t] \in {None, u} THEN mixed \ {t} ELSE mixed \cup {t}
  BY DEF Store, Put
<1> HIDE DEF token
<1> QED
  BY <1>1, <1>2 DEF SessionsOK, RightsAreOwn

LEMMA RightsInit == Init => RightsAreOwn
BY DEF Init, RightsAreOwn

LEMMA RightsStep == TypeOK /\ RightsAreOwn /\ [Next]_vars => RightsAreOwn'
<1> SUFFICES ASSUME SessionsOK, ViewsOK, RequestsOK, RightsAreOwn, [Next]_vars
             PROVE  RightsAreOwn'
  BY TypeParts
<1>a. /\ \A p \in posts : p.tab \in Tabs /\ p.user \in Users
      /\ \A g \in groups : g.tab \in Tabs
      /\ \A f \in fetches \cup groups : f.tab \in Tabs
  BY DEF RequestsOK
\* The steps that leave sessions and rights alone.
<1>b. ASSUME UNCHANGED <<mem, rights, mixed>> PROVE RightsAreOwn'
  BY <1>b DEF RightsAreOwn
\* The steps that end in Logout.
<1>c. ASSUME NEW t \in Tabs, LogoutClick(t) \/ GuardRefuses(t) \/ TimesOut(t) PROVE RightsAreOwn'
  BY <1>c, LogoutOwn DEF LogoutClick, GuardRefuses, TimesOut
<1>d. ASSUME NEW f \in fetches \cup groups, Unauthorized(f) \/ UserNotFound(f) PROVE RightsAreOwn'
  BY <1>a, <1>d, LogoutOwn DEF Unauthorized, UserNotFound, Refused
\* The answers to logins and renewals.
<1>e. ASSUME NEW p \in posts, LoginAnswered(p) \/ RenewAnswered(p) PROVE RightsAreOwn'
  BY <1>a, <1>e, StoreOwn DEF LoginAnswered, RenewAnswered
\* A start reads what is stored, whose rights soever they are.
<1>f. ASSUME NEW t \in Tabs, Reload(t) PROVE RightsAreOwn'
  <2>1. CASE StartInside(t)
    BY <2>1, LogoutOwn DEF StartInside
  <2>2. CASE StartAtLogin(t)
    <3>1. /\ mem' = [mem EXCEPT ![t] = None] /\ rights' = [rights EXCEPT ![t] = storedRights]
          /\ mixed' = IF storedRights = None THEN mixed \ {t} ELSE mixed \cup {t}
      BY <2>2 DEF StartAtLogin, Put
    <3> QED
      BY <3>1 DEF SessionsOK, RightsAreOwn
  <2>3. CASE StartInSession(t)
    <3>1. /\ mem' = [mem EXCEPT ![t] = stored] /\ rights' = [rights EXCEPT ![t] = storedRights]
          /\ mixed' = IF storedRights \in {None, stored.user} THEN mixed \ {t} ELSE mixed \cup {t}
      BY <2>3 DEF StartInSession, Put
    <3> QED
      BY <2>3, <3>1 DEF SessionsOK, StartInSession, RightsAreOwn
  <2> QED
    BY <1>f, <2>1, <2>2, <2>3 DEF Reload
<1>g. ASSUME NEW g \in groups, RightsAnswered(g) PROVE RightsAreOwn'
  <2>1. /\ mem' = mem /\ rights' = [rights EXCEPT ![g.tab] = g.token.user]
        /\ mixed' = IF mem[g.tab] # None /\ mem[g.tab].user = g.token.user
                    THEN mixed \ {g.tab} ELSE mixed \cup {g.tab}
    BY <1>g DEF RightsAnswered, Put
  <2> QED
    BY <1>a, <2>1 DEF SessionsOK, RightsAreOwn
<1>1. ASSUME NEW t \in Tabs,
             \/ \E u \in Users : Login(t, u)
             \/ Notifies(t) \/ CountsDown(t)
             \/ Renew(t) \/ Dismiss(t) \/ Fetch(t)
      PROVE  UNCHANGED <<mem, rights, mixed>>
  BY <1>1 DEF Login, Notifies, CountsDown, Renew, Dismiss, Fetch, tab
<1>2. ASSUME NEW p \in posts, LoginRefused(p) \/ RenewAnsweredByList(p)
      PROVE  UNCHANGED <<mem, rights, mixed>>
  BY <1>2 DEF LoginRefused, RenewAnsweredByList, tab
<1>3. ASSUME NEW g \in groups, RightsFail(g) PROVE UNCHANGED <<mem, rights, mixed>>
  BY <1>3 DEF RightsFail, tab
<1>4. ASSUME NEW f \in fetches, Fetched(f) PROVE UNCHANGED <<mem, rights, mixed>>
  BY <1>4 DEF Fetched, tab
<1>5. ASSUME Clock \/ UNCHANGED vars PROVE UNCHANGED <<mem, rights, mixed>>
  BY <1>5 DEF Clock, vars, tab
<1> QED
  BY <1>b, <1>c, <1>d, <1>e, <1>f, <1>g, <1>1, <1>2, <1>3, <1>4, <1>5 DEF Next, Tick

\* A tab has the rights of its session's user or none, and none without a
\* session, but for the ways that mixed records.
THEOREM RightsAreOwnAlways == Spec => []RightsAreOwn
BY TypeInit, TypeStep, RightsInit, RightsStep, PTL DEF Spec

----------------------------------------------------------------------------
(* Who ends a stored session before its time.                                *)

LEMMA EndingStep ==
  ASSUME TypeOK, [Next]_vars, stored # None, stored.expire > now, stored' = None
  PROVE  \/ \E t \in Tabs : LogoutClick(t)
         \/ \E t \in Tabs : mem[t] # stored /\ mem'[t] = None
         \/ \E f \in fetches \cup groups : \/ f.token # stored /\ Unauthorized(f)
                                         \/ UserNotFound(f)
<1> USE TypeParts
<1>a. /\ \A p \in posts : p.tab \in Tabs /\ p.user \in Users
      /\ \A g \in groups : g.tab \in Tabs
  BY DEF RequestsOK
\* A tab that logs out has no session from then on.
<1>b. ASSUME NEW t \in Tabs, Logout(t) PROVE mem'[t] = None
  BY <1>b DEF Logout, Put, SessionsOK
<1>1. ASSUME NEW t \in Tabs, GuardRefuses(t) PROVE mem[t] # stored /\ mem'[t] = None
  BY <1>1, <1>b DEF GuardRefuses
<1>2. ASSUME NEW t \in Tabs, TimesOut(t) PROVE mem[t] # stored /\ mem'[t] = None
  <2>1. mem'[t] = None
    BY <1>2, <1>b DEF TimesOut
  <2>2. deadline[t] # None /\ Remaining(t) = 0
    BY <1>2 DEF TimesOut
  <2>3. ASSUME mem[t] = stored PROVE FALSE
    <3>1. deadline[t] = stored.expire
      BY <2>3 DEF SessionsOK
    <3>2. stored.expire \in Int /\ now \in Int
      BY BoundsAssumption, LifeAssumption DEF SessionsOK, Tokens
    <3> QED
      BY <2>2, <3>1, <3>2 DEF Remaining
  <2> QED
    BY <2>1, <2>3
<1>3. ASSUME NEW g \in groups, RightsAnswered(g) PROVE FALSE
  BY <1>3 DEF RightsAnswered
<1>4. ASSUME NEW f \in fetches \cup groups, Unauthorized(f) PROVE f.token # stored
  BY <1>4 DEF Unauthorized, Valid
\* All other steps leave the session stored, or store another.
<1>5. ASSUME NEW t \in Tabs, Reload(t) PROVE FALSE
  BY <1>5 DEF Reload, StartInside, StartAtLogin, StartInSession, storage
<1>6. ASSUME NEW p \in posts, LoginAnswered(p) \/ RenewAnswered(p) PROVE FALSE
  <2>1. stored' = [user |-> p.user, expire |-> now + Life]
    BY <1>6 DEF LoginAnswered, RenewAnswered, Store
  <2> QED
    BY <1>a, <2>1, NewToken, NoneAssumption
<1>7. ASSUME NEW t \in Tabs,
             \/ \E u \in Users : Login(t, u)
             \/ Notifies(t) \/ CountsDown(t)
             \/ Renew(t) \/ Dismiss(t) \/ Fetch(t)
      PROVE  FALSE
  BY <1>7 DEF Login, Notifies, CountsDown, Renew, Dismiss, Fetch, storage
<1>8. ASSUME NEW p \in posts, LoginRefused(p) \/ RenewAnsweredByList(p) PROVE FALSE
  BY <1>8 DEF LoginRefused, RenewAnsweredByList, storage
<1>9. ASSUME NEW g \in groups, RightsFail(g) PROVE FALSE
  BY <1>9 DEF RightsFail, storage
<1>10. ASSUME NEW f \in fetches, Fetched(f) PROVE FALSE
  BY <1>10 DEF Fetched, storage
<1>11. ASSUME Clock \/ UNCHANGED vars PROVE FALSE
  BY <1>11 DEF Clock, vars, storage
<1> QED
  BY <1>a, <1>1, <1>2, <1>3, <1>4, <1>5, <1>6, <1>7, <1>8, <1>9, <1>10, <1>11 DEF Next, Tick

\* A stored session that has not expired is ended by a click, by a tab in another
\* session or in none, by a 401 to a request of another session, or because the
\* backend did not find the user of a good token.
THEOREM EndsInTimeAlways == Spec => EndsInTime
<1>1. TypeOK /\ [Next]_vars =>
        [stored # None /\ stored.expire > now /\ stored' = None =>
           \/ \E t \in Tabs : LogoutClick(t)
           \/ \E t \in Tabs : mem[t] # stored /\ mem'[t] = None
           \/ \E f \in fetches \cup groups : \/ f.token # stored /\ Unauthorized(f)
                                           \/ UserNotFound(f)]_vars
  BY EndingStep
<1> QED
  BY <1>1, TypeInit, TypeStep, PTL DEF Spec, EndsInTime

----------------------------------------------------------------------------
(* The warning before a timeout.                                             *)

\* What the history says of a running timer: it has warned or slept if the user
\* is notified; before its tick in this unit of time the deadline is ahead, and
\* after it by more than the threshold.
TickInv ==
  \A t \in Tabs : deadline[t] # None =>
    /\ notified[t] => tick[t] \in {"warned", "missed"}
    /\ tick[t] = "due" => deadline[t] > now
    /\ tick[t] = "done" => deadline[t] > now + Threshold

\* A running timer has a number as its deadline.
LEMMA DeadlineIsTime ==
  ASSUME SessionsOK, NEW t \in Tabs, deadline[t] # None
  PROVE  deadline[t] \in Int /\ now \in Int
BY BoundsAssumption, LifeAssumption DEF SessionsOK, Tokens

LEMMA LogoutTick ==
  ASSUME SessionsOK, ViewsOK, TickInv, NEW t \in Tabs, Logout(t), now' = now,
         \A s \in Tabs \ {t} : notified'[s] = notified[s]
  PROVE  TickInv'
BY DEF SessionsOK, ViewsOK, TickInv, Logout, StopTimer, Put

LEMMA StartTimerTick ==
  ASSUME SessionsOK, ViewsOK, TickInv, NEW t \in Tabs, NEW token \in Tokens, StartTimer(t, token), now' = now
  PROVE  TickInv'
<1>1. token.expire \in Int /\ now \in Int
  BY BoundsAssumption, LifeAssumption DEF SessionsOK, Tokens
<1> QED
  BY <1>1 DEF SessionsOK, ViewsOK, TickInv, StartTimer, Put

LEMMA TickInit == Init => TickInv
BY DEF Init, TickInv

LEMMA TickStep == TypeOK /\ TickInv /\ [Next]_vars => TickInv'
<1> SUFFICES ASSUME SessionsOK, ViewsOK, RequestsOK, TickInv, [Next]_vars
             PROVE  TickInv'
  BY TypeParts
<1>a. /\ \A p \in posts : p.tab \in Tabs /\ p.user \in Users
      /\ \A g \in groups : g.tab \in Tabs
      /\ \A f \in fetches \cup groups : f.tab \in Tabs
  BY DEF RequestsOK
<1>b. ASSUME UNCHANGED <<now, deadline, notified, tick>> PROVE TickInv'
  BY <1>b DEF TickInv
<1>1. ASSUME NEW t \in Tabs, LogoutClick(t) \/ GuardRefuses(t) \/ TimesOut(t) PROVE TickInv'
  BY <1>1, LogoutTick DEF LogoutClick, GuardRefuses, TimesOut
<1>2. ASSUME NEW f \in fetches \cup groups, Unauthorized(f) \/ UserNotFound(f) PROVE TickInv'
  BY <1>a, <1>2, LogoutTick DEF Unauthorized, UserNotFound, Refused
<1>3. ASSUME NEW p \in posts, LoginAnswered(p) \/ RenewAnswered(p) PROVE TickInv'
  BY <1>a, <1>3, StartTimerTick, NewToken DEF LoginAnswered, RenewAnswered, Store
<1>4. ASSUME NEW t \in Tabs, Reload(t) PROVE TickInv'
  <2>1. CASE StartInside(t)
    <3>1. Logout(t) /\ now' = now /\ notified' = [notified EXCEPT ![t] = FALSE]
      BY <1>4, <2>1 DEF Reload, StartInside, Put
    <3>2. \A s \in Tabs \ {t} : notified'[s] = notified[s]
      BY <3>1 DEF ViewsOK
    <3> QED
      BY <3>1, <3>2, LogoutTick
  <2>3. CASE StartAtLogin(t)
    BY <1>4, <2>3 DEF Reload, StartAtLogin, StopTimer, Put, SessionsOK, ViewsOK, TickInv
  <2>2. CASE StartInSession(t)
    <3>1. StartTimer(t, stored) /\ now' = now /\ stored \in Tokens
      BY <1>4, <2>2 DEF Reload, StartInSession, SessionsOK
    <3> QED
      BY <3>1, StartTimerTick
  <2> QED
    BY <1>4, <2>1, <2>2, <2>3 DEF Reload
<1>5. ASSUME NEW g \in groups, RightsAnswered(g) PROVE TickInv'
  BY <1>b, <1>5 DEF RightsAnswered
<1>6. ASSUME NEW t \in Tabs, Notifies(t) PROVE TickInv'
  BY <1>6 DEF Notifies, Ticked, Put, TickInv, ViewsOK
<1>7. ASSUME NEW t \in Tabs, CountsDown(t) PROVE TickInv'
  <2>1. /\ deadline[t] # None
        /\ Remaining(t) > 0 /\ (Remaining(t) > Threshold \/ notified[t])
        /\ tick[t] = "due"
        /\ tick' = [tick EXCEPT ![t] = "done"]
        /\ UNCHANGED <<now, deadline, notified>>
    BY <1>7 DEF CountsDown, Ticked, Put, tab
  <2>2. ~notified[t]
    BY <2>1 DEF TickInv
  <2>3. deadline[t] > now + Threshold
    BY <2>1, <2>2, DeadlineIsTime DEF Remaining, Threshold
  <2> QED
    BY <2>1, <2>2, <2>3 DEF TickInv, ViewsOK
<1>8. CASE Clock
  <2> SUFFICES ASSUME NEW t \in Tabs, deadline'[t] # None
               PROVE  /\ notified'[t] => tick'[t] \in {"warned", "missed"}
                      /\ tick'[t] = "due" => deadline'[t] > now'
                      /\ tick'[t] = "done" => deadline'[t] > now' + Threshold
    BY DEF TickInv
  <2>1. now' = now + 1 /\ deadline' = deadline /\ notified' = notified
    BY <1>8 DEF Clock, tab
  <2>2. deadline[t] \in Int /\ now \in Int
    BY <2>1, DeadlineIsTime
  <2>3. tick'[t] = CASE deadline[t] = None \/ tick[t] = "done" -> "due"
                     [] deadline[t] # None /\ tick[t] = "warned" -> "warned"
                     [] OTHER -> "missed"
    BY <1>8 DEF Clock
  <2>4. CASE tick[t] = "done"
    <3>1. tick'[t] = "due"
      BY <2>1, <2>3, <2>4, Zenon
    <3>2. ~notified[t] /\ deadline[t] > now + 1
      BY <2>1, <2>4 DEF TickInv, Threshold
    <3> QED
      BY <2>1, <2>2, <3>1, <3>2
  <2>5. CASE tick[t] # "done"
    <3>1. tick'[t] \in {"warned", "missed"}
      BY <2>1, <2>3, <2>5, Zenon
    <3> QED
      BY <3>1
  <2> QED
    BY <2>4, <2>5
<1>9. ASSUME NEW t \in Tabs,
             (\E u \in Users : Login(t, u))
               \/ Renew(t) \/ Dismiss(t) \/ Fetch(t)
      PROVE  TickInv'
  BY <1>b, <1>9 DEF Login, Renew, Dismiss, Fetch, tab
<1>10. ASSUME NEW p \in posts, LoginRefused(p) \/ RenewAnsweredByList(p) PROVE TickInv'
  BY <1>b, <1>10 DEF LoginRefused, RenewAnsweredByList, tab
<1>11. ASSUME NEW g \in groups, RightsFail(g) PROVE TickInv'
  BY <1>b, <1>11 DEF RightsFail, tab
<1>12. ASSUME NEW f \in fetches, Fetched(f) PROVE TickInv'
  BY <1>b, <1>12 DEF Fetched, tab
<1>13. CASE UNCHANGED vars
  BY <1>b, <1>13 DEF vars, tab
<1> QED
  BY <1>1, <1>2, <1>3, <1>4, <1>5, <1>6, <1>7, <1>8, <1>9, <1>10, <1>11, <1>12, <1>13 DEF Next, Tick

LEMMA TimesOutLate ==
  ASSUME TypeOK, TickInv, NEW t \in Tabs, TimesOut(t)
  PROVE  tick[t] \in {"warned", "missed"}
<1>1. deadline[t] # None /\ Remaining(t) = 0
  BY DEF TimesOut
<1>2. deadline[t] \in Int /\ now \in Int
  BY <1>1, TypeParts, DeadlineIsTime
<1>3. ~(deadline[t] > now)
  BY <1>1, <1>2 DEF Remaining
<1>4. ~(deadline[t] > now + Threshold)
  BY <1>2, <1>3 DEF Threshold
<1>5. tick[t] \in {"due", "done", "warned", "missed"}
  BY TypeParts DEF ViewsOK
<1> QED
  BY <1>1, <1>3, <1>4, <1>5 DEF TickInv

\* A timer that is awake never logs out without the notification first.
THEOREM WarnedBeforeAlways == Spec => WarnedBefore
<1>1. TypeOK /\ TickInv => [\A t \in Tabs : TimesOut(t) => tick[t] \in {"warned", "missed"}]_vars
  BY TimesOutLate
<1> QED
  BY <1>1, TypeInit, TypeStep, TickInit, TickStep, PTL DEF Spec, WarnedBefore
=============================================================================

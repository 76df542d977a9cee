------------------------------- MODULE Session -------------------------------
(***************************************************************************)
(* The session of the web frontend (modules/auth, http-error.interceptor): *)
(* AuthService, PermissionService and SessionTimeoutService of each tab,   *)
(* and the localStorage all tabs share. A tab keeps user, token and rights *)
(* in memory and reads localStorage only when it starts; the interceptor   *)
(* reads the token there for every request, and nobody listens for what    *)
(* other tabs store. Answers come in any order, and a 401 ends the session *)
(* of the tab that gets it. The page a tab shows is left open: without a   *)
(* session it is that of the login, which has no guard, so with one it is  *)
(* that or the application, as the user likes. One unit of time is the     *)
(* notification threshold of 15 minutes; the timer ticks each second.      *)
(***************************************************************************)
EXTENDS Integers, FiniteSets

CONSTANTS Tabs,       \* tabs of one browser
          Users,      \* users, each in a group of its own
          None,       \* nothing stored, no session
          Life,       \* lifetime of a token, as the backend has it set
          MaxNow,     \* time (bound)
          MaxPosts,   \* logins and renewals (bound)
          MaxFetches  \* no data request is sent while so many are on their way (bound)

Tokens == [user : Users, expire : 0..(MaxNow + Life)]

ASSUME NoneAssumption == None \notin Users \cup Tokens
ASSUME LifeAssumption == Life \in Nat /\ Life > 1
ASSUME BoundsAssumption == MaxNow \in Nat /\ MaxPosts \in Nat /\ MaxFetches \in Nat

Threshold == 1        \* NOTIFICATION_THRESHOLD

VARIABLES
  now,
  stored,        \* localStorage: current-user and access-token
  storedRights,  \* localStorage: current-user-rights, as the user they are of
  mem,           \* each tab's current user and token
  rights,        \* each tab's rights, as the user they are of
  deadline,      \* tokenExpire of a running timer, None if it is stopped
  notified,      \* each tab: notifyPossibleTimeout has run for this timer
  modal,         \* each tab: the renewal dialog is open
  posts,         \* login requests without an answer, of the page and of the dialog
  groups,        \* requests of storeUserRights without an answer, with their token
  fetches,       \* data requests without an answer
  posted,        \* number of login requests so far
  tick,          \* history: the timer is due or done in this unit of time, has missed one, or warned
  mixed          \* history: tabs whose rights came from somewhere else

storage == <<stored, storedRights>>
tab == <<mem, rights, deadline, notified, modal>>
requests == <<posts, groups, fetches, posted>>
vars == <<now, storage, tab, requests, tick, mixed>>

Put(f, t, v) == [f EXCEPT ![t] = v]

Init == /\ now = 0
        /\ stored = None /\ storedRights = None
        /\ mem = [t \in Tabs |-> None] /\ rights = [t \in Tabs |-> None]
        /\ deadline = [t \in Tabs |-> None]
        /\ notified = [t \in Tabs |-> FALSE] /\ modal = [t \in Tabs |-> FALSE]
        /\ posts = {} /\ groups = {} /\ fetches = {}
        /\ posted = 0
        /\ tick = [t \in Tabs |-> "due"]
        /\ mixed = {}

----------------------------------------------------------------------------
(* SessionTimeoutService, driven by the token. *)

\* Mutant: a new token does not move the deadline of a running timer.
KeepDeadline(t, token) ==
  /\ deadline' = Put(deadline, t, IF deadline[t] = None THEN token.expire ELSE deadline[t])
  /\ notified' = Put(notified, t, FALSE)
  /\ tick' = Put(tick, t, IF token.expire > now THEN "due" ELSE "missed")

\* Mutant: a new token finds the user notified already.
StayNotified(t, token) ==
  /\ deadline' = Put(deadline, t, token.expire)
  /\ UNCHANGED notified
  /\ tick' = Put(tick, t, IF token.expire > now THEN "due" ELSE "missed")

\* Mutant: stopTimer, and no new timer if one was running.
StopOnly(t, token) ==
  /\ deadline' = Put(deadline, t, IF deadline[t] = None THEN token.expire ELSE None)
  /\ notified' = Put(notified, t, FALSE)
  /\ tick' = Put(tick, t, IF token.expire > now THEN "due" ELSE "missed")

StartTimer(t, token) ==
  /\ deadline' = Put(deadline, t, token.expire)
  /\ notified' = Put(notified, t, FALSE)
  /\ tick' = Put(tick, t, IF token.expire > now THEN "due" ELSE "missed")

StopTimer(t) == deadline' = Put(deadline, t, None)

----------------------------------------------------------------------------
(* AuthService. *)

\* Mutant: logout leaves the rights in memory.
LogoutKeepsRights(t) ==
  /\ stored' = None /\ storedRights' = None
  /\ mem' = Put(mem, t, None)
  /\ UNCHANGED rights
  /\ StopTimer(t)
  /\ tick' = Put(tick, t, "due")
  /\ mixed' = mixed \ {t}

\* logout(): what all tabs share goes, and this tab's session; open dialogs stay.
Logout(t) ==
  /\ stored' = None /\ storedRights' = None
  /\ mem' = Put(mem, t, None)
  /\ rights' = Put(rights, t, None)
  /\ StopTimer(t)
  /\ tick' = Put(tick, t, "due")
  /\ mixed' = mixed \ {t}

\* The token of an answer to login().
Store(t, u) ==
  LET token == [user |-> u, expire |-> now + Life]
  IN  /\ stored' = token
      /\ mem' = Put(mem, t, token)
      /\ StartTimer(t, token)
      /\ mixed' = IF rights[t] \in {None, u} THEN mixed \ {t} ELSE mixed \cup {t}

\* LoginComponent.onSubmit.
Login(t, u) ==
  /\ posted < MaxPosts
  /\ posted' = posted + 1
  /\ posts' = posts \cup {[tab |-> t, user |-> u, from |-> "page"]}
  /\ UNCHANGED <<now, storage, tab, groups, fetches, tick, mixed>>

\* Its answer; the rights are asked for next.
LoginAnswered(p) ==
  /\ p \in posts /\ p.from = "page"
  /\ posts' = posts \ {p}
  /\ Store(p.tab, p.user)
  /\ groups' = groups \cup {[tab |-> p.tab, token |-> stored']}
  /\ UNCHANGED <<now, storedRights, rights, modal, fetches, posted>>

\* A wrong password, or several subscriptions of a cloud user to choose from.
LoginRefused(p) ==
  /\ p \in posts /\ p.from = "page"
  /\ posts' = posts \ {p}
  /\ UNCHANGED <<now, storage, tab, groups, fetches, posted, tick, mixed>>

\* storeUserRights is answered, to a tab that may have logged out or in
\* meanwhile; it then asks AuthGuard for the application.
RightsAnswered(g) ==
  LET t == g.tab  u == g.token.user
  IN  /\ g \in groups
      /\ groups' = groups \ {g}
      /\ storedRights' = u
      /\ rights' = Put(rights, t, u)
      /\ mixed' = IF mem[t] # None /\ mem[t].user = u THEN mixed \ {t} ELSE mixed \cup {t}
      /\ UNCHANGED <<now, stored, mem, deadline, notified, modal, posts, fetches, posted, tick>>

\* Any error but a 401: the subscription has no handler, the tab stays where it is.
RightsFail(g) ==
  /\ g \in groups
  /\ groups' = groups \ {g}
  /\ UNCHANGED <<now, storage, tab, posts, fetches, posted, tick, mixed>>

\* AuthGuard logs out a tab without a session that is to show the application.
GuardRefuses(t) ==
  /\ mem[t] = None
  /\ Logout(t)
  /\ UNCHANGED <<now, notified, modal, requests>>

\* The user logs out by the menu.
LogoutClick(t) ==
  /\ mem[t] # None
  /\ Logout(t)
  /\ UNCHANGED <<now, notified, modal, requests>>

\* A tab that starts reads what is stored. Without a session the guard of the
\* application clears it; the login page has no guard, and rights stay.
StartInside(t) ==
  /\ stored = None
  /\ Logout(t)
  /\ notified' = Put(notified, t, FALSE)

StartAtLogin(t) ==
  /\ stored = None
  /\ mem' = Put(mem, t, None)
  /\ rights' = Put(rights, t, storedRights)
  /\ StopTimer(t)
  /\ notified' = Put(notified, t, FALSE)
  /\ tick' = Put(tick, t, "due")
  /\ mixed' = IF storedRights = None THEN mixed \ {t} ELSE mixed \cup {t}
  /\ UNCHANGED storage

StartInSession(t) ==
  /\ stored # None
  /\ mem' = Put(mem, t, stored)
  /\ rights' = Put(rights, t, storedRights)
  /\ StartTimer(t, stored)
  /\ mixed' = IF storedRights \in {None, stored.user} THEN mixed \ {t} ELSE mixed \cup {t}
  /\ UNCHANGED storage

\* A tab is opened or loaded again, at the login page or in the application;
\* its requests are lost.
Reload(t) ==
  /\ posts' = {p \in posts : p.tab # t}
  /\ groups' = {g \in groups : g.tab # t}
  /\ fetches' = {f \in fetches : f.tab # t}
  /\ modal' = Put(modal, t, FALSE)
  /\ StartInside(t) \/ StartAtLogin(t) \/ StartInSession(t)
  /\ UNCHANGED <<now, posted>>

----------------------------------------------------------------------------
(* The timer and its dialog. *)

Remaining(t) == IF deadline[t] > now THEN deadline[t] - now ELSE 0

\* cleanUpTimer closes the dialog, which drops its request, and the tab logs out.
TimesOut(t) ==
  /\ deadline[t] # None /\ Remaining(t) = 0
  /\ Logout(t)
  /\ modal' = Put(modal, t, FALSE)
  /\ posts' = {p \in posts : p.tab # t \/ p.from # "dialog"}
  /\ UNCHANGED <<now, notified, groups, fetches, posted>>

Ticked(t, how) == tick' = Put(tick, t, IF tick[t] = "missed" THEN "missed" ELSE how)

Notifies(t) ==
  /\ deadline[t] # None /\ Remaining(t) \in 1..Threshold /\ ~notified[t]
  /\ notified' = Put(notified, t, TRUE)
  /\ modal' = Put(modal, t, TRUE)
  /\ Ticked(t, "warned")
  /\ UNCHANGED <<now, storage, mem, rights, deadline, requests, mixed>>

CountsDown(t) ==
  /\ deadline[t] # None
  /\ Remaining(t) > 0 /\ (Remaining(t) > Threshold \/ notified[t])
  /\ tick[t] = "due"
  /\ Ticked(t, "done")
  /\ UNCHANGED <<now, storage, tab, requests, mixed>>

Tick(t) == TimesOut(t) \/ Notifies(t) \/ CountsDown(t)

\* The user renews; without a session the handler throws.
Renew(t) ==
  /\ modal[t] /\ mem[t] # None
  /\ posted < MaxPosts
  /\ posted' = posted + 1
  /\ posts' = posts \cup {[tab |-> t, user |-> mem[t].user, from |-> "dialog"]}
  /\ UNCHANGED <<now, storage, tab, groups, fetches, tick, mixed>>

\* The dialog closes with "Session renewed!", and drops its other requests.
RenewAnswered(p) ==
  /\ p \in posts /\ p.from = "dialog"
  /\ posts' = {q \in posts : q.tab # p.tab \/ q.from # "dialog"}
  /\ Store(p.tab, p.user)
  /\ modal' = Put(modal, p.tab, FALSE)
  /\ UNCHANGED <<now, storedRights, rights, groups, fetches, posted>>

\* So it does when a cloud user with several subscriptions gets their list.
RenewAnsweredByList(p) ==
  /\ p \in posts /\ p.from = "dialog"
  /\ posts' = {q \in posts : q.tab # p.tab \/ q.from # "dialog"}
  /\ modal' = Put(modal, p.tab, FALSE)
  /\ UNCHANGED <<now, storage, mem, rights, deadline, notified, groups, fetches, posted,
                 tick, mixed>>

\* The user closes the dialog.
Dismiss(t) ==
  /\ modal[t]
  /\ modal' = Put(modal, t, FALSE)
  /\ posts' = {p \in posts : p.tab # t \/ p.from # "dialog"}
  /\ UNCHANGED <<now, storage, mem, rights, deadline, notified, groups, fetches, posted,
                 tick, mixed>>

----------------------------------------------------------------------------
(* Data requests and time. *)

\* BasicAuthInterceptor: the token of localStorage, whichever session it is of.
Fetch(t) ==
  /\ mem[t] # None
  /\ Cardinality(fetches) + Cardinality(groups) < MaxFetches
  /\ fetches' = fetches \cup {[tab |-> t, token |-> stored]}
  /\ UNCHANGED <<now, storage, tab, posts, groups, posted, tick, mixed>>

\* What the backend asks of a token: that it was sent and has not expired.
Valid(token) == token # None /\ token.expire > now

Fetched(f) ==
  /\ f \in fetches
  /\ Valid(f.token)
  /\ fetches' = fetches \ {f}
  /\ UNCHANGED <<now, storage, tab, posts, groups, posted, tick, mixed>>

\* HttpErrorInterceptor: a 401 logs out, whatever session it is of.
Refused(f) ==
  /\ \/ f \in fetches /\ fetches' = fetches \ {f} /\ UNCHANGED groups
     \/ f \in groups /\ groups' = groups \ {f} /\ UNCHANGED fetches
  /\ Logout(f.tab)
  /\ UNCHANGED <<now, notified, modal, posts, posted>>

\* The token is missing or has expired.
Unauthorized(f) == ~Valid(f.token) /\ Refused(f)

\* The token is good, but its user is gone or looking for the user fails.
UserNotFound(f) == Valid(f.token) /\ Refused(f)

\* A tab that sleeps misses its ticks.
Clock ==
  /\ now < MaxNow
  /\ now' = now + 1
  /\ tick' = [t \in Tabs |-> CASE deadline[t] = None \/ tick[t] = "done" -> "due"
                              [] deadline[t] # None /\ tick[t] = "warned" -> "warned"
                              [] OTHER -> "missed"]
  /\ UNCHANGED <<storage, tab, requests, mixed>>

Next ==
  \/ \E t \in Tabs : \/ \E u \in Users : Login(t, u)
                     \/ Reload(t) \/ LogoutClick(t) \/ GuardRefuses(t)
                     \/ Tick(t) \/ Renew(t) \/ Dismiss(t) \/ Fetch(t)
  \/ \E p \in posts : LoginAnswered(p) \/ LoginRefused(p) \/ RenewAnswered(p) \/ RenewAnsweredByList(p)
  \/ \E g \in groups : RightsAnswered(g) \/ RightsFail(g)
  \/ \E f \in fetches : Fetched(f)
  \/ \E f \in fetches \cup groups : Unauthorized(f) \/ UserNotFound(f)
  \/ Clock

\* The interval of a running timer fires again and again.
Spec == Init /\ [][Next]_vars /\ \A t \in Tabs : WF_vars(Tick(t))

----------------------------------------------------------------------------
(* Properties. *)

\* Types, and a tab's timer counts down to the expiry of the tab's own token.
TypeOK ==
  /\ now \in 0..MaxNow
  /\ stored \in Tokens \cup {None} /\ storedRights \in Users \cup {None}
  /\ mem \in [Tabs -> Tokens \cup {None}] /\ rights \in [Tabs -> Users \cup {None}]
  /\ notified \in [Tabs -> BOOLEAN] /\ modal \in [Tabs -> BOOLEAN]
  /\ posts \subseteq [tab : Tabs, user : Users, from : {"page", "dialog"}]
  /\ groups \subseteq [tab : Tabs, token : Tokens]
  /\ fetches \subseteq [tab : Tabs, token : Tokens \cup {None}]
  /\ posted \in 0..MaxPosts
  /\ tick \in [Tabs -> {"due", "done", "warned", "missed"}] /\ mixed \subseteq Tabs
  /\ deadline = [t \in Tabs |-> IF mem[t] = None THEN None ELSE mem[t].expire]

\* A tab without a session has no rights, and one with a session its own
\* user's or none, unless it logged in with rights still there, the rights came
\* in late for an earlier login, or it started from a localStorage where two
\* tabs had written: another user's rights beside a session, or rights that
\* came after a logout.
RightsAreOwn ==
  \A t \in Tabs \ mixed : rights[t] = None \/ (mem[t] # None /\ rights[t] = mem[t].user)

\* A stored session that has not expired is ended by a click on "logout" only,
\* by a tab that is in another session or in none, by a 401 of a request that
\* was sent with another token, or because the backend did not find the user of
\* a good token.
EndsInTime ==
  [][stored # None /\ stored.expire > now /\ stored' = None =>
       \/ \E t \in Tabs : LogoutClick(t)
       \/ \E t \in Tabs : mem[t] # stored /\ mem'[t] = None
       \/ \E f \in fetches \cup groups : \/ f.token # stored /\ Unauthorized(f)
                                       \/ UserNotFound(f)]_vars

\* Nobody is logged out by the timer without having been notified since
\* the last login or renewal, unless the tab was asleep or the session had expired when it started.
WarnedBefore ==
  [][\A t \in Tabs : TimesOut(t) => tick[t] \in {"warned", "missed"}]_vars

Expired(t) == mem[t] # None /\ mem[t].expire <= now

\* An expired session does not stay open in its tab for ever: it ends or is
\* renewed, again and again.
ExpiredSessionEnds == \A t \in Tabs : []<>~Expired(t)
=============================================================================

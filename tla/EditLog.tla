------------------------------- MODULE EditLog -------------------------------
(***************************************************************************)
(* What the log of edits promises, whatever requests cross, fail or are    *)
(* killed: it only grows, and each of its entries tells one change that    *)
(* was stored, once: exactly the fields by which what the client stored    *)
(* differs from something the object was before. A change may stay untold. *)
(* Deleting an entry is a request of its own (delete_log) and left out.    *)
(***************************************************************************)
EXTENDS Sequences

CONSTANTS Clients,      \* who changes objects
          Objs, Fields

VARIABLES current,      \* fields and version of each object
          had,          \* what each object has been so far
          log,          \* the entries, in the order they come in
          owed          \* per client, the entry of its change that is not told yet

logVars == <<current, had, log, owed>>

Difference(o, a, b) == [obj |-> o, new |-> [f \in {g \in Fields : b.fields[g] # a.fields[g]} |-> b.fields[f]]]

LogInit == /\ had = [o \in Objs |-> {current[o]}]
           /\ log = <<>>
           /\ owed = [c \in Clients |-> {}]

\* The object becomes anything, and the difference is owed; or it becomes
\* again what it was. current' is compared, not chosen, so that TLC can
\* evaluate the action on a step of the implementation.
Store(c, o) ==
  /\ owed[c] = {}
  /\ current' = [current EXCEPT ![o] = current'[o]]
  /\ had' = [had EXCEPT ![o] = @ \cup {current'[o]}]
  /\ \E from \in had[o] :
       \/ owed' = [owed EXCEPT ![c] = {Difference(o, from, current'[o])}]
       \/ current'[o] = from /\ UNCHANGED owed
  /\ UNCHANGED log

Tell(c) == /\ \E entry \in owed[c] : log' = Append(log, entry)
           /\ owed' = [owed EXCEPT ![c] = {}]
           /\ UNCHANGED <<current, had>>

Forget(c) == /\ owed' = [owed EXCEPT ![c] = {}]
             /\ UNCHANGED <<current, had, log>>

LogNext == \E c \in Clients : Tell(c) \/ Forget(c) \/ \E o \in Objs : Store(c, o)

LogSpec == LogInit /\ [][LogNext]_logVars
=============================================================================

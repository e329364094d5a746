------------------------------ MODULE Session -------------------------------
(***************************************************************************)
(* The list of sessions, session.c.  A session is a record [id, last, refs,*)
(* user]; the list is a sequence whose head is the pointer sessions.  Only *)
(* the server thread calls these functions, so each is an operator on the  *)
(* list and not an action of its own.                                      *)
(***************************************************************************)
EXTENDS Naturals, Sequences, SequencesExt

CONSTANT MaxSessions  \* MAX_SESSIONS

ASSUME SessionAssumption == MaxSessions \in Nat \ {0}

Live(sessions) == {sessions[i].id : i \in DOMAIN sessions}

(* Set one field of the session id, if it is in the list.                  *)
Updated(sessions, id, Op(_)) ==
  [i \in DOMAIN sessions |->
     IF sessions[i].id = id THEN Op(sessions[i]) ELSE sessions[i]]

(* session_get for a session that exists.                                  *)
SessionGet(sessions, id, now) ==
  Updated(sessions, id,
          LAMBDA s : [s EXCEPT !.last = now, !.refs = @ + 1])

(* Seeded fault: session_deref is forgotten, or has no effect.             *)
SessionDerefNot(sessions, id) == sessions

(* session_deref.  Nothing of the list changes if the session was purged;  *)
(* then the code writes to memory it has freed.                            *)
SessionDeref(sessions, id) ==
  Updated(sessions, id, LAMBDA s : [s EXCEPT !.refs = @ - 1])

(* Sessions out of use that were asked for before the head of the list.    *)
Older(sessions) ==
  {i \in DOMAIN sessions : /\ sessions[i].last < sessions[1].last
                           /\ sessions[i].refs = 0}

(* Seeded fault: the most recently used session is purged.                 *)
OldestNewest(sessions) ==
  CHOOSE i \in DOMAIN sessions :
    \A j \in DOMAIN sessions : sessions[j].last <= sessions[i].last

(* The session purge_oldest_session picks: the head, even if it is in use, *)
(* or the oldest of those, and of several as old the first one.            *)
Oldest(sessions) ==
  IF Older(sessions) = {} THEN 1
  ELSE CHOOSE i \in Older(sessions) : \A j \in Older(sessions) :
         \/ sessions[i].last < sessions[j].last
         \/ sessions[i].last = sessions[j].last /\ i <= j

(* Seeded fault: the limit is looked at after the session was added.       *)
PurgedLate(sessions) ==
  IF Len(sessions) > MaxSessions THEN RemoveAt(sessions, Oldest(sessions))
  ELSE sessions

(* The loop of session_new.  The list is never longer than the limit, so   *)
(* it is left after one session was purged.                                *)
Purged(sessions) ==
  IF Len(sessions) >= MaxSessions THEN RemoveAt(sessions, Oldest(sessions))
  ELSE sessions

(* session_new: its last_request is 0 until it is asked for.               *)
SessionNew(sessions, id) ==
  <<[id |-> id, last |-> 0, refs |-> 1, user |-> FALSE]>> \o Purged(sessions)

=============================================================================

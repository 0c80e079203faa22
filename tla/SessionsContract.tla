-------------------------- MODULE SessionsContract --------------------------
(***************************************************************************)
(* What the session services promise, a step at a time: a session is       *)
(* opened once, accepts one token at a time, each of them new to every     *)
(* client when it starts to be accepted, and ends by a logout of its user  *)
(* or after its time, for good.  Requests, what they read before they      *)
(* write, the dates they carry and how they fail are the business of       *)
(* module Sessions, which implements this one.                             *)
(***************************************************************************)
EXTENDS Naturals

CONSTANTS User, SessionId, Token,
          None,          \* no session, no owner
          RefreshTTL     \* a session lives no longer than this after its last change

VARIABLES now,           \* the time
          sessions,      \* id -> who has it, the token it accepts and until when, or None
          opened,        \* ids of the sessions there are or were
          owner,         \* token -> the session it is for, or None while there is no such token
          known          \* tokens some client has

vars == <<now, sessions, opened, owner, known>>

Ended(s) == s \in opened /\ sessions[s] = None

Init == /\ now = 0
        /\ sessions = [s \in SessionId |-> None]
        /\ opened = {}
        /\ owner = [t \in Token |-> None]
        /\ known = {}

Issue(s, t) ==
  /\ owner[t] = None
  /\ owner' = [owner EXCEPT ![t] = s]
  /\ UNCHANGED <<now, sessions, opened, known>>

\* From now on session s of user u accepts t, for RefreshTTL at most; its client
\* gets t, or does not.
Accept(s, u, t) ==
  /\ owner[t] = s
  /\ t \notin known
  /\ known' \in {known, known \cup {t}}
  /\ \E e \in 0 .. now + RefreshTTL :
       sessions' = [sessions EXCEPT ![s] = [user |-> u, token |-> t, expiresAt |-> e]]
  /\ UNCHANGED <<now, owner>>

Open(s, u, t) ==
  /\ s \notin opened
  /\ opened' = opened \cup {s}
  /\ Accept(s, u, t)

\* Only who has had a token of the session extends it.
Extend(s, t) ==
  /\ sessions[s] # None
  /\ UNCHANGED opened
  /\ \E p \in known : owner[p] = s
  /\ Accept(s, sessions[s].user, t)

\* A refresh that comes too late: its client gets a token nothing accepts.
ExtendEnded(s, t) ==
  /\ Ended(s)
  /\ owner[t] = s
  /\ known' = known \cup {t}
  /\ UNCHANGED <<now, sessions, opened, owner>>

Logout(u) ==
  /\ sessions' = [s \in SessionId |->
                    IF sessions[s] # None /\ sessions[s].user = u THEN None ELSE sessions[s]]
  /\ UNCHANGED <<now, opened, owner, known>>

Expire(S) ==
  /\ \A s \in S : sessions[s] # None /\ sessions[s].expiresAt <= now
  /\ sessions' = [s \in SessionId |-> IF s \in S THEN None ELSE sessions[s]]
  /\ UNCHANGED <<now, opened, owner, known>>

Tick ==
  /\ now' = now + 1
  /\ UNCHANGED <<sessions, opened, owner, known>>

Next ==
  \/ \E s \in SessionId, t \in Token :
       \/ Issue(s, t)
       \/ \E u \in User : Open(s, u, t)
       \/ Extend(s, t)
       \/ ExtendEnded(s, t)
  \/ \E u \in User : Logout(u)
  \/ \E S \in SUBSET SessionId : Expire(S)
  \/ Tick

Spec == Init /\ [][Next]_vars
=============================================================================

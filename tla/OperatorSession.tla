--------------------------- MODULE OperatorSession ---------------------------
(***************************************************************************)
(* tools/gui/server.py, under whose account a station's records go.  With  *)
(* AUDIT_OPERATOR_SIGNIN on, people sign in, a record is tagged with who   *)
(* started its wipe and is sent only under that person's token; with it    *)
(* off, records go under one shared account.  Sign-ins, sign-outs, renewed *)
(* tokens, uploads and other requests run in threads of one process; the   *)
(* setting is read again at every Rescan.                                  *)
(*                                                                         *)
(* A record that waits is in the queue of StationQueue.  Names, addresses, *)
(* rights and workflows are left out, and so is what the server thinks of  *)
(* a record.                                                               *)
(***************************************************************************)
EXTENDS Naturals, Sequences, FiniteSets

CONSTANTS Operators,   \* the people
          Shared,      \* the station's own account
          Nobody,
          Records,     \* the records of its wipes
          MaxEvents    \* bound on what people, the clock, the server and the network do

Callers == {"upload", "lists"}

ASSUME SessionAssumption ==
  /\ Shared # Nobody /\ {Shared, Nobody} \cap Operators = {}
  /\ Nobody \notin Callers /\ MaxEvents \in Nat

VARIABLES flag,      \* AUDIT_OPERATOR_SIGNIN, as last read
          session,   \* OPERATOR: who is signed in, the token, and is it time to renew it
          cached,    \* STATE["token"], the shared account's; 0 for none
          lock,      \* OPERATOR_LOCK, while a renewal is under way
          signing,   \* the tokens of sign-ins the server answered
          call,      \* the upload under way, and the request for the lists
          record,    \* how far a record is, and its tag
          tokens,    \* the tokens the server issued
          barred,    \* the accounts it disabled
          filed,     \* the records it has, with the account they came under
          online, events

vars == <<flag, session, cached, lock, signing, call, record, tokens, barred, filed, online, events>>
people == <<flag, signing, record, online, events>>

Accounts == Operators \cup {Shared}

NoSession == [who |-> Nobody, tok |-> 0, due |-> FALSE]

\* whose: the account asked for, or Nobody for whoever is there; on: the setting
\* when the request began; again: is this the retry.
Idle == [step |-> "idle", rec |-> Nobody, whose |-> Nobody, on |-> FALSE, tok |-> 0, again |-> FALSE]

SignedIn == session.who # Nobody

Goes(c, step, tok) == call' = [call EXCEPT ![c].step = step, ![c].tok = tok]

Stops(c) == call' = [call EXCEPT ![c] = Idle]

Issue(u) == tokens' = Append(tokens, [who |-> u, expired |-> FALSE, ended |-> FALSE])

\* What the server says of a session's token, or of a renewal with it.
Refused(u, tok) == u \in barred \/ tokens[tok].ended

-----------------------------------------------------------------------------
(* A wipe: the gate, the marker with its tag, the record *)

Moves(r, phase, tag) ==
  /\ record' = [record EXCEPT ![r] = [phase |-> phase, tag |-> tag]]
  /\ UNCHANGED <<flag, session, cached, lock, signing, call, tokens, barred, filed, online, events>>

\* Nobody signed in, no erase; a session near its end is renewed first, as for a list.
Gate(r) ==
  /\ record[r].phase = "none"
  /\ flag => SignedIn /\ ~session.due /\ lock = Nobody
  /\ Moves(r, "gated", Nobody)

\* stamp_provenance: the tag, or none if nobody is signed in any more.
Stamp == IF flag /\ SignedIn THEN session.who ELSE Shared

\* Who wiped is fixed when the wipe starts, if operators sign in; else at its end.
WipeStart(r) ==
  /\ record[r].phase = "gated"
  /\ Moves(r, "running", IF flag THEN Stamp ELSE Nobody)

WipeEnds(r) ==
  /\ record[r].phase = "running"
  /\ Moves(r, "waiting", IF record[r].tag = Nobody THEN Stamp ELSE record[r].tag)

-----------------------------------------------------------------------------
(* Requests: authed_api *)

\* held_reason.
Held(r) == IF flag THEN record[r].tag # session.who ELSE record[r].tag # Shared

Begins(c, r, whose) ==
  /\ call[c] = Idle
  /\ call' = [call EXCEPT ![c] = [step |-> IF flag THEN "take" ELSE "ensure", rec |-> r, whose |-> whose,
                                  on |-> flag, tok |-> 0, again |-> FALSE]]
  /\ UNCHANGED <<people, session, cached, lock, tokens, barred, filed>>

\* One record at a time, under UPLOAD_LOCK.
Upload(r) ==
  /\ record[r].phase = "waiting" /\ ~Held(r)
  /\ Begins("upload", r, record[r].tag)

Lists == (flag => SignedIn) /\ Begins("lists", Nobody, Nobody)

\* ensure_token reads the setting once more, and then asks for whoever is there.
Ensure(c) ==
  /\ call[c].step = "ensure"
  /\ call' = [call EXCEPT ![c] =
       IF flag THEN [@ EXCEPT !.step = "take", !.whose = Nobody]
       ELSE [@ EXCEPT !.step = IF cached # 0 THEN "post" ELSE "login", !.tok = cached]]
  /\ UNCHANGED <<people, session, cached, lock, tokens, barred, filed>>

\* login: never the shared account while operators sign in themselves.
Login(c) ==
  /\ call[c].step = "login"
  /\ IF flag \/ ~online \/ Shared \in barred
     THEN Stops(c) /\ UNCHANGED <<cached, tokens>>
     ELSE /\ Issue(Shared) /\ cached' = Len(tokens) + 1
          /\ Goes(c, "post", Len(tokens) + 1)
  /\ UNCHANGED <<people, session, lock, barred, filed>>

\* operator_token, for c: the token, or a renewal with the lock held.
Token(c, due) ==
  IF due THEN /\ session' = [session EXCEPT !.due = TRUE]
              /\ lock' = c /\ Goes(c, "renew", 0)
         ELSE Goes(c, "post", session.tok) /\ UNCHANGED <<session, lock>>

Theirs(c) == SignedIn /\ call[c].whose \in {Nobody, session.who}

\* Whose token it is and the token itself are read under one hold of the lock.
Take(c) ==
  /\ call[c].step = "take" /\ lock = Nobody
  /\ IF Theirs(c) THEN Token(c, session.due) ELSE Stops(c) /\ UNCHANGED <<session, lock>>
  /\ UNCHANGED <<people, cached, tokens, barred, filed>>

\* /auth/refresh: no answer leaves the session as it is, a refusal ends it.
Renew(c) ==
  /\ call[c].step = "renew"
  /\ lock' = Nobody
  /\ CASE ~online -> Stops(c) /\ UNCHANGED <<session, tokens>>
       [] online /\ Refused(session.who, session.tok) -> session' = NoSession /\ Stops(c) /\ UNCHANGED tokens
       [] OTHER -> /\ Issue(session.who)
                   /\ session' = [session EXCEPT !.tok = Len(tokens) + 1, !.due = FALSE]
                   /\ Goes(c, "post", Len(tokens) + 1)
  /\ UNCHANGED <<people, cached, barred, filed>>

\* The request at the server: the token's time, the account, then the record.
Answer(tok) ==
  CASE tokens[tok].expired -> "401"
    [] ~tokens[tok].expired /\ Refused(tokens[tok].who, tok) -> "403"
    [] OTHER -> "200"

Send(c) ==
  LET answer == Answer(call[c].tok) IN
  /\ call[c].step = "post"
  /\ IF ~online THEN Stops(c) /\ UNCHANGED filed
     ELSE /\ Goes(c, answer, call[c].tok)
          /\ filed' = IF c = "upload" /\ answer = "200"
                      THEN filed \cup {[rec |-> call[c].rec, as |-> tokens[call[c].tok].who,
                                        asked |-> call[c].whose]}
                      ELSE filed
  /\ UNCHANGED <<people, session, cached, lock, tokens, barred>>

\* The record leaves the queue.
Taken(c) ==
  /\ call[c].step = "200" /\ online
  /\ record' = IF c = "upload" THEN [record EXCEPT ![call[c].rec].phase = "sent"] ELSE record
  /\ Stops(c)
  /\ UNCHANGED <<flag, session, cached, lock, signing, tokens, barred, filed, online, events>>

Lost(c) ==
  /\ call[c].step \in {"200", "401", "403"} /\ ~online
  /\ Stops(c)
  /\ UNCHANGED <<people, session, cached, lock, tokens, barred, filed>>

\* Mutant: any 403 of this kind signs out whoever is signed in.
Ended_Any(c) ==
  /\ call[c].step = "403" /\ online /\ lock = Nobody
  /\ session' = IF call[c].on THEN NoSession ELSE session
  /\ cached' = IF ~call[c].on /\ cached = call[c].tok THEN 0 ELSE cached
  /\ Stops(c)
  /\ UNCHANGED <<people, lock, tokens, barred, filed>>

\* The 403s that end a session: only the one that was refused.
Ended(c) ==
  /\ call[c].step = "403" /\ online /\ lock = Nobody
  /\ session' = IF call[c].on /\ session.tok = call[c].tok THEN NoSession ELSE session
  /\ cached' = IF ~call[c].on /\ cached = call[c].tok THEN 0 ELSE cached
  /\ Stops(c)
  /\ UNCHANGED <<people, lock, tokens, barred, filed>>

\* Mutant: the retry takes the token of whoever is signed in by then.
GivesUp_Whoever(c) == ~call[c].on \/ call[c].again \/ ~SignedIn

\* A 401 gets one renewal and one retry; with the setting off, none.
GivesUp(c) == ~call[c].on \/ call[c].again \/ ~Theirs(c)

\* Mutant: the retry trusts the station's own countdown, and sends the same token.
Unauthorised_Keeps(c) ==
  /\ call[c].step = "401" /\ online /\ lock = Nobody
  /\ IF GivesUp(c) THEN Stops(c) /\ UNCHANGED <<session, lock>>
     ELSE /\ lock' = IF session.due THEN c ELSE Nobody
          /\ call' = [call EXCEPT ![c].step = IF session.due THEN "renew" ELSE "post",
                                  ![c].tok = IF session.due THEN 0 ELSE session.tok, ![c].again = TRUE]
          /\ UNCHANGED session
  /\ UNCHANGED <<people, cached, tokens, barred, filed>>

Unauthorised(c) ==
  /\ call[c].step = "401" /\ online /\ lock = Nobody
  /\ IF GivesUp(c) THEN Stops(c) /\ UNCHANGED <<session, lock>>
     ELSE LET due == session.due \/ session.tok = call[c].tok IN
          /\ session' = [session EXCEPT !.due = due]
          /\ lock' = IF due THEN c ELSE Nobody
          /\ call' = [call EXCEPT ![c].step = IF due THEN "renew" ELSE "post",
                                  ![c].tok = IF due THEN 0 ELSE session.tok, ![c].again = TRUE]
  /\ UNCHANGED <<people, cached, tokens, barred, filed>>

-----------------------------------------------------------------------------
(* People, the clock, the server and the network *)

Event == events < MaxEvents /\ events' = events + 1 /\ UNCHANGED <<call, record, filed, lock>>

\* operator_signin: the request, and with the lock the session; two tabs may ask at once.
SignIn(u) ==
  /\ flag /\ ~SignedIn /\ online /\ u \notin barred
  /\ Issue(u) /\ signing' = signing \cup {Len(tokens) + 1}
  /\ Event /\ UNCHANGED <<flag, session, cached, barred, online>>

Adopt(t) ==
  /\ t \in signing /\ lock = Nobody
  /\ session' = [who |-> tokens[t].who, tok |-> t, due |-> FALSE]
  /\ signing' = signing \ {t}
  /\ UNCHANGED <<flag, cached, lock, call, record, tokens, barred, filed, online, events>>

SignOut ==
  /\ flag /\ SignedIn /\ lock = Nobody
  /\ session' = NoSession
  /\ Event /\ UNCHANGED <<flag, cached, signing, tokens, barred, online>>

\* The setting is another one when audit.conf is read again.
Rescan == flag' = ~flag /\ Event /\ UNCHANGED <<session, cached, signing, tokens, barred, online>>

\* By the station's own countdown, which a suspend does not stop the server's for.
Near ==
  /\ SignedIn /\ ~session.due /\ lock = Nobody
  /\ session' = [session EXCEPT !.due = TRUE]
  /\ Event /\ UNCHANGED <<flag, cached, signing, tokens, barred, online>>

Expire(t) ==
  /\ ~tokens[t].expired /\ tokens' = [tokens EXCEPT ![t].expired = TRUE]
  /\ Event /\ UNCHANGED <<flag, session, cached, signing, barred, online>>

Disable(u) ==
  /\ u \notin barred /\ barred' = barred \cup {u}
  /\ Event /\ UNCHANGED <<flag, session, cached, signing, tokens, online>>

NewPassword(u) ==
  /\ tokens' = [t \in DOMAIN tokens |-> [tokens[t] EXCEPT !.ended = @ \/ tokens[t].who = u]]
  /\ Event /\ UNCHANGED <<flag, session, cached, signing, barred, online>>

Network == online' = ~online /\ Event /\ UNCHANGED <<flag, session, cached, signing, tokens, barred>>

\* The process restarts: everyone is signed out, and what it had begun is filed
\* from its marker, which was stamped when the wipe started.
Restart ==
  /\ events < MaxEvents /\ events' = events + 1
  /\ session' = NoSession /\ cached' = 0 /\ lock' = Nobody /\ signing' = {}
  /\ call' = [c \in Callers |-> Idle]
  /\ record' = [r \in Records |->
       CASE record[r].phase = "gated" -> [phase |-> "none", tag |-> Nobody]
         [] record[r].phase = "running" ->
              [phase |-> "waiting", tag |-> IF record[r].tag = Nobody THEN Shared ELSE record[r].tag]
         [] OTHER -> record[r]]
  /\ UNCHANGED <<flag, tokens, barred, filed, online>>

-----------------------------------------------------------------------------
Init ==
  /\ flag \in BOOLEAN /\ session = NoSession /\ cached = 0 /\ lock = Nobody /\ signing = {}
  /\ call = [c \in Callers |-> Idle]
  /\ record = [r \in Records |-> [phase |-> "none", tag |-> Nobody]]
  /\ tokens = <<>> /\ barred = {} /\ filed = {} /\ online = TRUE /\ events = 0

Works(c) ==
  \/ Ensure(c) \/ Login(c) \/ Take(c) \/ Renew(c) \/ Send(c)
  \/ Taken(c) \/ Lost(c) \/ Ended(c) \/ Unauthorised(c)

Wiping(r) == Gate(r) \/ WipeStart(r) \/ WipeEnds(r)

Happens ==
  \/ SignOut \/ Rescan \/ Near \/ Network \/ Restart
  \/ \E u \in Operators : SignIn(u)
  \/ \E u \in Accounts : Disable(u) \/ NewPassword(u)
  \/ \E t \in DOMAIN tokens : Expire(t)

Next ==
  \/ \E r \in Records : Wiping(r) \/ Upload(r)
  \/ Lists \/ \E c \in Callers : Works(c)
  \/ \E t \in DOMAIN tokens : Adopt(t)
  \/ Happens

\* A request goes on, and a flush takes the records that are not held in turn.
Spec ==
  /\ Init /\ [][Next]_vars
  /\ \A c \in Callers : WF_vars(Works(c))
  /\ \A r \in Records : SF_vars(Upload(r))

-----------------------------------------------------------------------------
(* Properties *)

\* "It is never re-attributed": a record is filed under the account of its tag,
\* whoever signs in or out while it is sent; only one without a tag goes under an
\* operator's, when the setting is switched on between two looks at it.
OwnAccount ==
  \A f \in filed : f.as = record[f.rec].tag \/ (f.asked = Nobody /\ record[f.rec].tag = Shared)

\* "The new session is not theirs to end": a session ends when its operator signs
\* out, when another tab signs somebody in, at a restart, or when the server refuses it;
\* never by the late answer to a request made under another one.
SessionStands ==
  [][SignedIn /\ session'.who # session.who =>
       Refused(session.who, session.tok) \/ SignOut \/ Restart \/ \E t \in signing : Adopt(t)]_vars

\* May r be sent: its operator is signed in and not refused; or the setting is
\* off, and the shared account's token, which is never renewed, is not dead.
Served(r) ==
  /\ online
  /\ IF flag THEN SignedIn /\ session.who = record[r].tag /\ ~Refused(session.who, session.tok)
     ELSE record[r].tag = Shared /\ Shared \notin barred /\ (cached # 0 => ~tokens[cached].expired)

\* A record waits for its operator, and then goes: however often their token has
\* run out before its time, and whatever else the station asks the server for.
OwnRecordsGo == \A r \in Records : <>[]Served(r) => []<>(record[r].phase # "waiting")
=============================================================================

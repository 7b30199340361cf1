------------------------------ MODULE AuthTokens ------------------------------
(***************************************************************************)
(* The refresh tokens of one user: login, refresh, logout, logout of all   *)
(* sessions and the purge at the end of a password reset, call by call,    *)
(* with failing database calls and dying processes.  AUTH_SINGLE_SESSION   *)
(* is on, its default.  Credentials, cookies, access tokens and login logs *)
(* are left out.                                                           *)
(***************************************************************************)
EXTENDS Naturals, FiniteSets

CONSTANTS MaxTokens,  \* bound: refresh tokens ever created
          Logins      \* requests in flight

ASSUME TokensAssumption == MaxTokens \in Nat /\ IsFiniteSet(Logins)

VARIABLES token,    \* refresh_tokens: the state of each document
          request,  \* the requests in flight
          excused   \* has anything but a new login ended the session since the
                    \* last token was stored

tokenVars == <<token, request, excused>>

Tokens == 1..MaxTokens     \* in the order in which they are stored
Ops == {"login", "refresh", "logout", "logoutAll", "reset"}
Resting == [op |-> "login", step |-> "idle", given |-> {}, minted |-> {}, solo |-> FALSE]

\* An expired document still has revoked False
States == {"unborn", "active", "grace", "revoked", "expired", "gone"}
Live == {t \in Tokens : token[t] = "active"}
Unborn == {t \in Tokens : token[t] = "unborn"}

TokensTypeOK ==
    /\ token \in [Tokens -> States]
    /\ request \in [Logins -> [op : Ops,
                               step : {"idle", "check", "clear", "verify", "revoke", "insert",
                                       "cleanup", "old", "all", "purge"},
                               given : SUBSET Tokens, minted : SUBSET Tokens,
                               solo : BOOLEAN]]
    /\ excused \in BOOLEAN
    \* a token document exists from the insert of its own request on
    /\ \A r \in Logins : request[r].step = "cleanup" =>
          \E t \in Tokens : request[r].minted = {t} /\ token[t] # "unborn"

TokensInit ==
    /\ token = [t \in Tokens |-> "unborn"]
    /\ request = [r \in Logins |-> Resting]
    /\ excused = TRUE

InStep(r, s) == request[r].step = s
Then(r, s) == request' = [request EXCEPT ![r].step = s]
Leave(r) == request' = [request EXCEPT ![r] = Resting]

\* mutant: the filter on revoked misses
RevokeNone(to) == token

\* update_many {username, revoked: False}
RevokeEach(to) == [t \in Tokens |-> IF token[t] = "active" THEN to ELSE token[t]]

------------------------------------------------------------------------------
(* Requests                                                                 *)

\* A refresh or a logout presents any token its client was ever given.
Arrive(r) ==
    /\ InStep(r, "idle")
    /\ \E op \in Ops :
       \E given \in IF op \in {"refresh", "logout"}
                       THEN {{t} : t \in Tokens \ Unborn} ELSE {{}} :
          LET alone == \A q \in Logins \ {r} : InStep(q, "idle")
              first == CASE op = "login" -> "check"
                         [] op \in {"refresh", "logout"} -> "verify"
                         [] op = "logoutAll" -> "all"
                         [] op = "reset" -> "purge"
          IN request' = [q \in Logins |->
                IF q = r THEN [Resting EXCEPT !.op = op, !.step = first,
                                              !.given = given, !.solo = alone]
                         ELSE [request[q] EXCEPT !.solo = FALSE]]
    /\ UNCHANGED <<token, excused>>

\* get_active_session_record: an error counts as no session
FindActive(r) ==
    /\ InStep(r, "check")
    /\ \/ Live # {} /\ Then(r, "clear")
       \/ Then(r, "revoke")
    /\ UNCHANGED <<token, excused>>

\* _resolve_session_conflict: revoked without grace; an error counts as none
ClearSessions(r) ==
    /\ InStep(r, "clear")
    /\ token' = RevokeEach("revoked") \/ UNCHANGED token
    /\ Then(r, "revoke")
    /\ UNCHANGED excused

\* verify_refresh_token: only a token that is neither revoked nor expired
Verified(t) == token[t] = "active"
Verify(r) ==
    /\ InStep(r, "verify")
    /\ IF \E t \in request[r].given : Verified(t)
          THEN Then(r, IF request[r].op = "refresh" THEN "revoke" ELSE "old")
          ELSE Leave(r)
    /\ UNCHANGED <<token, excused>>

------------------------------------------------------------------------------
(* _store_refresh_token: revoke, insert, clean up; the first two may raise  *)

RevokeFirst(r) ==
    /\ InStep(r, "revoke")
    /\ token' = RevokeEach("grace")
    /\ Then(r, "insert")
    /\ UNCHANGED excused

Insert(r) ==
    /\ InStep(r, "insert")
    /\ \E t \in Unborn :
          /\ Unborn = t..MaxTokens
          /\ token' = [token EXCEPT ![t] = "active"]
          /\ request' = [request EXCEPT ![r].minted = {t}, ![r].step = "cleanup"]
    /\ excused' = FALSE

\* a grace period that is still running keeps the document
Cleanup(r) ==
    /\ InStep(r, "cleanup")
    /\ token' = [t \in Tokens |->
                   IF token[t] \in {"revoked", "expired"} THEN "gone" ELSE token[t]]
    /\ IF request[r].op = "login" THEN Leave(r) ELSE Then(r, "old")
    /\ UNCHANGED excused

CleanupFails(r) ==
    /\ InStep(r, "cleanup")
    /\ IF request[r].op = "login" THEN Leave(r) ELSE Then(r, "old")
    /\ UNCHANGED <<token, excused>>

StoreFails(r) ==
    /\ request[r].step \in {"revoke", "insert"}
    /\ Leave(r)
    /\ excused' = TRUE
    /\ UNCHANGED token

\* mutant: the last call of a refresh is revoke_all_user_tokens
RevokeEverything(r) ==
    /\ InStep(r, "old")
    /\ token' = RevokeEach("revoked")
    /\ Leave(r)
    /\ excused' = (excused \/ request[r].op = "logout")

\* revoke_token: the last call of a refresh and of a logout; an error is
\* logged and the request answers as if it had worked
RevokeGiven(r) ==
    /\ InStep(r, "old")
    /\ \/ token' = [t \in Tokens |-> IF t \in request[r].given /\ token[t] = "active"
                                        THEN "revoked" ELSE token[t]]
       \/ UNCHANGED token
    /\ Leave(r)
    /\ excused' = (excused \/ request[r].op = "logout")

\* logout_all_sessions: revoked without grace; an error counts as none
RevokeAll(r) ==
    /\ InStep(r, "all")
    /\ token' = RevokeEach("revoked") \/ UNCHANGED token
    /\ Leave(r)
    /\ excused' = TRUE

\* password_reset_confirm, after the password: delete_many, errors logged
Purge(r) ==
    /\ InStep(r, "purge")
    /\ \/ token' = [t \in Tokens |-> IF token[t] = "unborn" THEN "unborn" ELSE "gone"]
       \/ UNCHANGED token
    /\ Leave(r)
    /\ excused' = TRUE

------------------------------------------------------------------------------
(* Time and crashes                                                         *)

GraceEnds(t) ==
    /\ token[t] = "grace"
    /\ token' = [token EXCEPT ![t] = "revoked"]
    /\ UNCHANGED <<request, excused>>

TokenExpires(t) ==
    /\ token[t] = "active"
    /\ token' = [token EXCEPT ![t] = "expired"]
    /\ excused' = TRUE
    /\ UNCHANGED request

RequestDies(r) ==
    /\ ~InStep(r, "idle")
    /\ Leave(r)
    /\ excused' = TRUE
    /\ UNCHANGED token

TokensNext ==
    \/ \E r \in Logins :
          \/ Arrive(r) \/ FindActive(r) \/ ClearSessions(r) \/ Verify(r)
          \/ RevokeFirst(r) \/ Insert(r) \/ Cleanup(r) \/ CleanupFails(r) \/ StoreFails(r)
          \/ RevokeGiven(r) \/ RevokeAll(r) \/ Purge(r) \/ RequestDies(r)
    \/ \E t \in Tokens : GraceEnds(t) \/ TokenExpires(t)

TokensSpec == TokensInit /\ [][TokensNext]_tokenVars

------------------------------------------------------------------------------
(* Properties                                                               *)

\* However logins and refreshes overlap, fail and die, no more tokens are live
\* than requests can be in flight at once: each request revokes everything,
\* the token of its predecessor included, before it inserts its own.
BoundedSessions == Cardinality(Live) <= Cardinality(Logins)

\* Overlapping requests never log the user out between them: when the last one
\* has answered and nothing failed, expired, logged out or reset since a token
\* was stored, some token is live ("prevent race conditions from parallel
\* requests" in _store_refresh_token).
SomeoneSurvives == ~excused /\ (\A r \in Logins : InStep(r, "idle")) => Live # {}

\* A login or refresh that nobody disturbed leaves no live token but its own,
\* whatever earlier races left behind and although the check for an active
\* session, the first revocation and the revocation of the old token may fail
\* unnoticed.
SoloExact ==
    [][\A r \in Logins : request[r].solo /\ request[r].minted # {} /\ InStep(r, "cleanup") =>
          Live' \subseteq request[r].minted]_tokenVars

\* The refresh tokens of a user keep their shape, are never more than requests overlap, and are
\* not lost between overlapping requests.
TokensInv == TokensTypeOK /\ BoundedSessions /\ SomeoneSurvives
==============================================================================

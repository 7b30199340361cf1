------------------------------ MODULE ClientAuth ------------------------------
(***************************************************************************)
(* The credentials on one (native) device: the Authorization header and    *)
(* the user in memory, the tokens and the user in secure storage, and the  *)
(* tasks that write them one await at a time: login, logout, the restoring *)
(* of a stored session and the refresh behind a 401.  People share the     *)
(* device; each login of one of them is a visit.  The server is external:  *)
(* AuthTokens models its side.                                             *)
(***************************************************************************)
EXTENDS Naturals, FiniteSets

CONSTANTS MaxVisits,   \* bound: logins on this device
          MaxRotation, \* bound: generations of the tokens of one visit
          Calls,       \* API requests in flight
          Exits        \* logouts in flight

ASSUME ClientAssumption == MaxVisits \in Nat \ {0} /\ MaxRotation \in Nat \ {0}

VARIABLES issued,    \* external: the newest generation of each visit's tokens, 0 before the login
          live,      \* external: the visits whose newest refresh token is neither revoked nor used
          expired,   \* external: up to which generation access tokens have expired
          header,    \* apiClient.defaults.headers.common.Authorization
          stored,    \* secureStorage: auth_token, refresh_token, auth_user
          user,      \* the visit whose user is in the store, 0: not authenticated
          call,      \* requests
          refresh,   \* refreshInFlight
          exit,      \* the step of each logout
          entry,     \* the login in flight
          load,      \* loadStoredAuth
          beat,      \* is heartbeatInterval set
          recent,    \* was the last forced logout less than 5 s ago
          trouble    \* did only the network fail so far, or worse

server == <<issued, live, expired>>
credentials == <<header, stored, user>>
clientVars == <<server, credentials, call, refresh, exit, entry, load, beat, recent, trouble>>

Visits == 1..MaxVisits
Token == [visit : Visits, gen : 1..MaxRotation]
NoToken == [visit |-> 0, gen |-> 0]
Tokens0 == Token \cup {NoToken}

NoCall == [step |-> "idle", token |-> NoToken, retried |-> FALSE]
NoRefresh == [step |-> "idle", token |-> NoToken]
Outside == [step |-> "idle", token |-> NoToken]
Unloaded == [step |-> "user", user |-> 0, token |-> NoToken]

ClientTypeOK ==
    /\ issued \in [Visits -> 0..MaxRotation] /\ live \in SUBSET Visits
    /\ expired \in [Visits -> 0..MaxRotation]
    /\ header \in Tokens0
    /\ stored \in [access : Tokens0, refresh : Tokens0, user : 0..MaxVisits]
    /\ user \in 0..MaxVisits
    /\ call \in [Calls -> [step : {"idle", "sent", "refused", "waiting"},
                           token : Tokens0, retried : BOOLEAN]]
    \* the interceptor lets no request out without a token
    /\ \A c \in Calls : call[c].step = "sent" => call[c].token # NoToken
    /\ refresh \in [step : {"idle", "read", "sent", "answered", "refresh"}, token : Tokens0]
    /\ exit \in [Exits -> {"idle", "read", "post", "clear", "user", "access", "refresh", "header"}]
    /\ entry \in [step : {"idle", "sent", "answered", "access", "refresh", "user", "set", "hydrate"},
                  token : Tokens0]
    /\ load \in [step : {"user", "token", "set", "hydrate", "done"},
                 user : 0..MaxVisits, token : Tokens0]
    /\ beat \in BOOLEAN /\ recent \in BOOLEAN
    /\ trouble \in {"none", "network", "worse"}

\* A session may be stored from an earlier run of the app; its access token may have expired.
ClientInit ==
    \E v \in {0, 1} :
    LET t == IF v = 0 THEN NoToken ELSE [visit |-> 1, gen |-> 1] IN
    /\ issued = [w \in Visits |-> IF w = v THEN 1 ELSE 0]
    /\ live = {v} \ {0}
    /\ expired = [w \in Visits |-> 0]
    /\ stored = [access |-> t, refresh |-> t, user |-> v]
    /\ header = NoToken /\ user = 0
    /\ call = [c \in Calls |-> NoCall]
    /\ refresh = NoRefresh /\ entry = Outside /\ load = Unloaded
    /\ exit = [x \in Exits |-> "idle"]
    /\ beat = FALSE
    /\ recent = FALSE /\ trouble = "none"

\* the kinds of task that write credentials and are under way
Writers == {w \in {"login", "logout", "refresh", "load"} :
              CASE w = "login" -> entry.step \notin {"idle", "hydrate"}
                [] w = "logout" -> \E x \in Exits : exit[x] # "idle"
                [] w = "refresh" -> refresh.step # "idle"
                [] w = "load" -> load.step \notin {"hydrate", "done"}}

Accepted(t) == t.gen > expired[t.visit]

\* tasks that write credentials overlap
Crossing == Cardinality(Writers') > 1

------------------------------------------------------------------------------
(* Logout                                                                   *)

\* logout: stopHeartbeat, then the refresh token is read
Enter(x) ==
    /\ exit[x] = "idle"
    /\ exit' = [exit EXCEPT ![x] = "read"]
    /\ beat' = FALSE

Onward(x, s, t) == exit[x] = s /\ exit' = [exit EXCEPT ![x] = t]

\* The user taps logout, the third heartbeat in a row fails (it may have been
\* sent before another logout), or the bootstrap gives up on a loading after 3 s.
LogOut(x) ==
    /\ Enter(x)
    /\ UNCHANGED <<server, credentials, call, refresh, entry, load, recent>>

\* POST /api/auth/logout with the stored refresh token, if there is anything to end
SendLogout(x) ==
    /\ Onward(x, "read", IF header # NoToken \/ stored.refresh # NoToken THEN "post" ELSE "clear")
    /\ UNCHANGED <<server, credentials, call, refresh, entry, load, beat, recent>>

\* mutant: a failing POST ends the logout
LogoutThrows(x) ==
    /\ Onward(x, "post", "idle")
    /\ UNCHANGED <<server, credentials, call, refresh, entry, load, beat, recent>>

\* whatever the answer, the logout goes on; the server may have revoked the token
LogoutAnswered(x) ==
    /\ Onward(x, "post", "clear")
    /\ live' \in {live, {v \in live : stored.refresh # [visit |-> v, gen |-> issued[v]]}}
    /\ UNCHANGED <<issued, expired, credentials, call, refresh, entry, load, beat, recent>>

\* the state is cleared early, so the login screen shows while storage is cleaned
ClearState(x) ==
    /\ Onward(x, "clear", "user")
    /\ user' = 0
    /\ UNCHANGED <<server, header, stored, call, refresh, entry, load, beat, recent>>

Erase(x) ==
    /\ \/ Onward(x, "user", "access") /\ stored' = [stored EXCEPT !.user = 0]
       \/ Onward(x, "access", "refresh") /\ stored' = [stored EXCEPT !.access = NoToken]
       \/ Onward(x, "refresh", "header") /\ stored' = [stored EXCEPT !.refresh = NoToken]
    /\ UNCHANGED <<server, header, user, call, refresh, entry, load, beat, recent>>

\* removeItem swallows its errors
EraseFails(x) ==
    /\ Onward(x, "user", "access") \/ Onward(x, "access", "refresh") \/ Onward(x, "refresh", "header")
    /\ UNCHANGED <<server, credentials, call, refresh, entry, load, beat, recent>>

DropHeader(x) ==
    /\ Onward(x, "header", "idle")
    /\ header' = NoToken
    /\ UNCHANGED <<server, stored, user, call, refresh, entry, load, beat, recent>>

------------------------------------------------------------------------------
(* Login: login and loginWithPin, with establishSession                     *)

LogIn ==
    /\ user = 0 /\ entry.step = "idle" /\ load.step \in {"hydrate", "done"}
    /\ entry' = [Outside EXCEPT !.step = "sent"]
    /\ UNCHANGED <<server, credentials, call, refresh, exit, load, beat, recent>>

\* external: a new visit, which ends the user's earlier ones when it is the same user
Admit ==
    /\ entry.step = "sent"
    /\ \E v \in Visits :
          /\ issued[v] = 0 /\ \A w \in 1..(v - 1) : issued[w] # 0
          /\ issued' = [issued EXCEPT ![v] = 1]
          /\ live' \in {live \cup {v}, {v}}
          /\ entry' = [step |-> "answered", token |-> [visit |-> v, gen |-> 1]]
    /\ UNCHANGED <<expired, credentials, call, refresh, exit, load, beat, recent>>

\* wrong password, timeout, or the answer is lost
LoginFails ==
    /\ entry.step \in {"sent", "answered"}
    /\ entry' = Outside
    /\ UNCHANGED <<server, credentials, call, refresh, exit, load, beat, recent>>

\* header first, then the tokens and the user in storage, then the state
Establish ==
    /\ \/ /\ entry.step = "answered" /\ entry' = [entry EXCEPT !.step = "access"]
          /\ header' = entry.token /\ UNCHANGED <<stored, user>>
       \/ /\ entry.step = "access" /\ entry' = [entry EXCEPT !.step = "refresh"]
          /\ stored' = [stored EXCEPT !.access = entry.token] /\ UNCHANGED <<header, user>>
       \/ /\ entry.step = "refresh" /\ entry' = [entry EXCEPT !.step = "user"]
          /\ stored' = [stored EXCEPT !.refresh = entry.token] /\ UNCHANGED <<header, user>>
       \/ /\ entry.step = "user" /\ entry' = [entry EXCEPT !.step = "set"]
          /\ stored' = [stored EXCEPT !.user = entry.token.visit] /\ UNCHANGED <<header, user>>
       \/ /\ entry.step = "set" /\ entry' = [entry EXCEPT !.step = "hydrate"]
          /\ user' = entry.token.visit /\ UNCHANGED <<header, stored>>
    /\ UNCHANGED <<server, call, refresh, exit, load, beat, recent>>

\* setItem throws: login answers failure and leaves what it has written
EstablishFails ==
    /\ entry.step \in {"access", "refresh", "user"}
    /\ entry' = Outside
    /\ UNCHANGED <<server, credentials, call, refresh, exit, load, beat, recent>>

\* hydrateAuthenticatedSession: settings are loaded before the timer is started
Hydrate ==
    /\ \/ entry.step = "hydrate" /\ entry' = Outside /\ UNCHANGED load
       \/ load.step = "hydrate" /\ load' = [load EXCEPT !.step = "done"] /\ UNCHANGED entry
    /\ beat' = TRUE
    /\ UNCHANGED <<server, credentials, call, refresh, exit, recent>>

------------------------------------------------------------------------------
(* loadStoredAuth, one read at a time                                       *)

Got(u, t) ==
    \/ load.step = "user" /\ load' = [load EXCEPT !.step = "token", !.user = u]
    \/ /\ load.step = "token"
       /\ load' = IF load.user # 0 /\ t # NoToken THEN [load EXCEPT !.step = "set", !.token = t]
                                                 ELSE [Unloaded EXCEPT !.step = "done"]

ReadStored ==
    /\ Got(stored.user, stored.access)
    /\ UNCHANGED <<server, credentials, call, refresh, exit, entry, beat, recent>>

\* getItem answers null on an error and after 2 s
ReadStoredFails ==
    /\ Got(0, NoToken)
    /\ UNCHANGED <<server, credentials, call, refresh, exit, entry, beat, recent>>

\* a token that has not expired becomes the session
Restore ==
    /\ load.step = "set" /\ Accepted(load.token)
    /\ header' = load.token
    /\ user' = load.user
    /\ load' = [Unloaded EXCEPT !.step = "hydrate"]
    /\ UNCHANGED <<server, stored, call, refresh, exit, entry, beat, recent>>

\* an expired one is logged out; the loading ends with the logout
LoadExpired(x) ==
    /\ load.step = "set" /\ ~Accepted(load.token)
    /\ Enter(x)
    /\ load' = [Unloaded EXCEPT !.step = "done"]
    /\ UNCHANGED <<server, credentials, call, refresh, entry, recent>>

------------------------------------------------------------------------------
(* Requests: the two interceptors                                           *)

Goes(c, s) == call' = [call EXCEPT ![c].step = s, ![c].token = NoToken]
Ends(c) == call' = [call EXCEPT ![c] = NoCall]

\* Screens and the heartbeat call the API.  The request carries the header of
\* the moment or else the stored token; without either it is blocked.
Call(c) ==
    /\ call[c].step = "idle" /\ user # 0
    /\ LET t == IF header # NoToken THEN header ELSE stored.access IN
       /\ t # NoToken
       /\ call' = [call EXCEPT ![c].step = "sent", ![c].token = t]
    /\ UNCHANGED <<server, credentials, refresh, exit, entry, load, beat, recent>>

\* external: the server looks at the access token
Answer(c) ==
    /\ call[c].step = "sent"
    /\ IF Accepted(call[c].token) THEN Ends(c) ELSE Goes(c, "refused")
    /\ UNCHANGED <<server, credentials, refresh, exit, entry, load, beat, recent>>

AnswerLost(c) ==
    /\ call[c].step = "sent"
    /\ Ends(c)
    /\ UNCHANGED <<server, credentials, refresh, exit, entry, load, beat, recent>>

\* the timer stops itself when nobody is logged in
Tick ==
    /\ beat /\ user = 0
    /\ beat' = FALSE
    /\ UNCHANGED <<server, credentials, call, refresh, exit, entry, load, recent>>

\* performLogout, at most once in 5 s: tokens and header go, then the logout begins
ForceLogout ==
    IF recent
       THEN UNCHANGED <<header, stored, exit, beat, recent>>
       ELSE /\ recent' = TRUE
            /\ stored' = [stored EXCEPT !.access = NoToken, !.refresh = NoToken]
            /\ header' = NoToken
            /\ \E x \in Exits : Enter(x)

\* retryUnauthorizedRequest: a second 401 ends the session, a first one waits
\* for the refresh in flight or starts one
Unauthorized(c) ==
    /\ call[c].step = "refused"
    /\ IF call[c].retried
          THEN ForceLogout /\ Ends(c) /\ UNCHANGED refresh
          ELSE /\ call' = [call EXCEPT ![c] = [NoCall EXCEPT !.step = "waiting", !.retried = TRUE]]
               /\ refresh' = IF refresh.step = "idle" THEN [NoRefresh EXCEPT !.step = "read"]
                                                      ELSE refresh
               /\ UNCHANGED <<header, stored, exit, beat, recent>>
    /\ UNCHANGED <<server, user, entry, load>>

DebounceEnds ==
    /\ recent
    /\ recent' = FALSE
    /\ UNCHANGED <<server, credentials, call, refresh, exit, entry, load, beat>>

------------------------------------------------------------------------------
(* refreshAccessToken                                                       *)

\* the refresh came to nothing: every waiting request gives up
GiveUp ==
    /\ refresh' = NoRefresh
    /\ call' = [c \in Calls |-> IF call[c].step = "waiting" THEN NoCall ELSE call[c]]
    /\ ForceLogout

ReadRefreshToken ==
    /\ refresh.step = "read"
    /\ IF stored.refresh # NoToken
          THEN /\ refresh' = [step |-> "sent", token |-> stored.refresh]
               /\ UNCHANGED <<header, stored, call, exit, beat, recent>>
          ELSE GiveUp
    /\ UNCHANGED <<server, user, entry, load>>

ReadFails ==
    /\ refresh.step = "read"
    /\ GiveUp
    /\ UNCHANGED <<server, user, entry, load>>

\* external: the server rotates a live token
Honoured(t) == t.visit \in live /\ t.gen = issued[t.visit]

Rotate ==
    /\ refresh.step = "sent" /\ Honoured(refresh.token)
    /\ refresh.token.gen < MaxRotation
    /\ LET next == [refresh.token EXCEPT !.gen = @ + 1] IN
       /\ issued' = [issued EXCEPT ![next.visit] = next.gen]
       /\ refresh' = [step |-> "answered", token |-> next]
    /\ UNCHANGED <<live, expired, credentials, call, exit, entry, load, beat, recent>>

RefreshRefused ==
    /\ refresh.step = "sent" /\ ~Honoured(refresh.token)
    /\ GiveUp
    /\ UNCHANGED <<server, user, entry, load>>

\* nothing comes back, before or after the rotation
RefreshLost ==
    /\ refresh.step \in {"sent", "answered"}
    /\ GiveUp
    /\ UNCHANGED <<server, user, entry, load>>

Resume(t) ==
    /\ refresh' = NoRefresh
    /\ call' = [c \in Calls |-> IF call[c].step = "waiting"
                                   THEN [call[c] EXCEPT !.step = "sent", !.token = t] ELSE call[c]]

StoreAccess ==
    /\ refresh.step = "answered"
    /\ stored' = [stored EXCEPT !.access = refresh.token]
    /\ header' = refresh.token
    /\ refresh' = [refresh EXCEPT !.step = "refresh"]
    /\ UNCHANGED <<server, user, call, exit, entry, load, beat, recent>>

\* mutant: the next refresh token of the answer is not kept
KeepOldRefresh ==
    /\ refresh.step = "refresh"
    /\ Resume(refresh.token)
    /\ UNCHANGED <<server, credentials, exit, entry, load, beat, recent>>

\* then every waiting request is sent again with the new token
StoreRefresh ==
    /\ refresh.step = "refresh"
    /\ stored' = [stored EXCEPT !.refresh = refresh.token]
    /\ Resume(refresh.token)
    /\ UNCHANGED <<server, header, user, exit, entry, load, beat, recent>>

\* setItem throws: the refresh counts as failed
KeepFails ==
    /\ refresh.step \in {"answered", "refresh"}
    /\ GiveUp
    /\ UNCHANGED <<server, user, entry, load>>

------------------------------------------------------------------------------
(* The world                                                                *)

\* An access token outlives the request it was refreshed for.
AccessExpires(v) ==
    /\ expired[v] < issued[v]
    /\ LET t == [visit |-> v, gen |-> expired[v] + 1] IN
       refresh.token # t /\ \A c \in Calls : ~(call[c].retried /\ call[c].token = t)
    /\ expired' = [expired EXCEPT ![v] = @ + 1]
    /\ UNCHANGED <<issued, live, credentials, call, refresh, exit, entry, load, beat, recent>>

\* the user logs in on another device, an administrator ends the session
Revoke(v) ==
    /\ v \in live
    /\ live' = live \ {v}
    /\ UNCHANGED <<issued, expired, credentials, call, refresh, exit, entry, load, beat, recent>>

\* The app is killed and started again.
Restart ==
    /\ load.step = "done"
    /\ header' = NoToken /\ user' = 0
    /\ call' = [c \in Calls |-> NoCall]
    /\ refresh' = NoRefresh /\ entry' = Outside /\ load' = Unloaded
    /\ exit' = [x \in Exits |-> "idle"]
    /\ beat' = FALSE
    /\ recent' = FALSE
    /\ UNCHANGED <<server, stored>>

Sound ==
    \/ \E x \in Exits : LogOut(x) \/ SendLogout(x) \/ LogoutAnswered(x) \/ ClearState(x)
                        \/ Erase(x) \/ DropHeader(x) \/ LoadExpired(x)
    \/ LogIn \/ Admit \/ LoginFails \/ Establish \/ Hydrate \/ ReadStored \/ Restore
    \/ \E c \in Calls : Call(c) \/ Answer(c) \/ Unauthorized(c)
    \/ Tick \/ DebounceEnds
    \/ ReadRefreshToken \/ Rotate \/ RefreshRefused \/ StoreAccess \/ StoreRefresh
    \/ \E v \in Visits : AccessExpires(v) \/ Revoke(v)
    \/ Writers = {} /\ Restart
NetworkFault == RefreshLost \/ \E c \in Calls : AnswerLost(c)
DeviceFault ==
    \/ \E x \in Exits : EraseFails(x)
    \/ EstablishFails \/ ReadStoredFails \/ ReadFails \/ KeepFails
    \/ Writers # {} /\ Restart

ClientNext ==
    \/ Sound /\ trouble' = IF Crossing THEN "worse" ELSE trouble
    \/ NetworkFault /\ trouble' = IF Crossing \/ trouble = "worse" THEN "worse" ELSE "network"
    \/ DeviceFault /\ trouble' = "worse"

ClientSpec == ClientInit /\ [][ClientNext]_clientVars

------------------------------------------------------------------------------
(* Properties                                                               *)

\* As long as no two tasks that write credentials overlapped, no task was cut
\* short and storage worked, a device at rest acts for the user it shows:
\* header and stored tokens belong to that visit, and nothing is left when
\* nobody is logged in.  Late 401s, requests that outlive their visit, lost
\* answers, repeated logouts and the 5 s debounce do not disturb it.
Consistent ==
    Writers = {} /\ trouble # "worse" =>
       IF user = 0 THEN header = NoToken /\ stored = [access |-> NoToken, refresh |-> NoToken, user |-> 0]
       ELSE stored.user = user /\ {header.visit, stored.access.visit, stored.refresh.visit} = {user}

\* A session the server still honours is never given up by retryUnauthorizedRequest
\* when no call failed and no tasks overlapped: however many requests meet the
\* expired access token together, one refresh serves them all and each
\* refresh token is presented once.
NeverUnjust ==
    [][~recent /\ recent' /\ trouble' = "none" => user \notin live]_clientVars

\* Whoever is logged in is watched: the heartbeat runs, or is about to be
\* started, or a logout is about to clear the user.  Logouts stop the timer
\* long before they clear the user, so a login in between must not lose it.
Watched ==
    user # 0 => \/ beat
                \/ entry.step = "hydrate" \/ load.step = "hydrate"
                \/ \E x \in Exits : exit[x] \in {"read", "post", "clear"}

\* The device acts for the user it shows, and watches over that session.
DeviceInv == ClientTypeOK /\ Consistent /\ Watched
==============================================================================

------------------------------- MODULE SignIn -------------------------------
(***************************************************************************)
(* Who a request of the browser is: the local password sessions in the     *)
(* memory of the server, the cookies of the browser, which all its tabs    *)
(* share, and the order in which the server looks at them.  Sessions end   *)
(* by time, by sign-out and with the process; Keycloak is external and is  *)
(* reached by a redirect that comes back with the state it left with.  The *)
(* callback it comes back to asks Keycloak for the token in between, so    *)
(* that other tabs go on while it is under way.                            *)
(***************************************************************************)
EXTENDS Naturals, Sequences, Functions

CONSTANTS
  Accounts,     \* users with a local password or a Keycloak account
  Tenants,      \* those of them with the role Tenant
  Officers,     \* those of them with a role of STAFF_PORTAL_ROLES
  Identities,   \* the identities of the controlled demo
  Lifetime,     \* local_auth_token_ttl_minutes, in ticks
  MaxTime,      \* bound of the model on the clock
  MaxLogins,    \* bound of the model on local logins
  MaxTrips,     \* bound of the model on redirects to Keycloak
  MaxCallbacks, \* bound of the model on returns from there
  None

ASSUME SignInAssumption ==
  /\ Tenants \subseteq Accounts /\ Officers \subseteq Accounts
  /\ Lifetime \in Nat \ {0}
  /\ None \notin Nat

VARIABLES
  now,          \* time.monotonic
  sessions,     \* token -> [of, until]
  jar,          \* the cookies: local, keycloak, trip (pms_oauth_state), demo
  logins,       \* history: whose token each one is, since when, whether it is over
  trips,        \* redirects made: the portal of each, and whether it has signed in
  callbacks     \* callbacks sent: [trip, of, last, stage, until]

keycloakVars == <<trips, callbacks>>
signInVars == <<now, sessions, jar, logins, keycloakVars>>

NoCookies == [local |-> None, keycloak |-> None, trip |-> None, demo |-> None]

SignInInit ==
  /\ now = 0 /\ sessions = <<>> /\ logins = <<>> /\ trips = <<>> /\ callbacks = <<>>
  /\ jar = NoCookies

\* The state after the first login.
SignedInAs(a) ==
  /\ now = 0 /\ trips = <<>> /\ callbacks = <<>>
  /\ sessions = <<[of |-> a, until |-> Lifetime]>>
  /\ logins = <<[of |-> a, since |-> 0, over |-> FALSE]>>
  /\ jar = [NoCookies EXCEPT !.local = 1]
-----------------------------------------------------------------------------
Live(s) == Restrict(s, {t \in DOMAIN s : s[t].until > now})

Authenticated(token) == IF token \in DOMAIN Live(sessions) THEN sessions[token].of ELSE None

\* get_authorization_context: a local cookie that fails falls through, a
\* Keycloak cookie that fails does not, and the demo comes last.
Subject(cookies) ==
  LET local == Authenticated(cookies.local)
  IN IF local # None THEN local
     ELSE IF cookies.keycloak = None THEN cookies.demo
     ELSE IF cookies.keycloak.until > now THEN cookies.keycloak.of ELSE None

\* What login and revoke do to the sessions; tokens are never issued twice.
NewToken == Len(logins) + 1
LoggedIn(a) ==
  [t \in DOMAIN Live(sessions) \cup {NewToken} |->
     IF t = NewToken THEN [of |-> a, until |-> now + Lifetime] ELSE sessions[t]]

MutantRevoked(token) == sessions
Revoked(token) == Restrict(sessions, DOMAIN sessions \ {token})

RecordLogin(a) == Append(logins, [of |-> a, since |-> now, over |-> FALSE])
RecordEnd(token) ==
  IF token \in DOMAIN logins THEN [logins EXCEPT ![token].over = TRUE] ELSE logins
-----------------------------------------------------------------------------
(* Other tabs of the browser.  Of their requests only the callback of      *)
(* Keycloak is taken apart; the answers of the others arrive at once.      *)

LoginElsewhere(a) ==
  /\ Len(logins) < MaxLogins
  /\ sessions' = LoggedIn(a) /\ logins' = RecordLogin(a)
  /\ jar' = [jar EXCEPT !.local = NewToken]
  /\ UNCHANGED <<now, keycloakVars>>

\* GET /auth/logout: the demo cookie stays.
LogoutElsewhere ==
  /\ sessions' = Revoked(jar.local) /\ logins' = RecordEnd(jar.local)
  /\ jar' = [NoCookies EXCEPT !.demo = jar.demo]
  /\ UNCHANGED <<now, keycloakVars>>

\* GET /auth/login: the state of the last trip replaces the others.
LeaveForKeycloak(portal) ==
  /\ Len(trips) < MaxTrips
  /\ trips' = Append(trips, [portal |-> portal, over |-> FALSE])
  /\ jar' = [jar EXCEPT !.trip = Len(trips) + 1]
  /\ UNCHANGED <<now, sessions, logins, callbacks>>

\* Nothing has taken the place of a trip and nobody has signed in on it.
LastAndOpen(trip) == trip = Len(trips) /\ ~trips[trip].over

MutantValidState(trip) == TRUE
ValidState(trip) == jar.trip = trip

MatchesPortal(a, portal) == a \in IF portal = "tenant" THEN Tenants ELSE Officers

\* GET /auth/callback is sent, with a code for the account that signed in at
\* Keycloak: the state it brings is compared with the cookie sent along.
ReturnFromKeycloak(trip, a) ==
  /\ Len(callbacks) < MaxCallbacks
  /\ ValidState(trip)
  /\ callbacks' = Append(callbacks, [trip |-> trip, of |-> a, last |-> LastAndOpen(trip),
                                     stage |-> "sent", until |-> None])
  /\ UNCHANGED <<now, sessions, jar, logins, trips>>

Callback(n, stage) == n \in DOMAIN callbacks /\ callbacks[n].stage = stage

\* Keycloak gives a token for the code, and the account may use the portal.
ExchangeCode(n) ==
  /\ Callback(n, "sent")
  /\ MatchesPortal(callbacks[n].of, trips[callbacks[n].trip].portal)
  /\ callbacks' = [callbacks EXCEPT ![n].stage = "admitted", ![n].until = now + Lifetime]
  /\ UNCHANGED <<now, sessions, jar, logins, trips>>

\* The answer reaches the browser: it brings the token, and deletes
\* pms_oauth_state, whichever trip that cookie stands for by now.
CallbackAnswered(n) ==
  /\ Callback(n, "admitted")
  /\ jar' = [jar EXCEPT !.keycloak = [of |-> callbacks[n].of, until |-> callbacks[n].until],
                        !.trip = None]
  /\ callbacks' = [callbacks EXCEPT ![n].stage = "over"]
  /\ trips' = [trips EXCEPT ![callbacks[n].trip].over = TRUE]
  /\ UNCHANGED <<now, sessions, logins>>

\* Keycloak refuses the code, the account has no role of the portal, or the
\* answer is lost.
CallbackFails(n) ==
  /\ Callback(n, "sent") \/ Callback(n, "admitted")
  /\ callbacks' = [callbacks EXCEPT ![n].stage = "over"]
  /\ UNCHANGED <<now, sessions, jar, logins, trips>>
-----------------------------------------------------------------------------
Tick ==
  /\ now < MaxTime /\ now' = now + 1
  /\ UNCHANGED <<sessions, jar, logins, keycloakVars>>

\* Sessions are in memory only.
Restart ==
  /\ sessions # <<>> /\ sessions' = <<>>
  /\ logins' = [i \in DOMAIN logins |-> [logins[i] EXCEPT !.over = TRUE]]
  /\ UNCHANGED <<now, jar, keycloakVars>>

\* A cookie reaches its max_age.
CookieEnds ==
  \E c \in DOMAIN jar : jar[c] # None /\ jar' = [jar EXCEPT ![c] = None]
                        /\ UNCHANGED <<now, sessions, logins, keycloakVars>>

SignInNext ==
  \/ \E a \in Accounts : LoginElsewhere(a) \/ \E t \in DOMAIN trips : ReturnFromKeycloak(t, a)
  \/ \E n \in DOMAIN callbacks : ExchangeCode(n) \/ CallbackAnswered(n) \/ CallbackFails(n)
  \/ LogoutElsewhere
  \/ \E portal \in {"staff", "tenant"} : LeaveForKeycloak(portal)
  \/ Tick \/ Restart \/ CookieEnds

SignInSpec == SignInInit /\ [][SignInNext]_signInVars
-----------------------------------------------------------------------------
(* A token stands for the account of its login exactly as long as its      *)
(* lifetime lasts, unless it was revoked or the process restarted: no      *)
(* purge, login, sign-out of another token or answer that comes late makes *)
(* it live longer or shorter.                                              *)
SessionsExact ==
  \A t \in DOMAIN logins :
    Authenticated(t) = IF logins[t].over \/ now >= logins[t].since + Lifetime THEN None
                       ELSE logins[t].of

(* The browser becomes that of a Keycloak account only by the answer of a  *)
(* callback which, when it was sent, came from the trip made last, nobody  *)
(* having signed in on that one yet; and the account has a role of the     *)
(* portal that trip was for.  What is too late then signs nobody in,       *)
(* however many tabs leave, return, sign in and sign out in between; what  *)
(* is overtaken only afterwards, while its code is exchanged, still does.  *)
LastTripOnly ==
  [][jar'.keycloak \notin {None, jar.keycloak} =>
       \E n \in DOMAIN callbacks :
         /\ callbacks[n].last /\ callbacks[n].of = jar'.keycloak.of
         /\ callbacks[n].stage # callbacks'[n].stage
         /\ MatchesPortal(callbacks[n].of, trips[callbacks[n].trip].portal)]_signInVars
=============================================================================

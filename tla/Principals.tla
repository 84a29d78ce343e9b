------------------------------ MODULE Principals ------------------------------
(***************************************************************************)
(* Who a request speaks for and what that permits: the credentials of       *)
(* AuthService.authenticate (an API key, a JWT, a session cookie), the      *)
(* scopes a route requires and the CSRF check of requests that a browser    *)
(* authenticates by itself (dependencies.py).  Pure operators on one user   *)
(* with a session, one API key and one request; how a password earns the    *)
(* session or the token is LoginThrottle's, what a preset lets its key read *)
(* is ReadPolicy's.  The touch of last_used_at decides nothing.             *)
(***************************************************************************)

Scopes == {"read", "ingest", "editor", "admin", "raw_audit"}

Roles == {"admin", "editor", "visitor"}

\* AUTH_ROLE_SCOPES; a role it does not name may read.
RoleScopes(role) ==
  CASE role = "admin" -> Scopes [] role = "editor" -> {"read", "editor"} [] OTHER -> {"read"}

User == [is_active : BOOLEAN, role : Roles]

Session == [revoked : BOOLEAN, expired : BOOLEAN]

\* create_api_key(): 422 unless the scopes are known.
Creatable(scopes) == scopes \subseteq Scopes

\* A key is switched off when it is revoked, and only then.
ApiKey ==
  {k \in [enabled : BOOLEAN, revoked : BOOLEAN, expired : BOOLEAN,
          scopes : {{"ingest"}, {"read", "editor"}, {"admin"}, {"write"}}] :
     Creatable(k.scopes) /\ k.enabled = ~k.revoked}

\* What a JWT says: signed by this service for itself or not, and the role its
\* user had when it was issued.
Claims == [genuine : BOOLEAN, expired : BOOLEAN, role : Roles]

NoClaims == [genuine |-> FALSE, expired |-> FALSE, role |-> "visitor"]

\* A request: which credentials it brings, by name or by a name nobody has, and
\* the CSRF token in its header and its cookie.
Call ==
  [key : {"none", "known", "unknown"}, bearer : BOOLEAN, cookie : {"none", "known", "unknown"},
   header : {"none", "own", "forged"}, csrf : {"none", "own"}, safe : BOOLEAN]

Nobody == [kind |-> "nobody", scopes |-> {}]

-----------------------------------------------------------------------------
(* Authentication *)

\* A key that is not enabled, revoked or expired is nobody's.
ByKey(call, db) ==
  IF call.key = "known" /\ db.key.enabled /\ ~db.key.revoked /\ ~db.key.expired
  THEN [kind |-> "api_key", scopes |-> db.key.scopes] ELSE Nobody

Verified(claims) == claims.genuine /\ ~claims.expired

\* Mutant: a token carries its rights with it.
RightsOfToken(claims, db) == RoleScopes(claims.role)

\* The user is read again: the role in the token is not used.
RightsByToken(claims, db) == RoleScopes(db.user.role)

ByToken(claims, db) ==
  IF Verified(claims) /\ db.user.is_active
  THEN [kind |-> "jwt", scopes |-> RightsByToken(claims, db)] ELSE Nobody

BySession(call, db) ==
  IF call.cookie = "known" /\ ~db.session.revoked /\ ~db.session.expired /\ db.user.is_active
  THEN [kind |-> "session", scopes |-> RoleScopes(db.user.role)] ELSE Nobody

\* authenticate(): the first credential that is there decides, good or not.
Authenticated(call, claims, db) ==
  IF call.key # "none" THEN ByKey(call, db)
  ELSE IF call.bearer THEN ByToken(claims, db)
  ELSE BySession(call, db)

\* Principal.allows()
Permits(principal, wanted) == principal.scopes \cap (wanted \cup {"admin"}) # {}

\* valid_csrf(): the cookie repeats the header, and the session knows it.
ValidCsrf(call) == call.header = "own" /\ call.csrf = "own"

\* require(): 401 for nobody, 403 without a scope or a CSRF token.
Admitted(call, claims, db, wanted) ==
  LET principal == Authenticated(call, claims, db) IN
  /\ principal # Nobody
  /\ Permits(principal, wanted)
  /\ ~call.safe /\ principal.kind = "session" => ValidCsrf(call)

-----------------------------------------------------------------------------
(* What changes the rows *)

RevokeKey(db) == [db EXCEPT !.key.enabled = FALSE, !.key.revoked = TRUE]

\* logout() asks nobody's scopes, and the CSRF token only of a session it finds.
LoggedOut(call, db) ==
  IF call.cookie = "known" /\ ValidCsrf(call) THEN [db EXCEPT !.session.revoked = TRUE] ELSE db

\* login(): a session of its own, with its CSRF token.
LoggedIn(db) == [db EXCEPT !.session = [revoked |-> FALSE, expired |-> FALSE]]

-----------------------------------------------------------------------------
(* Correctness *)

\* The rights each credential has by the rows as they are, one line each.
Rights(call, claims, db) ==
  (IF call.key = "known" /\ ByKey(call, db) # Nobody THEN db.key.scopes ELSE {})
  \cup
  (IF db.user.is_active
      /\ \/ call.bearer /\ Verified(claims)
         \/ call.cookie = "known" /\ ~db.session.revoked /\ ~db.session.expired
   THEN RoleScopes(db.user.role) ELSE {})

\* A browser sends its cookies whoever wrote the page, but no header of ours.
FromAnotherSite(call) == call.key = "none" /\ ~call.bearer /\ call.header # "own"

\* No request is let in for more than one of its credentials is good for now,
\* whatever a token says of the past; no page of another site changes anything; a
\* key that was revoked and a session that logged out or whose user was switched
\* off are refused from the next request on, and logging in again mends the session.
CredentialsCountNow ==
  \A call \in Call, user \in User, session \in Session, key \in ApiKey :
    \A claims \in (IF call.bearer THEN Claims ELSE {NoClaims}) :
      LET db == [user |-> user, session |-> session, key |-> key]
          off == [db EXCEPT !.user.is_active = FALSE]
      IN  /\ \A wanted \in {{"read"}, {"ingest"}, {"editor", "admin"}, {"raw_audit"}} :
               Admitted(call, claims, db, wanted) =>
                 /\ Rights(call, claims, db) \cap (wanted \cup {"admin"}) # {}
                 /\ ~call.safe => ~FromAnotherSite(call)
          /\ LoggedOut(call, db) # db => ~FromAnotherSite(call)
          /\ Authenticated(call, claims, RevokeKey(db)).kind # "api_key"
          /\ Authenticated(call, claims, off).kind \in {"api_key", "nobody"}
          /\ ValidCsrf(call) => Authenticated(call, claims, LoggedOut(call, db)).kind # "session"
          /\ call.cookie = "known" /\ user.is_active => BySession(call, LoggedIn(db)) # Nobody
=============================================================================

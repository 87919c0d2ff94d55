--------------------------- MODULE AccessControl ---------------------------
(***************************************************************************)
(* Who a request acts for and what it may do: bridge/auth.ts and           *)
(* bridge/session.ts in the threads that run handlers.  The sessions are   *)
(* shared by all threads (see SessionStore); the roles a program registers *)
(* and the password reset tokens are kept by each thread for itself.  A    *)
(* handler's cookies leave with its answer, and are lost when it throws.   *)
(***************************************************************************)
EXTENDS Naturals, Sequences, FiniteSets, Functions

CONSTANTS
    Threads,
    Clients,          \* browsers; each logs in as the user of the same name
    Accounts,         \* the roles and claimed permissions sessions are made with
    Registered,       \* the roles and permissions the program may register
    MaxSessions, MaxTokens,
    MaxRegistrations, \* calls of _roles_register
    MaxRequests,
    MaxCookies,       \* cookies set by one handler
    Lifetime          \* of a reset token; the clock stops one tick after

VARIABLES
    sessions,     \* id -> user, role and claimed permissions
    lastSession,
    owner,        \* the client whose request created each session
    copies,       \* get() returns a copy of the session (a broker or Redis store)
    csrf,         \* the sessions that have a CSRF token, and those it was set for
    jar,          \* the session_id cookie of each client (0 = none)
    request,      \* the request a thread handles: its client and session id
    cookies,      \* state.response.cookies of a thread
    requests,
    registeredRoles, registrations,
    resetTokens,  \* the tokens each thread holds
    token,        \* every token made: its user, thread and expiry
    redeemed,     \* for whom a token was consumed, in order
    now

store == <<sessions, lastSession, owner, copies, csrf>>
exchange == <<jar, request, cookies, requests>>
roles == <<registeredRoles, registrations>>
tokens == <<resetTokens, token, redeemed, now>>
vars == <<store, exchange, roles, tokens>>

Sids == 1 .. MaxSessions
Toks == 1 .. MaxTokens
Roles == {"admin", "editor", "guest"} \cup {a.role : a \in Accounts \cup Registered}
Permissions == {"read", "delete", "publish"}
NoSession == [user |-> "", role |-> "", permissions |-> {}]
NoRequest == [client |-> "", sid |-> 0]
NoToken == [user |-> "", thread |-> "", expires |-> 0]

Init ==
    /\ sessions = [s \in {} |-> NoSession] /\ lastSession = 0 /\ owner = [s \in Sids |-> ""]
    /\ copies \in BOOLEAN /\ csrf = [kept |-> {}, set |-> {}]
    /\ jar = [c \in Clients |-> 0] /\ request = [t \in Threads |-> NoRequest]
    /\ cookies = [t \in Threads |-> <<>>] /\ requests = 0
    /\ registeredRoles = [t \in Threads |-> [r \in {} |-> {}]] /\ registrations = 0
    /\ resetTokens = [t \in Threads |-> {}] /\ token = [k \in Toks |-> NoToken]
    /\ redeemed = [k \in Toks |-> <<>>] /\ now = 0

-----------------------------------------------------------------------------
\* Each check reads the session of the request again.
getSession(t) ==
    IF request[t].sid \in DOMAIN sessions THEN sessions[request[t].sid] ELSE NoSession

_auth_require_auth(t) == getSession(t) # NoSession
_auth_check(t) == getSession(t) # NoSession
_session_exists(t) == getSession(t) # NoSession
_auth_user_id(t) == getSession(t).user
_auth_user_role(t) == getSession(t).role
_auth_user(t) == getSession(t)
_auth_get_session(t) == getSession(t)
_session_get(t) == getSession(t)
_session_user_id(t) == getSession(t).user
_session_role(t) == getSession(t).role
\* A claim is either the permissions or not there.
_session_claim(t, key) == IF key = "permissions" THEN getSession(t).permissions ELSE {}
_auth_is_admin(t) == getSession(t).role = "admin"
_auth_require_role(t, role) ==
    getSession(t) # NoSession /\ getSession(t).role \in {role, "admin"}
_auth_require_any_role(t, rs) ==
    getSession(t) # NoSession /\ getSession(t).role \in rs \cup {"admin"}
_auth_has_any_role(t, rs) ==
    getSession(t) # NoSession /\ getSession(t).role \in rs \cup {"admin"}
_auth_is_owner(t, user) ==
    getSession(t) # NoSession /\ (getSession(t).user = user \/ getSession(t).role = "admin")

_role_get_permissions(t, role) ==
    IF role \in DOMAIN registeredRoles[t] THEN registeredRoles[t][role] ELSE {}
_role_has_permission(t, role, p) == {"*", p} \cap _role_get_permissions(t, role) # {}

rolePermissions(role) ==
    CASE role = "admin" -> {"*"}
      [] role = "editor" -> {"read", "write", "edit", "delete"}
      [] role = "author" -> {"read", "write", "edit"}
      [] role = "user" -> {"read"}
      [] OTHER -> {}

\* The claims of the session, the registered role and the built-in one add up.
_auth_can(t, p) ==
    LET s == getSession(t)
    IN  /\ s # NoSession
        /\ \/ s.role = "admin"
           \/ p \in s.permissions
           \/ _role_has_permission(t, s.role, p)
           \/ {"*", p} \cap rolePermissions(s.role) # {}

-----------------------------------------------------------------------------
\* seeded fault: the cookies of the request before are still in the response
KeepCookies(t) == UNCHANGED cookies
\* setRequestContext starts with an empty response.
createDefaultResponse(t) == cookies' = [cookies EXCEPT ![t] = <<>>]

\* The cookie of the client names the session of the request.
Begin(t, c) ==
    /\ request[t] = NoRequest /\ requests < MaxRequests /\ requests' = requests + 1
    /\ request' = [request EXCEPT ![t] = [client |-> c, sid |-> jar[c]]]
    /\ createDefaultResponse(t)
    /\ UNCHANGED <<store, jar, roles, tokens>>

\* The last session_id cookie of the answer counts; one that is cleared is gone.
Return(t) ==
    /\ request[t] # NoRequest /\ request' = [request EXCEPT ![t] = NoRequest]
    /\ jar' = IF cookies[t] = <<>> THEN jar
              ELSE [jar EXCEPT ![request[t].client] = cookies[t][Len(cookies[t])]]
    /\ UNCHANGED <<store, cookies, requests, roles, tokens>>

Throw(t) ==
    /\ request[t] # NoRequest /\ request' = [request EXCEPT ![t] = NoRequest]
    /\ UNCHANGED <<store, jar, cookies, requests, roles, tokens>>

addResponseCookie(t, sid) ==
    /\ Len(cookies[t]) < MaxCookies
    /\ cookies' = [cookies EXCEPT ![t] = Append(@, sid)]

\* The session the request came with stays; only the answer's cookie replaces it.
createSession(t, role, claimed) ==
    /\ request[t] # NoRequest /\ lastSession < MaxSessions
    /\ lastSession' = lastSession + 1
    /\ sessions' = [s \in DOMAIN sessions \cup {lastSession'} |->
           IF s = lastSession'
           THEN [user |-> request[t].client, role |-> role, permissions |-> claimed]
           ELSE sessions[s]]
    /\ owner' = [owner EXCEPT ![lastSession'] = request[t].client]
    /\ addResponseCookie(t, lastSession')
    /\ UNCHANGED <<copies, csrf, jar, request, requests, roles, tokens>>

_auth_set_session(t, role, claimed) == createSession(t, role, claimed)
_session_create(t, role, claimed) == createSession(t, role, claimed)
_session_create_with_ttl(t, role, claimed) == createSession(t, role, claimed)

\* The cookie is cleared only when there was a session to destroy.
destroySession(t) ==
    /\ request[t].sid \in DOMAIN sessions
    /\ sessions' = Restrict(sessions, DOMAIN sessions \ {request[t].sid})
    /\ addResponseCookie(t, 0)
    /\ UNCHANGED <<lastSession, owner, copies, csrf, jar, request, requests, roles, tokens>>

_auth_clear_session(t) == destroySession(t)
_session_destroy(t) == destroySession(t)

\* The cookie goes, the session stays.
_http_delete_cookie(t) ==
    /\ request[t] # NoRequest
    /\ addResponseCookie(t, 0)
    /\ UNCHANGED <<store, jar, request, requests, roles, tokens>>

_session_extend(t) ==
    /\ request[t].sid \in DOMAIN sessions
    /\ addResponseCookie(t, request[t].sid)
    /\ UNCHANGED <<store, jar, request, requests, roles, tokens>>

\* The token is written into the session that get() has returned.
_session_set_csrf(t) ==
    /\ request[t].sid \in DOMAIN sessions
    /\ csrf' = [set |-> csrf.set \cup {request[t].sid},
                kept |-> IF copies THEN csrf.kept ELSE csrf.kept \cup {request[t].sid}]
    /\ UNCHANGED <<sessions, lastSession, owner, copies, exchange, roles, tokens>>

_session_get_csrf(t) == _session_exists(t) /\ request[t].sid \in csrf.kept

Expires(s) ==
    /\ s \in DOMAIN sessions /\ sessions' = Restrict(sessions, DOMAIN sessions \ {s})
    /\ UNCHANGED <<lastSession, owner, copies, csrf, exchange, roles, tokens>>

\* A role that is registered again is replaced, in this thread.
_roles_register(t, role, ps) ==
    /\ registrations < MaxRegistrations /\ registrations' = registrations + 1
    /\ registeredRoles' = [registeredRoles EXCEPT ![t] =
           [r \in DOMAIN @ \cup {role} |-> IF r = role THEN ps ELSE @[r]]]
    /\ UNCHANGED <<store, exchange, tokens>>

-----------------------------------------------------------------------------
Made == {k \in Toks : token[k] # NoToken}

sweepResetTokens(held) == {k \in held : token[k].expires > now}

_auth_create_reset_token(t) ==
    /\ request[t] # NoRequest /\ Made # Toks
    /\ LET k == Cardinality(Made) + 1
       IN  /\ token' = [token EXCEPT ![k] =
                  [user |-> request[t].client, thread |-> t, expires |-> now + Lifetime]]
           /\ resetTokens' = [resetTokens EXCEPT ![t] = sweepResetTokens(@) \cup {k}]
    /\ UNCHANGED <<store, exchange, roles, redeemed, now>>

\* The entry is deleted whether it has expired or not.
_auth_consume_reset_token(t, k) ==
    /\ request[t] # NoRequest /\ k \in resetTokens[t]
    /\ resetTokens' = [resetTokens EXCEPT ![t] = @ \ {k}]
    /\ redeemed' = IF token[k].expires <= now THEN redeemed
                   ELSE [redeemed EXCEPT ![k] = Append(@, [user |-> token[k].user, at |-> now])]
    /\ UNCHANGED <<store, exchange, roles, token, now>>

Tick ==
    /\ now <= Lifetime /\ Made # {} /\ now' = now + 1
    /\ UNCHANGED <<store, exchange, roles, resetTokens, token, redeemed>>

Next ==
    \/ Tick
    \/ \E s \in Sids : Expires(s)
    \/ \E t \in Threads :
          \/ Return(t) \/ Throw(t)
          \/ _auth_clear_session(t) \/ _session_destroy(t) \/ _session_extend(t)
          \/ _http_delete_cookie(t)
          \/ _session_set_csrf(t) \/ _auth_create_reset_token(t)
          \/ \E c \in Clients : Begin(t, c)
          \/ \E k \in Toks : _auth_consume_reset_token(t, k)
          \/ \E a \in Accounts :
                \/ _auth_set_session(t, a.role, a.permissions)
                \/ _session_create(t, a.role, a.permissions)
                \/ _session_create_with_ttl(t, a.role, a.permissions)
          \/ \E a \in Registered : _roles_register(t, a.role, a.permissions)

Spec == Init /\ [][Next]_vars

-----------------------------------------------------------------------------
TypeOK ==
    /\ DOMAIN sessions \subseteq Sids /\ lastSession \in 0 .. MaxSessions
    /\ jar \in [Clients -> 0 .. MaxSessions]
    /\ \A t \in Threads :
          /\ request[t].sid \in 0 .. MaxSessions
          /\ cookies[t] \in Seq(0 .. MaxSessions)
          /\ resetTokens[t] \subseteq Toks
    /\ now \in 0 .. Lifetime + 1

\* What the checks say of one request fits together: without a session all refuse,
\* an administrator passes all, asking for one role or for a set with only that
\* role is the same, and what the claims, the program or the built-in table give
\* to the session's role can be done.
ChecksAgree ==
    \A t \in Threads :
        LET s == getSession(t)
        IN  /\ (\/ _auth_is_admin(t)
                \/ \E r \in Roles : _auth_require_role(t, r)
                \/ \E u \in Clients : _auth_is_owner(t, u)
                \/ \E p \in Permissions : _auth_can(t, p)) => _auth_check(t)
            /\ _auth_is_admin(t) => \A r \in Roles : \A u \in Clients : \A p \in Permissions :
                   _auth_require_role(t, r) /\ _auth_is_owner(t, u) /\ _auth_can(t, p)
            /\ \A r \in Roles :
                   /\ _auth_require_any_role(t, {r}) = _auth_require_role(t, r)
                   /\ _auth_has_any_role(t, {r}) = _auth_require_role(t, r)
            /\ {_auth_require_auth(t), _session_exists(t)} = {_auth_check(t)}
            /\ {_auth_user(t), _auth_get_session(t), _session_get(t)} = {s}
            /\ _auth_user_role(t) = _session_role(t) /\ _auth_user_id(t) = _session_user_id(t)
            /\ \A p \in Permissions :
                   /\ _auth_check(t)
                   /\ \/ p \in _session_claim(t, "permissions")
                      \/ p \in rolePermissions(s.role)
                      \/ _role_has_permission(t, s.role, p)
                   => _auth_can(t, p)

\* The cookie of a client never names a session that a request of another client
\* has created, so that a request acts for the client who sent it or for nobody.
CookiesOwn ==
    /\ \A c \in Clients : jar[c] # 0 => owner[jar[c]] = c
    /\ \A t \in Threads : _auth_user_id(t) \in {"", request[t].client}

\* A reset token is redeemed once at most, in time, for the user it was made for;
\* until then it stays with the thread that made it.
TokensOnce ==
    \A k \in Made :
        /\ Len(redeemed[k]) <= 1
        /\ redeemed[k] # <<>> => /\ redeemed[k][1].user = token[k].user
                                 /\ redeemed[k][1].at < token[k].expires
        /\ (redeemed[k] = <<>> /\ now < token[k].expires) => k \in resetTokens[token[k].thread]

\* A CSRF token that was stored is read back as long as its session lives, when the
\* store is in the same thread; one that hands out copies loses it (see copies).
CsrfKept ==
    ~copies => \A t \in Threads :
        (_session_exists(t) /\ request[t].sid \in csrf.set) => _session_get_csrf(t)

AccessConsistent == ChecksAgree /\ CookiesOwn /\ TokensOnce /\ CsrfKept
=============================================================================

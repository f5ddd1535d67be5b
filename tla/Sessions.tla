------------------------------- MODULE Sessions -------------------------------
(***************************************************************************)
(* Sign-in, refresh tokens and acting as another user: src/src/auth and    *)
(* the refresh tokens of src/src/redis.                                    *)
(*                                                                         *)
(* A session is a chain of refresh tokens: refresh reads the payload       *)
(* stored under a token, deletes the token and stores the payload under a  *)
(* new one, with an await between each.  The scope of a session is what    *)
(* its payload says: the user, the school whose schema its requests go to, *)
(* the platform flags, and who is acting.                                  *)
(*                                                                         *)
(* scopeOf is the scope a session began with, as its access token has it;  *)
(* one that has expired and has no refresh token left is forgotten.  A     *)
(* school may be put under another network meanwhile (src/src/tenants):    *)
(* nothing that is stored with a session follows.                          *)
(*                                                                         *)
(* History variables, never read by the actions: ended, the sessions that  *)
(* were logged out; crossed, those two of whose requests overlapped;       *)
(* outdated, those whose school has changed its network since it was       *)
(* checked, and the field of that name in a sign-in under way.             *)
(***************************************************************************)
EXTENDS Requests

CONSTANTS
    SessionIds, Tokens,
    Schools, Networks,
    Nobody          \* an absent user, school or network, an unused token or session

\* A platform user is a superadmin, or the administrator of a network.
PlatformUsers == {"superadmin"} \cup Networks

Scope == [user: PlatformUsers \cup {"staff"}, school: Schools \cup {Nobody}, platform: BOOLEAN,
          super: BOOLEAN, network: Networks \cup {Nobody}, impersonator: PlatformUsers \cup {Nobody}]

ASSUME SessionsAssumption ==
    /\ Nobody \notin Schools \cup Networks \cup SessionIds \cup Scope
    /\ Networks \cap {"superadmin", "staff"} = {}

VARIABLES
    networkOf,      \* [Schools -> Networks \cup {Nobody}], the parent of a school
    refreshToken,   \* [Tokens -> [session: SessionIds, scope: Scope] \cup {Nobody}], in Redis
    scopeOf,        \* [SessionIds -> Scope \cup {Nobody}]
    ended, crossed, outdated

sessionsVars == <<req, networkOf, refreshToken, scopeOf, ended, crossed, outdated>>

-----------------------------------------------------------------------------
(* The scopes that are signed in with *)

NetworkOfUser(pu) == IF pu = "superadmin" THEN Nobody ELSE pu

staffScope(school) ==
    [user |-> "staff", school |-> school, platform |-> FALSE, super |-> FALSE,
     network |-> Nobody, impersonator |-> Nobody]

platformScope(pu) ==
    [user |-> pu, school |-> Nobody, platform |-> TRUE, super |-> pu = "superadmin",
     network |-> NetworkOfUser(pu), impersonator |-> Nobody]

\* A superadmin goes anywhere, a network's administrator to the schools of the network.
mayEnter(pu, school) == pu = "superadmin" \/ networkOf[school] = pu

schoolScope(pu, school) == [platformScope(pu) EXCEPT !.school = school]

impersonatedScope(pu, school) ==
    [staffScope(school) EXCEPT !.network = NetworkOfUser(pu), !.impersonator = pu]

\* Who may be acted as, where, by the owner of a session with scope sc.  The user of a
\* session inside a school is still the platform user.
mayImpersonate(sc, school) ==
    sc.platform /\ (sc.super \/ (networkOf[school] # Nobody /\ networkOf[school] = sc.network))

-----------------------------------------------------------------------------
Unused(t) == refreshToken[t] = Nobody

\* The session of a stored token.
Of(t) == refreshToken[t].session

Refreshing(s) == {w \in Workers : Pending(w, "refresh") /\ req[w].session = s}

\* Tokens that nobody has: a new one is random.
FreshTokens(ws) == {t \in Tokens : Unused(t) /\ \A v \in ws : Pending(v, "refresh") => req[v].token # t}

\* The last write of a sign-in stores its refresh token.
Issue(sc, stale) ==
    LET new == FreshTokens(Workers)
        begun == {s \in SessionIds : scopeOf[s] # Nobody}
        s == AnyOf(SessionIds \ begun)
    IN
    /\ SessionIds # begun /\ new # {}
    /\ refreshToken' = [refreshToken EXCEPT ![AnyOf(new)] = [session |-> s, scope |-> sc]]
    /\ scopeOf' = [scopeOf EXCEPT ![s] = sc]
    /\ outdated' = IF stale THEN outdated \cup {s} ELSE outdated
    /\ UNCHANGED <<networkOf, ended, crossed>>

SignIn(sc) == Issue(sc, FALSE) /\ UNCHANGED req

loginAsTenant == \E school \in Schools : SignIn(staffScope(school))

loginAsPlatformUser == \E pu \in PlatformUsers : SignIn(platformScope(pu))

stopImpersonation(from) ==
    /\ scopeOf[from] # Nobody /\ scopeOf[from].impersonator # Nobody
    /\ SignIn(platformScope(scopeOf[from].impersonator))

\* Into a school: its network is read first, the token stored some awaits later.
BeginEntry(w, sc) ==
    /\ Begin(w, [op |-> "enter", scope |-> sc, outdated |-> FALSE])
    /\ UNCHANGED <<networkOf, refreshToken, scopeOf, ended, crossed, outdated>>

loginNetworkAdminIntoSchool(w, pu, school) ==
    mayEnter(pu, school) /\ BeginEntry(w, schoolScope(pu, school))

\* With the access token of a session: a session of its own, beside the first.
impersonate(w, from, school) ==
    /\ scopeOf[from] # Nobody
    /\ mayImpersonate(scopeOf[from], school)
    /\ BeginEntry(w, impersonatedScope(scopeOf[from].user, school))

StoreEntry(w) ==
    /\ Pending(w, "enter")
    /\ Issue(req[w].scope, req[w].outdated)
    /\ Done(w)

\* TenantsService.update with another parent, or none.
moveSchool(school, parent) ==
    LET Touches(sc) == sc.school = school /\ sc.network # Nobody IN
    /\ networkOf[school] # parent
    /\ networkOf' = [networkOf EXCEPT ![school] = parent]
    /\ outdated' = outdated \cup {s \in SessionIds : scopeOf[s] # Nobody /\ Touches(scopeOf[s])}
    /\ req' = [w \in Workers |-> IF Pending(w, "enter") /\ Touches(req[w].scope)
                                 THEN [req[w] EXCEPT !.outdated = TRUE] ELSE req[w]]
    /\ UNCHANGED <<refreshToken, scopeOf, ended, crossed>>

-----------------------------------------------------------------------------
(* refresh and logout *)

BeginRefresh(w, t) ==
    /\ ~Unused(t)
    /\ Begin(w, [op |-> "refresh", step |-> "delete", token |-> t, session |-> Of(t),
                 scope |-> refreshToken[t].scope])
    /\ crossed' = IF Refreshing(Of(t)) = {} THEN crossed ELSE crossed \cup {Of(t)}
    /\ UNCHANGED <<networkOf, refreshToken, scopeOf, ended, outdated>>

\* Mutant: the token that was refreshed stays good.
KeepToken(w) ==
    /\ At(w, {"refresh"}, "delete") /\ Goto(w, "save")
    /\ UNCHANGED <<networkOf, refreshToken, scopeOf, ended, crossed, outdated>>

DeleteToken(w) ==
    /\ At(w, {"refresh"}, "delete")
    /\ refreshToken' = [refreshToken EXCEPT ![req[w].token] = Nobody]
    /\ Goto(w, "save")
    /\ UNCHANGED <<networkOf, scopeOf, ended, crossed, outdated>>

\* The payload that was read is stored again, every field of it, whatever has become of them.
SaveToken(w) ==
    LET new == FreshTokens(Others(w)) IN
    /\ At(w, {"refresh"}, "save") /\ new # {}
    /\ refreshToken' = [refreshToken EXCEPT ![AnyOf(new)] =
                          [session |-> req[w].session, scope |-> req[w].scope]]
    /\ Done(w)
    /\ UNCHANGED <<networkOf, scopeOf, ended, crossed, outdated>>

\* The process dies, or Redis does not answer: a token that was deleted is not replaced.
LoseSignIn(w) ==
    /\ req[w] # NoRequest /\ Done(w)
    /\ UNCHANGED <<networkOf, refreshToken, scopeOf, ended, crossed, outdated>>

\* logout deletes the token it is given, whether or not it is still the session's.
logout(t) ==
    /\ ~Unused(t)
    /\ refreshToken' = [refreshToken EXCEPT ![t] = Nobody]
    /\ ended' = ended \cup {Of(t)}
    /\ crossed' = IF Refreshing(Of(t)) = {} THEN crossed ELSE crossed \cup {Of(t)}
    /\ UNCHANGED <<req, networkOf, scopeOf, outdated>>

\* After REFRESH_TTL_SECONDS.
Expire(t) ==
    /\ ~Unused(t)
    /\ refreshToken' = [refreshToken EXCEPT ![t] = Nobody]
    /\ UNCHANGED <<req, networkOf, scopeOf, ended, crossed, outdated>>

\* A session without a refresh token is over when its access token has expired.
Forget(s) ==
    /\ scopeOf[s] # Nobody
    /\ \A t \in Tokens : ~Unused(t) => Of(t) # s
    /\ Refreshing(s) = {}
    /\ scopeOf' = [scopeOf EXCEPT ![s] = Nobody]
    /\ ended' = ended \ {s} /\ crossed' = crossed \ {s} /\ outdated' = outdated \ {s}
    /\ UNCHANGED <<req, networkOf, refreshToken>>

-----------------------------------------------------------------------------
SessionsInit ==
    /\ req = Idle
    /\ refreshToken = [t \in Tokens |-> Nobody]
    /\ scopeOf = [s \in SessionIds |-> Nobody]
    /\ networkOf \in [Schools -> Networks \cup {Nobody}]
    /\ ended = {} /\ crossed = {} /\ outdated = {}

SessionsNext ==
    \/ loginAsTenant
    \/ loginAsPlatformUser
    \/ \E from \in SessionIds : stopImpersonation(from)
    \/ \E school \in Schools, parent \in Networks \cup {Nobody} : moveSchool(school, parent)
    \/ \E w \in Workers :
          \/ \E school \in Schools :
                \/ \E pu \in PlatformUsers : loginNetworkAdminIntoSchool(w, pu, school)
                \/ \E from \in SessionIds : impersonate(w, from, school)
          \/ StoreEntry(w)
          \/ \E t \in Tokens : BeginRefresh(w, t)
          \/ DeleteToken(w)
          \/ SaveToken(w)
          \/ LoseSignIn(w)
    \/ \E t \in Tokens : logout(t) \/ Expire(t)
    \/ \E s \in SessionIds : Forget(s)

SessionsSpec == SessionsInit /\ [][SessionsNext]_sessionsVars

-----------------------------------------------------------------------------
RefreshRequest ==
    [op: {"refresh"}, step: {"delete", "save"}, token: Tokens, session: SessionIds, scope: Scope]

EntryRequest == [op: {"enter"}, scope: Scope, outdated: BOOLEAN]

\* Every variable keeps its type.
SessionsTypeOK ==
    /\ req \in [Workers -> RefreshRequest \cup EntryRequest \cup {NoRequest}]
    /\ networkOf \in [Schools -> Networks \cup {Nobody}]
    /\ refreshToken \in [Tokens -> [session: SessionIds, scope: Scope] \cup {Nobody}]
    /\ scopeOf \in [SessionIds -> Scope \cup {Nobody}]
    /\ ended \subseteq SessionIds /\ crossed \subseteq SessionIds /\ outdated \subseteq SessionIds

TokensOf(s) == {t \in Tokens : ~Unused(t) /\ Of(t) = s}

\* However often a session is refreshed it has one refresh token, or one refresh that is
\* about to store one, none after a logout, and the scope it began with: unless two of its
\* requests overlapped, when each refresh leaves a token and a logout may leave one.
SessionsRotate ==
    \A s \in SessionIds :
        /\ s \notin crossed =>
              /\ Cardinality(TokensOf(s))
                    + Cardinality({w \in Refreshing(s) : req[w].step = "save"}) <= 1
              /\ s \in ended => TokensOf(s) \cup Refreshing(s) = {}
        /\ \A t \in TokensOf(s) : refreshToken[t].scope = scopeOf[s]

\* A platform user who is not a superadmin is in a school, or acts as one of its users, only
\* as the administrator of the network that the session names, which is the school's own
\* unless the school has changed it since the session was let in: however the session was
\* reached, by signing in at the school, by acting and ending that, or from inside another.
ScopesStayInNetwork ==
    \A t \in Tokens : ~Unused(t) =>
        LET sc == refreshToken[t].scope
            actor == IF sc.impersonator # Nobody THEN sc.impersonator ELSE sc.user
        IN sc.school # Nobody /\ actor \in Networks =>
              /\ sc.network = actor /\ ~sc.super
              /\ networkOf[sc.school] = actor \/ Of(t) \in outdated

\* A session is one chain of refresh tokens, and was let into its user's network.
SessionsSound == SessionsRotate /\ ScopesStayInNetwork
=============================================================================

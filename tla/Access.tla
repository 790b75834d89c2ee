------------------------------- MODULE Access -------------------------------
(***************************************************************************)
(* Access to the API, for one user: password login and the email challenge *)
(* (AuthService.login, verifyMfa), federated login, refresh rotation,      *)
(* logout, accepting an invitation, the administrator's status update, the *)
(* permission cache in Redis and the authenticate middleware, which prefers *)
(* the cache to the claims of the access token.                            *)
(*                                                                         *)
(* Permissions are abstracted to a version: how many changes of the user's *)
(* role are committed.  A request is one slot; what it read stays in the   *)
(* slot while other requests run, until it writes.                         *)
(***************************************************************************)
EXTENDS Naturals, FiniteSets

CONSTANTS
  Tokens,         \* refresh tokens, numbered as they are issued; the access
                  \* token issued with one bears its number
  Slots,          \* requests in flight
  Kinds,          \* the requests this instance sends
  MaxChanges,     \* bound: role changes
  MaxChallenges,  \* bound: pending email challenges
  RedisMayFail,   \* whether a best-effort cache call may be lost
  None

AllKinds == {"login", "verify", "federated", "refresh", "logout", "accept",
             "status", "role", "presets", "request"}

Statuses == {"INVITED", "ACTIVE", "DISABLED"}

ASSUME AccessAssumption ==
  /\ Tokens \subseteq Nat
  /\ IsFiniteSet(Slots)
  /\ Kinds \subseteq AllKinds
  /\ MaxChanges \in Nat /\ MaxChallenges \in Nat
  /\ RedisMayFail \in BOOLEAN
  /\ None \notin Nat

VARIABLES
  status, hasPassword, inviteOpen,  \* the user's row
  challenges,   \* email challenges in Redis that are not verified yet
  permissions,  \* version of the role's permissions that is committed
  cache,        \* auth:permissions:<org>:<user>, the version it holds
  session,      \* refresh sessions
  parent,       \* the token whose refresh issued a token
  claims,       \* version in the access token issued with a token
  denied,       \* access tokens on the deny list
  slot          \* requests in flight

user == <<status, hasPassword, inviteOpen>>
tokens == <<session, parent, claims>>
vars == <<user, challenges, permissions, cache, tokens, denied, slot>>

---------------------------------------------------------------------------
(* Requests                                                                *)

Idle == [kind |-> "none", token |-> None, status |-> "ACTIVE", version |-> 0]

Request(kind, token, st, version) ==
  [kind |-> kind, token |-> token, status |-> st, version |-> version]

Begin(s, r) == slot[s] = Idle /\ slot' = [slot EXCEPT ![s] = r]

End(s, kind) == slot[s].kind = kind /\ slot' = [slot EXCEPT ![s] = Idle]

\* What a fire-and-forget cache write leaves: every error is swallowed.
BestEffort(value) == cache' \in IF RedisMayFail THEN {value, cache} ELSE {value}

---------------------------------------------------------------------------
(* Sessions                                                                *)

\* Seeded fault: the activation does not ask what the request had read.
MarkLoginSuccess_Fault(readStatus) == status' = "ACTIVE"

MarkLoginSuccess(readStatus) ==
  status' = IF readStatus = "INVITED" THEN "ACTIVE" ELSE status

Active(t) == session[t] = "active"

\* The sessions once `from`, if any, is revoked: by id, whatever it is by now.
Revoke(from) == [u \in Tokens |-> IF u = from THEN "revoked" ELSE session[u]]

\* The next token, with the permissions it claims; the one it replaces is gone.
NewSession(version, from) ==
  \E t \in Tokens :
    /\ session[t] = "unused" /\ \A u \in Tokens : u < t => session[u] # "unused"
    /\ session' = [Revoke(from) EXCEPT ![t] = "active"]
    /\ parent' = [parent EXCEPT ![t] = from]
    /\ claims' = [claims EXCEPT ![t] = version]

\* The transaction of issueSessionInTx: the session, and the cache filled from
\* what the request had read, before the commit.
IssueSession(readStatus, version, from) ==
  /\ MarkLoginSuccess(readStatus)
  /\ NewSession(version, from)
  /\ BestEffort(version)
  /\ UNCHANGED <<hasPassword, inviteOpen>>

\* A login with a password leaves a challenge; one verification consumes it.
Login ==
  /\ "login" \in Kinds
  /\ status # "DISABLED" /\ hasPassword
  /\ challenges < MaxChallenges
  /\ challenges' = challenges + 1
  /\ UNCHANGED <<user, permissions, cache, tokens, denied, slot>>

\* verifyMfa reads the user whatever its status.
StartVerify(s) ==
  /\ "verify" \in Kinds
  /\ challenges > 0
  /\ Begin(s, Request("verify", None, status, permissions))
  /\ UNCHANGED <<user, challenges, permissions, cache, tokens, denied>>

Verify(s) ==
  /\ End(s, "verify")
  /\ challenges > 0
  /\ challenges' = challenges - 1
  /\ IssueSession(slot[s].status, slot[s].version, None)
  /\ UNCHANGED <<permissions, denied>>

\* Another verification consumed the challenge, or it expired.
VerifyRejected(s) ==
  /\ End(s, "verify")
  /\ challenges = 0
  /\ UNCHANGED <<user, challenges, permissions, cache, tokens, denied>>

ChallengeExpires ==
  /\ challenges > 0
  /\ challenges' = challenges - 1
  /\ UNCHANGED <<user, permissions, cache, tokens, denied, slot>>

StartFederated(s) ==
  /\ "federated" \in Kinds
  /\ status # "DISABLED"
  /\ Begin(s, Request("federated", None, status, permissions))
  /\ UNCHANGED <<user, challenges, permissions, cache, tokens, denied>>

Federated(s) ==
  /\ End(s, "federated")
  /\ IssueSession(slot[s].status, slot[s].version, None)
  /\ UNCHANGED <<challenges, permissions, denied>>

\* Seeded fault: a revoked session is found as well.
StartRefresh_Fault(s, t) ==
  /\ "refresh" \in Kinds
  /\ session[t] # "unused"
  /\ status # "DISABLED"
  /\ Begin(s, Request("refresh", t, "ACTIVE", permissions))
  /\ UNCHANGED <<user, challenges, permissions, cache, tokens, denied>>

\* The session and the user are read before the transaction.
StartRefresh(s, t) ==
  /\ "refresh" \in Kinds
  /\ Active(t)
  /\ status # "DISABLED"
  /\ Begin(s, Request("refresh", t, "ACTIVE", permissions))
  /\ UNCHANGED <<user, challenges, permissions, cache, tokens, denied>>

\* The transaction revokes the session by id, whether or not it still is active.
Refresh(s) ==
  /\ End(s, "refresh")
  /\ IssueSession("ACTIVE", slot[s].version, slot[s].token)
  /\ UNCHANGED <<challenges, permissions, denied>>

\* No token is left in the model for the session to be issued.
OutOfTokens(s) ==
  /\ slot[s].kind \in {"verify", "federated", "refresh"}
  /\ \A t \in Tokens : session[t] # "unused"
  /\ slot' = [slot EXCEPT ![s] = Idle]
  /\ UNCHANGED <<user, challenges, permissions, cache, tokens, denied>>

StartLogout(s, t) ==
  /\ "logout" \in Kinds
  /\ session[t] # "unused"
  /\ session' = Revoke(t)
  /\ Begin(s, Request("logout", t, "ACTIVE", 0))
  /\ UNCHANGED <<user, challenges, permissions, cache, parent, claims, denied>>

Deny(t) == denied' = denied \cup {t}

Logout(s) ==
  /\ End(s, "logout")
  /\ Deny(slot[s].token)
  /\ BestEffort(None)
  /\ UNCHANGED <<user, challenges, permissions, tokens>>

---------------------------------------------------------------------------
(* The user's row                                                          *)

StartAccept(s) ==
  /\ "accept" \in Kinds
  /\ status = "INVITED" /\ inviteOpen
  /\ Begin(s, Request("accept", None, status, 0))
  /\ UNCHANGED <<user, challenges, permissions, cache, tokens, denied>>

AcceptInvite == status' = "ACTIVE" /\ hasPassword' = TRUE /\ inviteOpen' = FALSE

\* The password is hashed between the read and this update, which is by id.
Accept(s) ==
  /\ End(s, "accept")
  /\ AcceptInvite
  /\ BestEffort(None)
  /\ UNCHANGED <<challenges, permissions, tokens, denied>>

\* UserService.update: neither the cache nor the sessions hear of it.
UpdateStatus(new) ==
  /\ "status" \in Kinds
  /\ status' = new
  /\ UNCHANGED <<hasPassword, inviteOpen, challenges, permissions, cache, tokens, denied, slot>>

---------------------------------------------------------------------------
(* The role's permissions                                                  *)

RoleLocked == \E s \in Slots : slot[s].kind = "role"

\* updatePermissions holds the role's row and invalidates before it commits.
StartRole(s) ==
  /\ "role" \in Kinds
  /\ permissions < MaxChanges /\ ~RoleLocked
  /\ Begin(s, Request("role", None, "ACTIVE", 0))
  /\ BestEffort(None)
  /\ UNCHANGED <<user, challenges, permissions, tokens, denied>>

CommitRole(s) ==
  /\ End(s, "role")
  /\ permissions' \in {permissions, permissions + 1}   \* rolled back, or committed
  /\ UNCHANGED <<user, challenges, cache, tokens, denied>>

\* syncSystemPresets commits, then invalidates.
CommitPresets(s) ==
  /\ "presets" \in Kinds
  /\ permissions < MaxChanges /\ ~RoleLocked
  /\ permissions' = permissions + 1
  /\ Begin(s, Request("presets", None, "ACTIVE", 0))
  /\ UNCHANGED <<user, challenges, cache, tokens, denied>>

InvalidatePresets(s) ==
  /\ End(s, "presets")
  /\ BestEffort(None)
  /\ UNCHANGED <<user, challenges, permissions, tokens, denied>>

---------------------------------------------------------------------------
(* authenticate                                                            *)

\* The deny list lets every token through while Redis cannot be reached.
CheckToken(s, t) ==
  /\ "request" \in Kinds
  /\ session[t] # "unused"
  /\ t \notin denied \/ RedisMayFail
  /\ Begin(s, [kind |-> IF cache # None THEN "served" ELSE "miss", token |-> t,
               status |-> "ACTIVE",
               version |-> IF cache # None THEN cache ELSE claims[t]])
  /\ UNCHANGED <<user, challenges, permissions, cache, tokens, denied>>

\* Seeded fault: a miss is filled with what the access token claims.
ReadUser_Fault(s) ==
  /\ slot[s].kind = "miss"
  /\ slot' = [slot EXCEPT ![s].kind = "fill"]
  /\ UNCHANGED <<user, challenges, permissions, cache, tokens, denied>>

\* On a miss the user is read; a disabled one is served by its claims.
ReadUser(s) ==
  /\ slot[s].kind = "miss"
  /\ \/ /\ status = "DISABLED"
        /\ slot' = [slot EXCEPT ![s].kind = "served"]
     \/ /\ status # "DISABLED"
        /\ slot' = [slot EXCEPT ![s].kind = "fill", ![s].version = permissions]
  /\ UNCHANGED <<user, challenges, permissions, cache, tokens, denied>>

FillCache(s) ==
  /\ slot[s].kind = "fill"
  /\ BestEffort(slot[s].version)
  /\ slot' = [slot EXCEPT ![s].kind = "served"]
  /\ UNCHANGED <<user, challenges, permissions, tokens, denied>>

Serve(s) ==
  /\ End(s, "served")
  /\ UNCHANGED <<user, challenges, permissions, cache, tokens, denied>>

CacheExpires ==
  /\ cache # None
  /\ cache' = None
  /\ UNCHANGED <<user, challenges, permissions, tokens, denied, slot>>

---------------------------------------------------------------------------

\* An invited user, before its first login.
Init ==
  /\ status = "INVITED" /\ hasPassword = FALSE /\ inviteOpen = TRUE
  /\ challenges = 0 /\ permissions = 0 /\ cache = None
  /\ session = [t \in Tokens |-> "unused"]
  /\ parent = [t \in Tokens |-> None]
  /\ claims = [t \in Tokens |-> 0]
  /\ denied = {}
  /\ slot = [s \in Slots |-> Idle]

\* The rest of a request that started.
Proceeds(s) ==
  \/ Verify(s) \/ VerifyRejected(s) \/ Federated(s) \/ Refresh(s) \/ OutOfTokens(s)
  \/ Logout(s) \/ Accept(s) \/ CommitRole(s) \/ InvalidatePresets(s)
  \/ ReadUser(s) \/ FillCache(s) \/ Serve(s)

Arrives(s) ==
  \/ StartVerify(s) \/ StartFederated(s) \/ StartAccept(s)
  \/ StartRole(s) \/ CommitPresets(s)
  \/ \E t \in Tokens : StartRefresh(s, t) \/ StartLogout(s, t) \/ CheckToken(s, t)

Next ==
  \/ \E s \in Slots : Arrives(s) \/ Proceeds(s)
  \/ Login \/ ChallengeExpires \/ CacheExpires
  \/ \E new \in Statuses : UpdateStatus(new)

Spec == Init /\ [][Next]_vars

\* A request that started is answered, and the entry has a time to live.
FairSpec == Spec /\ WF_vars(CacheExpires) /\ \A s \in Slots : WF_vars(Proceeds(s))

---------------------------------------------------------------------------

\* The row, the Redis keys, the sessions and the requests stay in their types.
TypeOK ==
  /\ status \in Statuses /\ hasPassword \in BOOLEAN /\ inviteOpen \in BOOLEAN
  /\ challenges \in Nat /\ permissions \in Nat
  /\ cache \in Nat \cup {None}
  /\ session \in [Tokens -> {"unused", "active", "revoked"}]
  /\ parent \in [Tokens -> Tokens \cup {None}]
  /\ claims \in [Tokens -> Nat]
  /\ denied \subseteq Tokens
  /\ slot \in [Slots -> [kind : AllKinds \cup {"none", "miss", "fill", "served"},
                         token : Tokens \cup {None}, status : Statuses,
                         version : Nat]]

\* A refresh token is exchanged for more than one session only by requests
\* that all had read it before the first of them committed: never by more of
\* them than were in flight together (refresh revokes by id, outside the read).
ForksBounded ==
  \A t \in Tokens : Cardinality({u \in Tokens : parent[u] = t}) <= Cardinality(Slots)

\* A disabled account comes back only by the administrator's update, or by a
\* request that had read it as invited: no login, refresh or federated login of
\* an account that was active when it was read re-enables it.
DisabledStaysDisabled ==
  [][status = "DISABLED" /\ status' = "ACTIVE" =>
       \A s \in Slots : slot'[s] # slot[s] => slot[s].status = "INVITED"]_vars

\* Once the role changes no more, the cache ends up without the old permissions:
\* entries filled from an old read run out and nothing writes them back.
StaleEntriesExpire == <>[](cache \in {None, permissions})
=============================================================================

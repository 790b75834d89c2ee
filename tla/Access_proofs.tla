---------------------------- MODULE Access_proofs ----------------------------
(***************************************************************************)
(* Theorems about Access, for any number of tokens and requests in flight.  *)
(*                                                                          *)
(* The argument: a request writes the account's status only as its own read *)
(* allows - a session activates what was read as invited - and accepting an *)
(* invitation writes ACTIVE unconditionally, but only an account that was   *)
(* read as invited gets that far (AcceptReadInvited).  LogoutHasToken keeps  *)
(* the deny list a set of tokens.  A token is exchanged only by requests    *)
(* that read it while it was active, when it had no successor yet, and the   *)
(* first of them to commit revokes it: from then on each successor uses up   *)
(* one of the requests that still hold it (ForkInv).  Permissions are read  *)
(* as committed, so requests with old ones only become fewer (FreshSlot).   *)
(***************************************************************************)
EXTENDS Access, FiniteSetTheorems, TLAPS

RequestType ==
  [kind : AllKinds \cup {"none", "miss", "fill", "served"}, token : Tokens \cup {None},
   status : Statuses, version : Nat]

AcceptReadInvited == \A s \in Slots : slot[s].kind = "accept" => slot[s].status = "INVITED"

LogoutHasToken == \A s \in Slots : slot[s].kind = "logout" => slot[s].token \in Tokens

IInv == TypeOK /\ AcceptReadInvited /\ LogoutHasToken

LEMMA IdleIsRequest == Idle \in RequestType /\ Idle.kind \notin {"accept", "logout"}
BY AccessAssumption DEF Idle, RequestType, AllKinds, Statuses

LEMMA InitIInv == Init => IInv
<1> SUFFICES ASSUME Init PROVE IInv
  OBVIOUS
<1> USE AccessAssumption DEF Init
<1>1. status \in Statuses /\ hasPassword \in BOOLEAN /\ inviteOpen \in BOOLEAN
  BY DEF Statuses
<1>2. challenges \in Nat /\ permissions \in Nat /\ cache \in Nat \cup {None}
  OBVIOUS
<1>3. /\ session \in [Tokens -> {"unused", "active", "revoked"}]
      /\ parent \in [Tokens -> Tokens \cup {None}]
      /\ claims \in [Tokens -> Nat]
      /\ denied \subseteq Tokens
  OBVIOUS
<1>4. slot \in [Slots -> RequestType]
  BY IdleIsRequest
<1>5. AcceptReadInvited /\ LogoutHasToken
  BY IdleIsRequest DEF AcceptReadInvited, LogoutHasToken
<1> QED
  BY <1>1, <1>2, <1>3, <1>4, <1>5 DEF IInv, TypeOK, RequestType

\* What a step does to one slot keeps the slots in their types.
LEMMA SlotStep ==
  ASSUME IInv, NEW s \in Slots, NEW r \in RequestType,
         r.kind = "accept" => r.status = "INVITED",
         r.kind = "logout" => r.token \in Tokens,
         slot' = [slot EXCEPT ![s] = r]
  PROVE  slot' \in [Slots -> RequestType] /\ AcceptReadInvited' /\ LogoutHasToken'
BY DEF IInv, TypeOK, RequestType, AcceptReadInvited, LogoutHasToken

LEMMA BestEffortType ==
  ASSUME IInv, NEW value \in Nat \cup {None}, BestEffort(value)
  PROVE  cache' \in Nat \cup {None}
BY DEF BestEffort, IInv, TypeOK

\* A session is issued in the types, from what a slot has read.
LEMMA IssueSessionType ==
  ASSUME IInv, NEW readStatus \in Statuses, NEW version \in Nat,
         NEW from \in Tokens \cup {None}, IssueSession(readStatus, version, from)
  PROVE  /\ status' \in Statuses /\ hasPassword' \in BOOLEAN /\ inviteOpen' \in BOOLEAN
         /\ cache' \in Nat \cup {None}
         /\ session' \in [Tokens -> {"unused", "active", "revoked"}]
         /\ parent' \in [Tokens -> Tokens \cup {None}]
         /\ claims' \in [Tokens -> Nat]
<1>1. status' \in Statuses
  BY DEF IssueSession, MarkLoginSuccess, IInv, TypeOK, Statuses
<1>2. hasPassword' \in BOOLEAN /\ inviteOpen' \in BOOLEAN
  BY DEF IssueSession, IInv, TypeOK
<1>3. cache' \in Nat \cup {None}
  BY BestEffortType DEF IssueSession
<1>4. PICK t \in Tokens :
        /\ session' = [Revoke(from) EXCEPT ![t] = "active"]
        /\ parent' = [parent EXCEPT ![t] = from]
        /\ claims' = [claims EXCEPT ![t] = version]
  BY DEF IssueSession, NewSession
<1>5. Revoke(from) \in [Tokens -> {"unused", "active", "revoked"}]
  BY DEF Revoke, IInv, TypeOK
<1> QED
  BY <1>1, <1>2, <1>3, <1>4, <1>5 DEF IInv, TypeOK

---------------------------------------------------------------------------

LEMMA ArrivesIInv == ASSUME IInv, NEW s \in Slots, Arrives(s) PROVE IInv'
<1> USE AccessAssumption DEF user, tokens
<1>1. CASE StartVerify(s) \/ StartFederated(s)
  <2>1. PICK kind \in {"verify", "federated"} :
          slot' = [slot EXCEPT ![s] = Request(kind, None, status, permissions)]
    BY <1>1 DEF StartVerify, StartFederated, Begin
  <2>2. /\ Request(kind, None, status, permissions) \in RequestType
        /\ Request(kind, None, status, permissions).kind \notin {"accept", "logout"}
    BY <2>1 DEF Request, RequestType, AllKinds, IInv, TypeOK
  <2> QED
    BY <1>1, <2>1, <2>2, SlotStep DEF StartVerify, StartFederated, IInv, TypeOK, RequestType
<1>2. CASE StartAccept(s)
  <2>1. slot' = [slot EXCEPT ![s] = Request("accept", None, "INVITED", 0)]
    BY <1>2 DEF StartAccept, Begin
  <2>2. /\ Request("accept", None, "INVITED", 0) \in RequestType
        /\ Request("accept", None, "INVITED", 0).kind = "accept"
        /\ Request("accept", None, "INVITED", 0).status = "INVITED"
    BY DEF Request, RequestType, AllKinds, Statuses
  <2> QED
    BY <1>2, <2>1, <2>2, SlotStep DEF StartAccept, IInv, TypeOK, RequestType
<1>3. CASE StartRole(s) \/ CommitPresets(s)
  <2>1. PICK kind \in {"role", "presets"} :
          slot' = [slot EXCEPT ![s] = Request(kind, None, "ACTIVE", 0)]
    BY <1>3 DEF StartRole, CommitPresets, Begin
  <2>2. /\ Request(kind, None, "ACTIVE", 0) \in RequestType
        /\ Request(kind, None, "ACTIVE", 0).kind \notin {"accept", "logout"}
    BY <2>1 DEF Request, RequestType, AllKinds, Statuses
  <2>3. slot' \in [Slots -> RequestType] /\ AcceptReadInvited' /\ LogoutHasToken'
    BY <2>1, <2>2, SlotStep
  <2>4. cache' \in Nat \cup {None}
    BY <1>3, BestEffortType DEF StartRole, CommitPresets, IInv, TypeOK
  <2>5. permissions' \in Nat
    BY <1>3 DEF StartRole, CommitPresets, IInv, TypeOK
  <2> QED
    BY <1>3, <2>3, <2>4, <2>5 DEF StartRole, CommitPresets, IInv, TypeOK, RequestType
<1>4. CASE \E t \in Tokens : StartRefresh(s, t)
  <2>1. PICK t \in Tokens : StartRefresh(s, t)
    BY <1>4
  <2>2. /\ Request("refresh", t, "ACTIVE", permissions) \in RequestType
        /\ Request("refresh", t, "ACTIVE", permissions).kind \notin {"accept", "logout"}
    BY DEF Request, RequestType, AllKinds, Statuses, IInv, TypeOK
  <2>3. slot' \in [Slots -> RequestType] /\ AcceptReadInvited' /\ LogoutHasToken'
    BY <2>1, <2>2, SlotStep DEF StartRefresh, Begin
  <2> QED
    BY <2>1, <2>3 DEF StartRefresh, IInv, TypeOK, RequestType
<1>5. CASE \E t \in Tokens : StartLogout(s, t)
  <2>1. PICK t \in Tokens : StartLogout(s, t)
    BY <1>5
  <2>2. /\ Request("logout", t, "ACTIVE", 0) \in RequestType
        /\ Request("logout", t, "ACTIVE", 0).kind = "logout"
        /\ Request("logout", t, "ACTIVE", 0).token = t
    BY DEF Request, RequestType, AllKinds, Statuses
  <2>3. slot' \in [Slots -> RequestType] /\ AcceptReadInvited' /\ LogoutHasToken'
    BY <2>1, <2>2, SlotStep DEF StartLogout, Begin
  <2>4. session' \in [Tokens -> {"unused", "active", "revoked"}]
    BY <2>1 DEF StartLogout, Revoke, IInv, TypeOK
  <2> QED
    BY <2>1, <2>3, <2>4 DEF StartLogout, IInv, TypeOK, RequestType
<1>6. CASE \E t \in Tokens : CheckToken(s, t)
  <2>1. PICK t \in Tokens : CheckToken(s, t)
    BY <1>6
  <2>2. PICK r \in RequestType : slot' = [slot EXCEPT ![s] = r] /\ r.kind \notin {"accept", "logout"}
    <3> DEFINE kind == IF cache # None THEN "served" ELSE "miss"
               held == IF cache # None THEN cache ELSE claims[t]
    <3>1. held \in Nat
      BY DEF IInv, TypeOK
    <3>2. [kind |-> kind, token |-> t, status |-> "ACTIVE", version |-> held] \in RequestType
      BY <3>1 DEF RequestType, Statuses
    <3> QED
      BY <2>1, <3>2 DEF CheckToken, Begin
  <2>3. slot' \in [Slots -> RequestType] /\ AcceptReadInvited' /\ LogoutHasToken'
    BY <2>2, SlotStep
  <2> QED
    BY <2>1, <2>3 DEF CheckToken, IInv, TypeOK, RequestType
<1> QED
  BY <1>1, <1>2, <1>3, <1>4, <1>5, <1>6 DEF Arrives

LEMMA ProceedsIInv == ASSUME IInv, NEW s \in Slots, Proceeds(s) PROVE IInv'
<1> USE DEF user, tokens
<1>a. slot[s] \in RequestType
  BY DEF IInv, TypeOK, RequestType
<1>b. slot' = [slot EXCEPT ![s] = Idle] => slot' \in [Slots -> RequestType] /\ AcceptReadInvited' /\ LogoutHasToken'
  BY SlotStep, IdleIsRequest
<1>1. CASE Verify(s) \/ Federated(s) \/ Refresh(s)
  <2>1. PICK readStatus \in Statuses, from \in Tokens \cup {None} :
          IssueSession(readStatus, slot[s].version, from)
    BY <1>a, <1>1 DEF Verify, Federated, Refresh, RequestType, Statuses
  <2>2. /\ status' \in Statuses /\ hasPassword' \in BOOLEAN /\ inviteOpen' \in BOOLEAN
        /\ cache' \in Nat \cup {None}
        /\ session' \in [Tokens -> {"unused", "active", "revoked"}]
        /\ parent' \in [Tokens -> Tokens \cup {None}]
        /\ claims' \in [Tokens -> Nat]
    BY <1>a, <2>1, IssueSessionType DEF RequestType
  <2>3. slot' \in [Slots -> RequestType] /\ AcceptReadInvited' /\ LogoutHasToken'
    BY <1>b, <1>1 DEF Verify, Federated, Refresh, End
  <2>4. challenges' \in Nat /\ permissions' = permissions /\ denied' = denied
    BY <1>1 DEF Verify, Federated, Refresh, IInv, TypeOK
  <2> QED
    BY <2>2, <2>3, <2>4 DEF IInv, TypeOK, RequestType
<1>2. CASE VerifyRejected(s) \/ OutOfTokens(s) \/ Serve(s)
  <2>1. slot' \in [Slots -> RequestType] /\ AcceptReadInvited' /\ LogoutHasToken'
    BY <1>b, <1>2 DEF VerifyRejected, OutOfTokens, Serve, End
  <2> QED
    BY <1>2, <2>1 DEF VerifyRejected, OutOfTokens, Serve, IInv, TypeOK, RequestType
<1>3. CASE Logout(s)
  <2>1. slot' \in [Slots -> RequestType] /\ AcceptReadInvited' /\ LogoutHasToken'
    BY <1>b, <1>3 DEF Logout, End
  <2>2. cache' \in Nat \cup {None}
    BY <1>3, BestEffortType DEF Logout
  <2>3. denied' \subseteq Tokens
    BY <1>3 DEF Logout, Deny, End, IInv, TypeOK, LogoutHasToken
  <2> QED
    BY <1>3, <2>1, <2>2, <2>3 DEF Logout, IInv, TypeOK, RequestType
<1>4. CASE Accept(s)
  <2>1. slot' \in [Slots -> RequestType] /\ AcceptReadInvited' /\ LogoutHasToken'
    BY <1>b, <1>4 DEF Accept, End
  <2>2. cache' \in Nat \cup {None}
    BY <1>4, BestEffortType DEF Accept
  <2>3. status' \in Statuses
    BY <1>4 DEF Accept, AcceptInvite, Statuses
  <2>4. hasPassword' \in BOOLEAN /\ inviteOpen' \in BOOLEAN
    BY <1>4 DEF Accept, AcceptInvite
  <2>5. UNCHANGED <<challenges, permissions, tokens, denied>>
    BY <1>4 DEF Accept
  <2> QED
    BY <2>1, <2>2, <2>3, <2>4, <2>5 DEF IInv, TypeOK, RequestType
<1>5. CASE CommitRole(s) \/ InvalidatePresets(s)
  <2>1. slot' \in [Slots -> RequestType] /\ AcceptReadInvited' /\ LogoutHasToken'
    BY <1>b, <1>5 DEF CommitRole, InvalidatePresets, End
  <2>2. cache' \in Nat \cup {None}
    <3>1. CASE CommitRole(s)
      BY <3>1 DEF CommitRole, IInv, TypeOK
    <3>2. CASE InvalidatePresets(s)
      BY <3>2, BestEffortType DEF InvalidatePresets
    <3> QED
      BY <1>5, <3>1, <3>2
  <2>3. permissions' \in Nat
    BY <1>5 DEF CommitRole, InvalidatePresets, IInv, TypeOK
  <2> QED
    BY <1>5, <2>1, <2>2, <2>3 DEF CommitRole, InvalidatePresets, IInv, TypeOK, RequestType
<1>6. CASE ReadUser(s)
  <2>1. PICK r \in RequestType : slot' = [slot EXCEPT ![s] = r] /\ r.kind \notin {"accept", "logout"}
    <3> DEFINE served == [slot[s] EXCEPT !.kind = "served"]
               fill == [slot[s] EXCEPT !.kind = "fill", !.version = permissions]
    <3>1. served \in RequestType /\ fill \in RequestType
      BY <1>a DEF RequestType, IInv, TypeOK
    <3>2. served.kind \notin {"accept", "logout"} /\ fill.kind \notin {"accept", "logout"}
      BY <1>a DEF RequestType
    <3>3. slot' = [slot EXCEPT ![s] = served] \/ slot' = [slot EXCEPT ![s] = fill]
      BY <1>6 DEF ReadUser
    <3> QED
      BY <3>1, <3>2, <3>3
  <2>2. slot' \in [Slots -> RequestType] /\ AcceptReadInvited' /\ LogoutHasToken'
    BY <2>1, SlotStep
  <2> QED
    BY <1>6, <2>2 DEF ReadUser, IInv, TypeOK, RequestType
<1>7. CASE FillCache(s)
  <2> DEFINE served == [slot[s] EXCEPT !.kind = "served"]
  <2>1. served \in RequestType /\ served.kind \notin {"accept", "logout"}
    BY <1>a DEF RequestType
  <2>2. slot' = [slot EXCEPT ![s] = served]
    BY <1>7 DEF FillCache
  <2>3. slot' \in [Slots -> RequestType] /\ AcceptReadInvited' /\ LogoutHasToken'
    BY <2>1, <2>2, SlotStep
  <2>4. slot[s].version \in Nat
    BY <1>a DEF RequestType
  <2>5. cache' \in Nat \cup {None}
    BY <1>7, <2>4, BestEffortType DEF FillCache
  <2> QED
    BY <1>7, <2>3, <2>5 DEF FillCache, IInv, TypeOK, RequestType
<1> QED
  BY <1>1, <1>2, <1>3, <1>4, <1>5, <1>6, <1>7 DEF Proceeds

LEMMA NextIInv == IInv /\ [Next]_vars => IInv'
<1> SUFFICES ASSUME IInv, [Next]_vars PROVE IInv'
  OBVIOUS
<1>1. CASE \E s \in Slots : Arrives(s) \/ Proceeds(s)
  BY <1>1, ArrivesIInv, ProceedsIInv
<1>2. CASE Login \/ ChallengeExpires
  BY <1>2 DEF Login, ChallengeExpires, IInv, TypeOK, AcceptReadInvited, LogoutHasToken, user, tokens
<1>3. CASE CacheExpires
  BY <1>3 DEF CacheExpires, IInv, TypeOK, AcceptReadInvited, LogoutHasToken, user, tokens
<1>4. CASE \E new \in Statuses : UpdateStatus(new)
  BY <1>4 DEF UpdateStatus, IInv, TypeOK, AcceptReadInvited, LogoutHasToken, user, tokens
<1>5. CASE UNCHANGED vars
  BY <1>5 DEF vars, user, tokens, IInv, TypeOK, AcceptReadInvited, LogoutHasToken
<1> QED
  BY <1>1, <1>2, <1>3, <1>4, <1>5 DEF Next

\* The rows, the Redis keys, the sessions and the requests stay in their types.
THEOREM TypeCorrect == Spec => []TypeOK
<1>1. IInv => TypeOK
  BY DEF IInv
<1> QED
  BY <1>1, InitIInv, NextIInv, PTL DEF Spec

---------------------------------------------------------------------------

\* One step that makes a disabled account active is a request that had read the
\* account as invited, or moves no request at all (the administrator's update).
LEMMA ReenablingStep ==
  ASSUME IInv, Next, status = "DISABLED", status' = "ACTIVE",
         NEW s \in Slots, slot'[s] # slot[s]
  PROVE  slot[s].status = "INVITED"
<1> USE DEF user, tokens
<1>1. CASE \E r \in Slots : Arrives(r)
  BY <1>1 DEF Arrives, StartVerify, StartFederated, StartAccept, StartRole, CommitPresets,
              StartRefresh, StartLogout, CheckToken
<1>2. ASSUME NEW r \in Slots, Proceeds(r) PROVE slot[s].status = "INVITED"
  <2>1. CASE Verify(r) \/ Federated(r)
    <3>1. slot[r].status = "INVITED"
      BY <2>1 DEF Verify, Federated, IssueSession, MarkLoginSuccess
    <3>2. slot' = [slot EXCEPT ![r] = Idle]
      BY <2>1 DEF Verify, Federated, End
    <3> QED
      BY <3>1, <3>2 DEF IInv, TypeOK
  <2>2. CASE Refresh(r)
    BY <2>2 DEF Refresh, IssueSession, MarkLoginSuccess
  <2>3. CASE Accept(r)
    <3>1. slot[r].status = "INVITED"
      BY <2>3 DEF Accept, End, IInv, AcceptReadInvited
    <3>2. slot' = [slot EXCEPT ![r] = Idle]
      BY <2>3 DEF Accept, End
    <3> QED
      BY <3>1, <3>2 DEF IInv, TypeOK
  <2>4. CASE \/ VerifyRejected(r) \/ OutOfTokens(r) \/ Logout(r) \/ CommitRole(r)
             \/ InvalidatePresets(r) \/ ReadUser(r) \/ FillCache(r) \/ Serve(r)
    BY <2>4 DEF VerifyRejected, OutOfTokens, Logout, CommitRole, InvalidatePresets, ReadUser,
                FillCache, Serve
  <2> QED
    BY <1>2, <2>1, <2>2, <2>3, <2>4 DEF Proceeds
<1>3. CASE Login \/ ChallengeExpires \/ CacheExpires \/ \E new \in Statuses : UpdateStatus(new)
  BY <1>3 DEF Login, ChallengeExpires, CacheExpires, UpdateStatus
<1> QED
  BY <1>1, <1>2, <1>3 DEF Next

ReenabledAsInvited ==
  status = "DISABLED" /\ status' = "ACTIVE" =>
    \A s \in Slots : slot'[s] # slot[s] => slot[s].status = "INVITED"

LEMMA NextReenables == IInv /\ [Next]_vars => ReenabledAsInvited
<1>1. CASE Next
  BY <1>1, ReenablingStep DEF ReenabledAsInvited
<1>2. CASE UNCHANGED vars
  BY <1>2 DEF vars, user, ReenabledAsInvited
<1> QED
  BY <1>1, <1>2

\* A disabled account comes back only by the administrator's update or by a
\* request that had read it as invited (markLoginSuccess, acceptInvite).
THEOREM DisabledStaysDisabledAlways == Spec => DisabledStaysDisabled
<1>1. IInv /\ [Next]_vars =>
        [status = "DISABLED" /\ status' = "ACTIVE" =>
           \A s \in Slots : slot'[s] # slot[s] => slot[s].status = "INVITED"]_vars
  BY NextReenables DEF ReenabledAsInvited
<1> QED
  BY <1>1, InitIInv, NextIInv, PTL DEF Spec, DisabledStaysDisabled

---------------------------------------------------------------------------

Forks(t) == {u \in Tokens : parent[u] = t}

\* The refreshes that hold a token they have read.
Pending(t) == {s \in Slots : slot[s].kind = "refresh" /\ slot[s].token = t}

RefreshHoldsIssued ==
  \A s \in Slots : slot[s].kind = "refresh" =>
    slot[s].token \in Tokens /\ session[slot[s].token] # "unused"

UnissuedHasNoParent == \A t \in Tokens : session[t] = "unused" => parent[t] = None

ForkInv ==
  \A t \in Tokens :
    /\ IsFiniteSet(Forks(t))
    /\ session[t] # "revoked" => Forks(t) = {}
    /\ Cardinality(Forks(t)) + Cardinality(Pending(t)) <= Cardinality(Slots)

RotationInv == RefreshHoldsIssued /\ UnissuedHasNoParent /\ ForkInv

LEMMA PendingFinite ==
  ASSUME NEW t
  PROVE  /\ IsFiniteSet(Pending(t)) /\ IsFiniteSet(Pending(t)')
         /\ Cardinality(Pending(t)) \in Nat /\ Cardinality(Pending(t)') \in Nat
         /\ Cardinality(Pending(t)') <= Cardinality(Slots) /\ Cardinality(Slots) \in Nat
<1>1. IsFiniteSet(Slots) /\ Pending(t) \in SUBSET Slots /\ Pending(t)' \in SUBSET Slots
  BY AccessAssumption DEF Pending
<1> QED
  BY <1>1, FS_Subset, FS_CardinalityType

\* A step that issues no session and starts no refresh.
LEMMA NoSuccessor ==
  ASSUME IInv, RotationInv, parent' = parent,
         \A t \in Tokens : /\ session'[t] = "unused" => session[t] = "unused"
                           /\ session[t] # session'[t] => session'[t] = "revoked",
         \A s \in Slots : slot'[s].kind = "refresh" => slot'[s] = slot[s]
  PROVE  RotationInv'
<1>1. RefreshHoldsIssued'
  BY DEF RotationInv, RefreshHoldsIssued
<1>2. UnissuedHasNoParent'
  BY DEF RotationInv, UnissuedHasNoParent
<1>3. ASSUME NEW t \in Tokens
      PROVE  /\ IsFiniteSet(Forks(t)')
             /\ session'[t] # "revoked" => Forks(t)' = {}
             /\ Cardinality(Forks(t)') + Cardinality(Pending(t)') <= Cardinality(Slots)
  <2>1. Forks(t)' = Forks(t)
    BY DEF Forks
  <2>2. /\ IsFiniteSet(Forks(t))
        /\ session[t] # "revoked" => Forks(t) = {}
        /\ Cardinality(Forks(t)) + Cardinality(Pending(t)) <= Cardinality(Slots)
    BY DEF RotationInv, ForkInv
  <2>3. Pending(t)' \in SUBSET Pending(t)
    BY DEF Pending
  <2>4. Cardinality(Pending(t)') <= Cardinality(Pending(t))
    BY <2>3, PendingFinite, FS_Subset
  <2>5. Cardinality(Forks(t)) \in Nat
    BY <2>2, FS_CardinalityType
  <2>6. Cardinality(Forks(t)) + Cardinality(Pending(t)') <= Cardinality(Slots)
    BY <2>2, <2>4, <2>5, PendingFinite
  <2> QED
    BY <2>1, <2>2, <2>6
<1> QED
  BY <1>1, <1>2, <1>3 DEF RotationInv, ForkInv

\* A refresh starts on an active token, which has no successor.
LEMMA RefreshStarts ==
  ASSUME IInv, RotationInv, NEW s \in Slots, NEW t \in Tokens, StartRefresh(s, t)
  PROVE  RotationInv'
<1> USE DEF tokens
<1>1. slot' = [slot EXCEPT ![s] = Request("refresh", t, "ACTIVE", permissions)]
      /\ session' = session /\ parent' = parent /\ session[t] = "active"
  BY DEF StartRefresh, Begin, Active
<1>2. RefreshHoldsIssued' /\ UnissuedHasNoParent'
  BY <1>1 DEF RotationInv, RefreshHoldsIssued, UnissuedHasNoParent, Request, IInv, TypeOK
<1>3. ASSUME NEW v \in Tokens
      PROVE  /\ IsFiniteSet(Forks(v)')
             /\ session'[v] # "revoked" => Forks(v)' = {}
             /\ Cardinality(Forks(v)') + Cardinality(Pending(v)') <= Cardinality(Slots)
  <2>1. Forks(v)' = Forks(v)
    BY <1>1 DEF Forks
  <2>2. /\ IsFiniteSet(Forks(v))
        /\ session[v] # "revoked" => Forks(v) = {}
        /\ Cardinality(Forks(v)) + Cardinality(Pending(v)) <= Cardinality(Slots)
    BY DEF RotationInv, ForkInv
  <2>3. CASE v = t
    <3>1. Forks(v) = {}
      BY <1>1, <2>2, <2>3
    <3>2. Cardinality(Forks(v)') = 0 /\ IsFiniteSet(Forks(v)')
      BY <2>1, <3>1, FS_EmptySet
    <3>3. Cardinality(Forks(v)') + Cardinality(Pending(v)') <= Cardinality(Slots)
      BY <3>2, PendingFinite
    <3> QED
      BY <2>1, <3>1, <3>2, <3>3
  <2>4. CASE v # t
    <3>1. Pending(v)' \in SUBSET Pending(v)
      BY <1>1, <2>4 DEF Pending, Request, IInv, TypeOK
    <3>2. Cardinality(Pending(v)') <= Cardinality(Pending(v))
      BY <3>1, PendingFinite, FS_Subset
    <3>3. Cardinality(Forks(v)) \in Nat
      BY <2>2, FS_CardinalityType
    <3>4. Cardinality(Forks(v)) + Cardinality(Pending(v)') <= Cardinality(Slots)
      BY <2>2, <3>2, <3>3, PendingFinite
    <3> QED
      BY <1>1, <2>1, <2>2, <3>4
  <2> QED
    BY <2>3, <2>4
<1> QED
  BY <1>2, <1>3 DEF RotationInv, ForkInv

\* A session that replaces none: no token gets a successor.
LEMMA LoginIssues ==
  ASSUME IInv, RotationInv, NEW version, NewSession(version, None),
         \A s \in Slots : slot'[s].kind = "refresh" => slot'[s] = slot[s]
  PROVE  RotationInv'
<1>0. None \notin Tokens
  BY AccessAssumption
<1>1. PICK t \in Tokens :
        /\ session[t] = "unused"
        /\ session' = [Revoke(None) EXCEPT ![t] = "active"]
        /\ parent' = [parent EXCEPT ![t] = None]
  BY DEF NewSession
<1>2. Revoke(None) = session
  BY <1>0 DEF Revoke, IInv, TypeOK
<1>3. parent' = parent
  BY <1>1 DEF RotationInv, UnissuedHasNoParent, IInv, TypeOK
<1>4. session' = [session EXCEPT ![t] = "active"]
  BY <1>1, <1>2
<1>5. RefreshHoldsIssued' /\ UnissuedHasNoParent'
  BY <1>3, <1>4 DEF RotationInv, RefreshHoldsIssued, UnissuedHasNoParent, IInv, TypeOK
<1>6. ASSUME NEW v \in Tokens
      PROVE  /\ IsFiniteSet(Forks(v)')
             /\ session'[v] # "revoked" => Forks(v)' = {}
             /\ Cardinality(Forks(v)') + Cardinality(Pending(v)') <= Cardinality(Slots)
  <2>1. Forks(v)' = Forks(v)
    BY <1>3 DEF Forks
  <2>2. /\ IsFiniteSet(Forks(v))
        /\ session[v] # "revoked" => Forks(v) = {}
        /\ Cardinality(Forks(v)) + Cardinality(Pending(v)) <= Cardinality(Slots)
    BY DEF RotationInv, ForkInv
  <2>3. Pending(v)' \in SUBSET Pending(v)
    BY DEF Pending
  <2>4. Cardinality(Pending(v)') <= Cardinality(Pending(v))
    BY <2>3, PendingFinite, FS_Subset
  <2>5. Cardinality(Forks(v)) \in Nat
    BY <2>2, FS_CardinalityType
  <2>6. Cardinality(Forks(v)) + Cardinality(Pending(v)') <= Cardinality(Slots)
    BY <2>2, <2>4, <2>5, PendingFinite
  <2>7. session'[v] # "revoked" => session[v] # "revoked"
    BY <1>1, <1>4 DEF IInv, TypeOK
  <2> QED
    BY <2>1, <2>2, <2>6, <2>7
<1> QED
  BY <1>5, <1>6 DEF RotationInv, ForkInv

\* A refresh that commits turns one holder of the token into one successor.
LEMMA RefreshCommits ==
  ASSUME IInv, RotationInv, NEW s \in Slots, Refresh(s)
  PROVE  RotationInv'
<1> DEFINE from == slot[s].token
<1>0. from \in Tokens /\ session[from] # "unused" /\ slot[s].kind = "refresh"
  BY DEF Refresh, End, RotationInv, RefreshHoldsIssued
<1>1. slot' = [slot EXCEPT ![s] = Idle]
  BY DEF Refresh, End
<1>2. PICK t \in Tokens :
        /\ session[t] = "unused"
        /\ session' = [Revoke(from) EXCEPT ![t] = "active"]
        /\ parent' = [parent EXCEPT ![t] = from]
  BY DEF Refresh, IssueSession, NewSession
<1>3. /\ t # from /\ parent[t] = None /\ None \notin Tokens
      /\ session'[from] = "revoked"
      /\ \A v \in Tokens \ {t, from} : session'[v] = session[v]
      /\ session'[t] = "active"
      /\ \A v \in Tokens \ {t} : parent'[v] = parent[v]
      /\ parent'[t] = from
  BY <1>0, <1>2, AccessAssumption DEF Revoke, RotationInv, UnissuedHasNoParent, IInv, TypeOK
<1>4. \A r \in Slots : slot'[r].kind = "refresh" => slot'[r] = slot[r] /\ r # s
  BY <1>1 DEF Idle, IInv, TypeOK
<1> HIDE DEF from
<1>5. RefreshHoldsIssued'
  BY <1>3, <1>4 DEF RotationInv, RefreshHoldsIssued
<1>6. UnissuedHasNoParent'
  BY <1>3 DEF RotationInv, UnissuedHasNoParent
<1>7. ASSUME NEW v \in Tokens
      PROVE  /\ IsFiniteSet(Forks(v)')
             /\ session'[v] # "revoked" => Forks(v)' = {}
             /\ Cardinality(Forks(v)') + Cardinality(Pending(v)') <= Cardinality(Slots)
  <2>1. /\ IsFiniteSet(Forks(v))
        /\ session[v] # "revoked" => Forks(v) = {}
        /\ Cardinality(Forks(v)) + Cardinality(Pending(v)) <= Cardinality(Slots)
    BY DEF RotationInv, ForkInv
  <2>2. Cardinality(Forks(v)) \in Nat
    BY <2>1, FS_CardinalityType
  <2>3. CASE v = from
    <3>1. Forks(v)' = Forks(v) \cup {t} /\ t \notin Forks(v)
      BY <1>0, <1>3, <2>3 DEF Forks
    <3>2. Cardinality(Forks(v)') = Cardinality(Forks(v)) + 1 /\ IsFiniteSet(Forks(v)')
      BY <2>1, <3>1, FS_AddElement
    <3>3. Pending(v)' \in SUBSET (Pending(v) \ {s}) /\ s \in Pending(v)
      BY <1>0, <1>4, <2>3 DEF Pending, from
    <3>4. /\ IsFiniteSet(Pending(v) \ {s})
          /\ Cardinality(Pending(v) \ {s}) = Cardinality(Pending(v)) - 1
      BY <3>3, PendingFinite, FS_RemoveElement
    <3>5. Cardinality(Pending(v)') <= Cardinality(Pending(v)) - 1
      BY <3>3, <3>4, FS_Subset
    <3>6. Cardinality(Forks(v)') + Cardinality(Pending(v)') <= Cardinality(Slots)
      BY <2>1, <2>2, <3>2, <3>5, PendingFinite
    <3> QED
      BY <1>3, <2>3, <3>2, <3>6
  <2>4. CASE v # from
    <3>1. Forks(v)' = Forks(v)
      BY <1>3, <2>4 DEF Forks
    <3>2. Pending(v)' \in SUBSET Pending(v)
      BY <1>4 DEF Pending
    <3>3. Cardinality(Pending(v)') <= Cardinality(Pending(v))
      BY <3>2, PendingFinite, FS_Subset
    <3>4. Cardinality(Forks(v)) + Cardinality(Pending(v)') <= Cardinality(Slots)
      BY <2>1, <2>2, <3>3, PendingFinite
    <3>5. session'[v] # "revoked" => session[v] # "revoked"
      BY <1>2, <1>3, <2>4
    <3> QED
      BY <2>1, <3>1, <3>4, <3>5
  <2> QED
    BY <2>3, <2>4
<1> QED
  BY <1>5, <1>6, <1>7 DEF RotationInv, ForkInv

LEMMA InitRotation == Init => RotationInv
<1> SUFFICES ASSUME Init PROVE RotationInv
  OBVIOUS
<1>1. RefreshHoldsIssued /\ UnissuedHasNoParent
  BY DEF Init, RefreshHoldsIssued, UnissuedHasNoParent, Idle
<1>2. ASSUME NEW t \in Tokens PROVE Forks(t) = {} /\ Pending(t) = {}
  BY <1>2, AccessAssumption DEF Init, Forks, Pending, Idle
<1>3. Cardinality({}) = 0 /\ IsFiniteSet({}) /\ Cardinality(Slots) \in Nat
  BY AccessAssumption, FS_EmptySet, FS_CardinalityType
<1>4. ForkInv
  BY <1>2, <1>3 DEF ForkInv
<1> QED
  BY <1>1, <1>4 DEF RotationInv

LEMMA NextRotation == IInv /\ RotationInv /\ [Next]_vars => RotationInv'
<1> SUFFICES ASSUME IInv, RotationInv, [Next]_vars PROVE RotationInv'
  OBVIOUS
<1> USE DEF tokens
<1>1. ASSUME NEW s \in Slots, Arrives(s) PROVE RotationInv'
  <2>1. CASE StartVerify(s) \/ StartFederated(s) \/ StartAccept(s) \/ StartRole(s) \/ CommitPresets(s)
    <3>1. \A r \in Slots : slot'[r].kind = "refresh" => slot'[r] = slot[r]
      BY <2>1 DEF StartVerify, StartFederated, StartAccept, StartRole, CommitPresets, Begin,
                  Request, IInv, TypeOK
    <3>2. session' = session /\ parent' = parent
      BY <2>1 DEF StartVerify, StartFederated, StartAccept, StartRole, CommitPresets
    <3> QED
      BY <3>1, <3>2, NoSuccessor
  <2>2. ASSUME NEW t \in Tokens, StartLogout(s, t) PROVE RotationInv'
    <3>1. \A r \in Slots : slot'[r].kind = "refresh" => slot'[r] = slot[r]
      BY <2>2 DEF StartLogout, Begin, Request, IInv, TypeOK
    <3>2. /\ parent' = parent
          /\ \A v \in Tokens : /\ session'[v] = "unused" => session[v] = "unused"
                               /\ session[v] # session'[v] => session'[v] = "revoked"
      BY <2>2 DEF StartLogout, Revoke
    <3> QED
      BY <3>1, <3>2, NoSuccessor
  <2>3. ASSUME NEW t \in Tokens, CheckToken(s, t) PROVE RotationInv'
    <3>1. \A r \in Slots : slot'[r].kind = "refresh" => slot'[r] = slot[r]
      BY <2>3 DEF CheckToken, Begin, IInv, TypeOK
    <3>2. session' = session /\ parent' = parent
      BY <2>3 DEF CheckToken
    <3> QED
      BY <3>1, <3>2, NoSuccessor
  <2> QED
    BY <1>1, <2>1, <2>2, <2>3, RefreshStarts DEF Arrives
<1>2. ASSUME NEW s \in Slots, Proceeds(s) PROVE RotationInv'
  <2>1. CASE Verify(s) \/ Federated(s)
    <3>1. \A r \in Slots : slot'[r].kind = "refresh" => slot'[r] = slot[r]
      BY <2>1 DEF Verify, Federated, End, Idle, IInv, TypeOK
    <3>2. NewSession(slot[s].version, None)
      BY <2>1 DEF Verify, Federated, IssueSession
    <3> QED
      BY <3>1, <3>2, LoginIssues
  <2>2. CASE Refresh(s)
    BY <2>2, RefreshCommits
  <2>3. CASE \/ VerifyRejected(s) \/ OutOfTokens(s) \/ Logout(s) \/ Accept(s)
             \/ CommitRole(s) \/ InvalidatePresets(s) \/ Serve(s)
    <3>1. \A r \in Slots : slot'[r].kind = "refresh" => slot'[r] = slot[r]
      BY <2>3 DEF VerifyRejected, OutOfTokens, Logout, Accept, CommitRole, InvalidatePresets,
                  Serve, End, Idle, IInv, TypeOK
    <3>2. session' = session /\ parent' = parent
      BY <2>3 DEF VerifyRejected, OutOfTokens, Logout, Accept, CommitRole, InvalidatePresets, Serve
    <3> QED
      BY <3>1, <3>2, NoSuccessor
  <2>4. CASE ReadUser(s) \/ FillCache(s)
    <3>1. \A r \in Slots : slot'[r].kind = "refresh" => slot'[r] = slot[r]
      BY <2>4 DEF ReadUser, FillCache, IInv, TypeOK
    <3>2. session' = session /\ parent' = parent
      BY <2>4 DEF ReadUser, FillCache
    <3> QED
      BY <3>1, <3>2, NoSuccessor
  <2> QED
    BY <1>2, <2>1, <2>2, <2>3, <2>4 DEF Proceeds
<1>3. CASE \/ Login \/ ChallengeExpires \/ CacheExpires
           \/ \E new \in Statuses : UpdateStatus(new)
           \/ UNCHANGED vars
  <2>1. session' = session /\ parent' = parent /\ slot' = slot
    BY <1>3 DEF Login, ChallengeExpires, CacheExpires, UpdateStatus, vars
  <2> QED
    BY <2>1, NoSuccessor
<1> QED
  BY <1>1, <1>2, <1>3 DEF Next

LEMMA ForksAreBounded == IInv /\ RotationInv => ForksBounded
<1> SUFFICES ASSUME RotationInv, NEW t \in Tokens
             PROVE  Cardinality(Forks(t)) <= Cardinality(Slots)
  BY DEF ForksBounded, Forks
<1>1. /\ IsFiniteSet(Forks(t))
      /\ Cardinality(Forks(t)) + Cardinality(Pending(t)) <= Cardinality(Slots)
  BY DEF RotationInv, ForkInv
<1> QED
  BY <1>1, PendingFinite, FS_CardinalityType

\* A refresh token gets at most as many successors as requests were in flight
\* together when it was first exchanged (refresh: read, then revoke by id).
THEOREM ForksBoundedAlways == Spec => []ForksBounded
BY InitIInv, NextIInv, InitRotation, NextRotation, ForksAreBounded, PTL DEF Spec

---------------------------------------------------------------------------
(* Requests that read permissions that are no longer the role's            *)

\* Requests that are going to write to the cache what they have read.
Fills(s) == slot[s].kind \in {"verify", "federated", "refresh", "fill"}

Outdated == {s \in Slots : Fills(s) /\ slot[s].version # permissions}

\* A step that commits no permissions makes no request outdated, and writes
\* other permissions than the role's only by ending an outdated request.
OldReadEnds ==
  permissions' = permissions =>
    /\ Outdated' \subseteq Outdated
    /\ cache' \notin {None, permissions} =>
         \/ cache' = cache
         \/ \E s \in Outdated \ Outdated' : cache' = slot[s].version

OldReadsRunOut == [][OldReadEnds]_vars

\* One slot takes a request that is not outdated.
LEMMA FreshSlot ==
  ASSUME IInv, NEW s \in Slots, NEW r \in RequestType, permissions' = permissions,
         slot' = [slot EXCEPT ![s] = r],
         r.kind \in {"verify", "federated", "refresh", "fill"} => r.version = permissions
  PROVE  Outdated' \subseteq Outdated \ {s}
<1>1. ASSUME NEW u \in Outdated' PROVE u # s
  BY <1>1 DEF Outdated, Fills, IInv, TypeOK, RequestType
<1>2. ASSUME NEW u \in Outdated' PROVE u \in Outdated
  BY <1>1, <1>2 DEF Outdated, Fills, IInv, TypeOK, RequestType
<1> QED
  BY <1>1, <1>2

\* A request that starts read what is committed, and at most empties the cache.
LEMMA ArrivalIsFresh == ASSUME IInv, NEW s \in Slots, Arrives(s) PROVE OldReadEnds
<1> SUFFICES ASSUME permissions' = permissions
             PROVE  /\ Outdated' \subseteq Outdated
                    /\ cache' \notin {None, permissions} => cache' = cache
  BY DEF OldReadEnds
<1> USE DEF user, tokens
<1>1. PICK r \in RequestType :
        /\ slot' = [slot EXCEPT ![s] = r]
        /\ r.kind \in {"verify", "federated", "refresh", "fill"} => r.version = permissions
  <2> DEFINE Fresh(r) == /\ slot' = [slot EXCEPT ![s] = r]
                         /\ r.kind \in {"verify", "federated", "refresh", "fill"} =>
                              r.version = permissions
  <2> SUFFICES \E r \in RequestType : Fresh(r)
    OBVIOUS
  <2>1. CASE StartVerify(s)
    <3>1. Fresh(Request("verify", None, status, permissions))
      BY <2>1 DEF StartVerify, Begin, Request
    <3> QED
      BY <3>1 DEF Request, RequestType, IInv, TypeOK, AllKinds
  <2>2. CASE StartFederated(s)
    <3>1. Fresh(Request("federated", None, status, permissions))
      BY <2>2 DEF StartFederated, Begin, Request
    <3> QED
      BY <3>1 DEF Request, RequestType, IInv, TypeOK, AllKinds
  <2>3. CASE StartAccept(s)
    <3>1. Fresh(Request("accept", None, status, 0))
      BY <2>3 DEF StartAccept, Begin, Request
    <3> QED
      BY <3>1 DEF Request, RequestType, IInv, TypeOK, AllKinds
  <2>4. CASE StartRole(s)
    <3>1. Fresh(Request("role", None, "ACTIVE", 0))
      BY <2>4 DEF StartRole, Begin, Request
    <3> QED
      BY <3>1 DEF Request, RequestType, AllKinds, Statuses
  <2>5. CASE CommitPresets(s)
    BY <2>5 DEF CommitPresets, IInv, TypeOK
  <2>6. ASSUME NEW t \in Tokens, StartRefresh(s, t) PROVE \E r \in RequestType : Fresh(r)
    <3>1. Fresh(Request("refresh", t, "ACTIVE", permissions))
      BY <2>6 DEF StartRefresh, Begin, Request
    <3> QED
      BY <3>1 DEF Request, RequestType, IInv, TypeOK, AllKinds, Statuses
  <2>7. ASSUME NEW t \in Tokens, StartLogout(s, t) PROVE \E r \in RequestType : Fresh(r)
    <3>1. Fresh(Request("logout", t, "ACTIVE", 0))
      BY <2>7 DEF StartLogout, Begin, Request
    <3> QED
      BY <3>1 DEF Request, RequestType, AllKinds, Statuses
  <2>8. ASSUME NEW t \in Tokens, CheckToken(s, t) PROVE \E r \in RequestType : Fresh(r)
    <3> DEFINE r == [kind |-> IF cache # None THEN "served" ELSE "miss", token |-> t,
                     status |-> "ACTIVE", version |-> IF cache # None THEN cache ELSE claims[t]]
    <3>1. slot' = [slot EXCEPT ![s] = r]
      BY <2>8 DEF CheckToken, Begin
    <3>2. r.kind \notin {"verify", "federated", "refresh", "fill"}
      OBVIOUS
    <3>3. r \in RequestType
      BY DEF RequestType, IInv, TypeOK, Statuses
    <3> QED
      BY <3>1, <3>2, <3>3
  <2> QED
    BY <2>1, <2>2, <2>3, <2>4, <2>5, <2>6, <2>7, <2>8 DEF Arrives
<1>2. cache' \in {None, cache}
  BY DEF Arrives, StartVerify, StartFederated, StartAccept, StartRole, CommitPresets,
         StartRefresh, StartLogout, CheckToken, BestEffort
<1> QED
  BY <1>1, <1>2, FreshSlot

LEMMA OldReadIsWrittenOnce == ASSUME IInv, NEW s \in Slots, Proceeds(s) PROVE OldReadEnds
<1> SUFFICES ASSUME permissions' = permissions
             PROVE  /\ Outdated' \subseteq Outdated
                    /\ cache' \notin {None, permissions} =>
                         \/ cache' = cache
                         \/ \E u \in Outdated \ Outdated' : cache' = slot[u].version
  BY DEF OldReadEnds
<1> USE DEF user, tokens
<1>a. slot[s] \in RequestType
  BY DEF IInv, TypeOK, RequestType
<1>1. PICK r \in RequestType :
        /\ slot' = [slot EXCEPT ![s] = r]
        /\ r.kind \in {"verify", "federated", "refresh", "fill"} => r.version = permissions
  <2>1. CASE ReadUser(s) \/ FillCache(s)
    <3> DEFINE served == [slot[s] EXCEPT !.kind = "served"]
               fill == [slot[s] EXCEPT !.kind = "fill", !.version = permissions]
    <3>1. served \in RequestType /\ fill \in RequestType
      BY <1>a DEF RequestType, IInv, TypeOK
    <3>2. served.kind = "served" /\ fill.version = permissions
      BY <1>a DEF RequestType
    <3>3. slot' = [slot EXCEPT ![s] = served] \/ slot' = [slot EXCEPT ![s] = fill]
      BY <2>1 DEF ReadUser, FillCache
    <3> QED
      BY <3>1, <3>2, <3>3
  <2>2. CASE ~(ReadUser(s) \/ FillCache(s))
    <3>1. slot' = [slot EXCEPT ![s] = Idle]
      BY <2>2 DEF Proceeds, Verify, VerifyRejected, Federated, Refresh, OutOfTokens, Logout, Accept,
                  CommitRole, InvalidatePresets, Serve, End
    <3>2. Idle.kind = "none"
      BY DEF Idle
    <3> QED
      BY <3>1, <3>2, IdleIsRequest
  <2> QED
    BY <2>1, <2>2
<1>2. Outdated' \subseteq Outdated \ {s}
  BY <1>1, FreshSlot
<1>3. cache' \in {None, cache} \/ (Fills(s) /\ cache' = slot[s].version)
  <2>1. CASE Verify(s) \/ Federated(s) \/ Refresh(s)
    BY <2>1 DEF Verify, Federated, Refresh, IssueSession, BestEffort, End, Fills
  <2>2. CASE FillCache(s)
    BY <2>2 DEF FillCache, BestEffort, Fills
  <2>3. CASE Logout(s) \/ Accept(s) \/ InvalidatePresets(s)
    BY <2>3 DEF Logout, Accept, InvalidatePresets, BestEffort
  <2>4. CASE VerifyRejected(s) \/ OutOfTokens(s) \/ CommitRole(s) \/ ReadUser(s) \/ Serve(s)
    BY <2>4 DEF VerifyRejected, OutOfTokens, CommitRole, ReadUser, Serve
  <2> QED
    BY <2>1, <2>2, <2>3, <2>4 DEF Proceeds
<1>4. CASE Fills(s) /\ cache' = slot[s].version /\ slot[s].version # permissions
  <2>1. s \in Outdated \ Outdated'
    BY <1>2, <1>4 DEF Outdated
  <2> QED
    BY <1>2, <1>4, <2>1
<1> QED
  BY <1>2, <1>3, <1>4

\* Once the role changes no more, stale entries run out: no request comes to
\* hold old permissions, and each that does writes them to the cache at most
\* once and is then over (issueSessionInTx, authenticate).  What is left for
\* fairness is that requests end and entries expire.
THEOREM OldReadsRunOutAlways == Spec => OldReadsRunOut
<1>1. IInv /\ [Next]_vars => [OldReadEnds]_vars
  <2> SUFFICES ASSUME IInv, Next PROVE OldReadEnds
    OBVIOUS
  <2>1. CASE \E s \in Slots : Arrives(s) \/ Proceeds(s)
    BY <2>1, ArrivalIsFresh, OldReadIsWrittenOnce
  <2>2. CASE Login \/ ChallengeExpires \/ CacheExpires \/ \E new \in Statuses : UpdateStatus(new)
    BY <2>2 DEF Login, ChallengeExpires, CacheExpires, UpdateStatus, OldReadEnds, Outdated, Fills
  <2> QED
    BY <2>1, <2>2 DEF Next
<1> QED
  BY <1>1, InitIInv, NextIInv, PTL DEF Spec, OldReadsRunOut
=============================================================================

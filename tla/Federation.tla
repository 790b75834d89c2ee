----------------------------- MODULE Federation -----------------------------
(***************************************************************************)
(* Directory logins and group synchronisation, for the one account that    *)
(* has a given email (FederatedUserService, GraphSyncService and their      *)
(* callers).  None of it runs in a transaction: a login finds the account,  *)
(* links or creates it, gives it the default role when it has none, reads   *)
(* its roles, then creates and deletes them one at a time.                  *)
(*                                                                         *)
(* Roles are numbered in the order of the organization's group maps; what   *)
(* a directory's groups map to is the set of roles they stand for.          *)
(***************************************************************************)
EXTENDS Naturals

CONSTANTS
  Subjects,     \* directory identities that claim the account's email
  Slots,        \* logins and synchronisations in flight
  Mapped,       \* roles some group maps to (numbers)
  DefaultRole,  \* settings.defaultRoleName
  JitEnabled,   \* settings.jitProvisioningEnabled
  Outages,      \* whether the directory may answer a groups request with an error
  AdminActs,    \* whether the administrator updates the account's status
  None

VARIABLES
  account,  \* None, or its status and externalSubject
  roles,    \* its user_roles
  groups,   \* what each identity's groups map to, in the directory
  slot,     \* logins and synchronisations in flight
  settled   \* one that saw the directory as it is has finished undisturbed

vars == <<account, roles, groups, slot, settled>>

Statuses == {"INVITED", "ACTIVE", "DISABLED"}

Idle == [step |-> "idle", subject |-> None, groups |-> {}, status |-> "ACTIVE",
         existing |-> {}, fresh |-> TRUE, clean |-> TRUE]

At(s, step) == slot[s].step = step
Goto(s, step) == slot' = [slot EXCEPT ![s].step = step]
Leave(s) == slot' = [slot EXCEPT ![s] = Idle]

\* A request takes along the groups it was given; `clean` is the model's note
\* that no request with other groups than the directory's has met it.
Take(s, step, d, fetched) ==
  /\ slot[s] = Idle
  /\ LET accurate == fetched = groups[d]
     IN  /\ slot' = [t \in Slots |->
              IF t = s THEN [Idle EXCEPT !.step = step, !.subject = d, !.groups = fetched,
                                         !.fresh = accurate,
                                         !.clean = \A other \in Slots : slot[other].fresh]
              ELSE [slot[t] EXCEPT !.clean = @ /\ (accurate \/ slot[t] = Idle)]]
         /\ settled' = (settled /\ accurate)
  /\ UNCHANGED <<account, roles, groups>>

---------------------------------------------------------------------------
(* Where requests come from                                                *)

\* fetchGraphMemberGroups stops at an error and returns what it has.
FetchGroups(d) == IF Outages THEN {groups[d], {}} ELSE {groups[d]}

OidcCallback(s, d) == \E fetched \in FetchGroups(d) : Take(s, "byExternal", d, fetched)

LdapLogin(s, d) == Take(s, "byExternal", d, groups[d])

\* syncOrganization, for this account.
Sync(s) ==
  /\ account # None /\ account.subject # None /\ account.status # "DISABLED"
  /\ \E fetched \in FetchGroups(account.subject) : Take(s, "read", account.subject, fetched)

---------------------------------------------------------------------------
(* upsertFromIdp                                                           *)

Linked(d) == account # None /\ account.subject = d

FindByExternal(s) ==
  /\ At(s, "byExternal")
  /\ IF ~Linked(slot[s].subject) THEN Goto(s, "byEmail")
     ELSE IF account.status = "DISABLED" THEN Leave(s) ELSE Goto(s, "baseline")
  /\ UNCHANGED <<account, roles, groups, settled>>

FindByEmail(s) ==
  /\ At(s, "byEmail")
  /\ \/ /\ account = None
        /\ IF JitEnabled THEN Goto(s, "create") ELSE Leave(s)
     \/ /\ account # None
        /\ IF account.subject \notin {None, slot[s].subject} \/ account.status = "DISABLED"
           THEN Leave(s)
           ELSE slot' = [slot EXCEPT ![s].step = "link", ![s].status = account.status]
  /\ UNCHANGED <<account, roles, groups, settled>>

\* The update is by id, and writes the status that was read.
LinkAccount(s) ==
  /\ At(s, "link")
  /\ account' = [subject |-> slot[s].subject,
                 status |-> IF slot[s].status = "INVITED" THEN "ACTIVE" ELSE slot[s].status]
  /\ Goto(s, "baseline")
  /\ UNCHANGED <<roles, groups, settled>>

\* The second of two creations breaks on the unique email.
CreateAccount(s) ==
  /\ At(s, "create")
  /\ IF account = None
     THEN account' = [subject |-> slot[s].subject, status |-> "ACTIVE"] /\ Goto(s, "default")
     ELSE UNCHANGED account /\ Leave(s)
  /\ UNCHANGED <<roles, groups, settled>>

\* user_roles are unique per user and role: adding one that is there fails.
AddRole(s, r, next) ==
  /\ roles' = roles \cup {r}
  /\ IF r \in roles THEN Leave(s) ELSE next
  /\ UNCHANGED <<account, groups, settled>>

GiveDefaultRole(s) == At(s, "default") /\ AddRole(s, DefaultRole, Goto(s, "baseline"))

\* ensureDefaultRoleIfEmpty counts, then creates.
CountRoles(s) ==
  /\ At(s, "baseline")
  /\ Goto(s, IF roles = {} THEN "add" ELSE "read")
  /\ UNCHANGED <<account, roles, groups, settled>>

AddBaselineRole(s) == At(s, "add") /\ AddRole(s, DefaultRole, Goto(s, "read"))

---------------------------------------------------------------------------
(* applyGroupRoles                                                         *)

ReadRoles(s) ==
  /\ At(s, "read") /\ Mapped # {}
  /\ slot' = [slot EXCEPT ![s].step = "apply", ![s].existing = roles]
  /\ UNCHANGED <<account, roles, groups, settled>>

\* Seeded fault: roles are only created for a user that has no mapped one yet.
ToCreate_Fault(s) ==
  IF slot[s].existing \cap Mapped = {} THEN slot[s].groups ELSE {}

ToCreate(s) == slot[s].groups \ slot[s].existing

\* Seeded fault: whether a group maps to the role is not asked.
ToDelete_Fault(s) == slot[s].existing \ slot[s].groups

ToDelete(s) == (slot[s].existing \cap Mapped) \ slot[s].groups

CreateRole(s) ==
  /\ At(s, "apply")
  /\ \E r \in ToCreate(s) :
       /\ \A q \in ToCreate(s) : r <= q
       /\ AddRole(s, r, slot' = [slot EXCEPT ![s].existing = @ \cup {r}])

DeleteRole(s) ==
  /\ At(s, "apply") /\ ToCreate(s) = {}
  /\ \E r \in ToDelete(s) :
       /\ roles' = roles \ {r}
       /\ slot' = [slot EXCEPT ![s].existing = @ \ {r}]
  /\ UNCHANGED <<account, groups, settled>>

\* Then the cache is invalidated and, for a login, the session issued (Access).
Finish(s) ==
  /\ \/ At(s, "apply") /\ ToCreate(s) = {} /\ ToDelete(s) = {}
     \/ At(s, "read") /\ Mapped = {}
  /\ settled' = (settled \/ (slot[s].fresh /\ slot[s].clean))
  /\ Leave(s)
  /\ UNCHANGED <<account, roles, groups>>

---------------------------------------------------------------------------
(* The world around                                                        *)

\* Somebody's membership changes: the groups in flight are out of date.
DirectoryChanges(d, new) ==
  /\ groups' = [groups EXCEPT ![d] = new]
  /\ slot' = [s \in Slots |-> [slot[s] EXCEPT !.fresh = slot[s] = Idle]]
  /\ settled' = FALSE
  /\ UNCHANGED <<account, roles>>

\* UserService.update
UpdateStatus(new) ==
  /\ AdminActs
  /\ account # None
  /\ account' = [account EXCEPT !.status = new]
  /\ UNCHANGED <<roles, groups, slot, settled>>

Init ==
  /\ account \in [subject : {None}, status : Statuses] \cup {None}
  /\ roles \in IF account = None THEN {{}} ELSE {{}, {DefaultRole}}
  /\ groups \in [Subjects -> SUBSET Mapped]
  /\ slot = [s \in Slots |-> Idle]
  /\ settled = FALSE

Step(s) ==
  \/ FindByExternal(s) \/ FindByEmail(s) \/ LinkAccount(s) \/ CreateAccount(s)
  \/ GiveDefaultRole(s) \/ CountRoles(s) \/ AddBaselineRole(s)
  \/ ReadRoles(s) \/ CreateRole(s) \/ DeleteRole(s) \/ Finish(s)

Next ==
  \/ \E s \in Slots : Step(s) \/ Sync(s)
  \/ \E s \in Slots, d \in Subjects : OidcCallback(s, d) \/ LdapLogin(s, d)
  \/ \E d \in Subjects, new \in SUBSET Mapped : DirectoryChanges(d, new)
  \/ \E new \in Statuses : UpdateStatus(new)

Spec == Init /\ [][Next]_vars

---------------------------------------------------------------------------

\* The account, its roles and the requests stay in their types.
TypeOK ==
  /\ account \in [subject : Subjects \cup {None}, status : Statuses] \cup {None}
  /\ roles \subseteq Mapped \cup {DefaultRole}
  /\ groups \in [Subjects -> SUBSET Mapped]
  /\ settled \in BOOLEAN
  /\ \A s \in Slots :
       /\ slot[s].step \in {"idle", "byExternal", "byEmail", "link", "create", "default",
                            "baseline", "add", "read", "apply"}
       /\ slot[s].groups \subseteq Mapped
       /\ slot[s].existing \subseteq Mapped \cup {DefaultRole}

\* A change of membership arrives: once a login or synchronisation that began
\* after every older one was over has finished, and met none the directory gave
\* an error to, the mapped roles are what the directory says, however many
\* others overlap it and break on its rows - but for the default role, which an
\* account without roles is given even when groups are mapped to it.
SettledRolesMatch ==
  settled => \A d \in Subjects : Linked(d) =>
    (roles \cap Mapped) \ {DefaultRole} = groups[d] \ {DefaultRole}

\* Roles the directory does not manage are never taken away by it.
ManualRolesKept == [][roles \ Mapped \subseteq roles']_vars
=============================================================================

------------------------------ MODULE MCAccess ------------------------------
(***************************************************************************)
(* Access, Mfa and Federation for TLC, side by side (as in MCRecords): in a *)
(* behaviour one of them is at work.  The module's own constants make the   *)
(* instance for the permission cache; the others send other requests.       *)
(***************************************************************************)
EXTENDS Access

CONSTANTS
  RotationTokens,  \* refresh tokens of the instance that rotates them
  MaxVerify, MaxResends, MaxCodes,  \* see Mfa
  Subject,         \* the directory identity of a lone account
  Subjects,        \* identities that compete for an account
  Mapped, DefaultRole               \* see Federation

ASSUME MCAccessAssumption ==
  /\ RotationTokens \subseteq Nat
  /\ MaxVerify \in Nat \ {0} /\ MaxResends \in Nat /\ MaxCodes \in Nat \ {0}
  /\ None \notin Subjects \cup {Subject}

VARIABLES
  component,  \* the component at work
  challenge, codes, jobs, mailed, counter, resend, guesses, sessions, faults,
  secret, enabled, confirm,
  account, roles, groups, login, settled

accessVars     == <<user, challenges, permissions, cache, tokens, denied, slot>>
challengeVars  == <<challenge, codes, jobs, mailed, counter, resend, guesses, sessions, faults,
                    secret, enabled, confirm>>
directoryVars  == <<account, roles, groups, login, settled>>

\* The user's row and who writes it.
Account == INSTANCE Access WITH
  Kinds <- {"login", "verify", "federated", "accept", "status"},
  MaxChanges <- 0, MaxChallenges <- 1

\* Rotation of refresh tokens, over several generations.
Rotation == INSTANCE Access WITH
  Tokens <- RotationTokens, Kinds <- {"federated", "refresh", "logout"},
  MaxChanges <- 0, MaxChallenges <- 0, RedisMayFail <- TRUE

Otp == INSTANCE Mfa WITH
  Factors <- {"EMAIL_OTP"}, FaultKinds <- {"crash", "lost", "slow"}, slot <- resend

Totp == INSTANCE Mfa WITH Factors <- {"TOTP"}, FaultKinds <- {}, slot <- resend

\* One identity and a directory that may be out of order.
Directory == INSTANCE Federation WITH
  Subjects <- {Subject}, JitEnabled <- FALSE, Outages <- TRUE, AdminActs <- FALSE,
  slot <- login

\* Two identities and an administrator, without group maps.
Links == INSTANCE Federation WITH
  Mapped <- {}, JitEnabled <- TRUE, Outages <- FALSE, AdminActs <- TRUE, slot <- login

---------------------------------------------------------------------------

Components == {"cache", "account", "rotation", "otp", "totp", "directory", "links"}

AccessInit ==
  /\ component \in Components
  /\ \/ component = "rotation" /\ Rotation!Init
     \/ component # "rotation" /\ Init
  /\ Otp!Init
  /\ \/ component = "directory" /\ Directory!Init
     \/ component = "links" /\ Links!Init
     \/ /\ component \notin {"directory", "links"}
        /\ Directory!Init /\ account = None /\ groups = [d \in {Subject} |-> {}]

AtWork(c) == component = c /\ UNCHANGED component

CacheStep    == AtWork("cache") /\ Next /\ UNCHANGED <<challengeVars, directoryVars>>
AccountStep  == AtWork("account") /\ Account!Next /\ UNCHANGED <<challengeVars, directoryVars>>
RotationStep == AtWork("rotation") /\ Rotation!Next /\ UNCHANGED <<challengeVars, directoryVars>>

ChallengeStep ==
  /\ \/ AtWork("otp") /\ Otp!Next
     \/ AtWork("totp") /\ Totp!Next
  /\ UNCHANGED <<accessVars, directoryVars>>

DirectoryStep ==
  /\ \/ AtWork("directory") /\ Directory!Next
     \/ AtWork("links") /\ Links!Next
  /\ UNCHANGED <<accessVars, challengeVars>>

AccessNext == CacheStep \/ AccountStep \/ RotationStep \/ ChallengeStep \/ DirectoryStep

allVars == <<component, accessVars, challengeVars, directoryVars>>

\* The fairness of Access, for the permission cache.
AccessSpec ==
  /\ AccessInit /\ [][AccessNext]_allVars
  /\ WF_accessVars(component = "cache" /\ CacheExpires)
  /\ \A s \in Slots : WF_accessVars(component = "cache" /\ Proceeds(s))

---------------------------------------------------------------------------
(* The properties of the instances, under names a configuration can use    *)

\* The rows, the Redis keys and the requests stay in their types.
AccessTypeOK ==
  /\ IF component = "rotation" THEN Rotation!TypeOK ELSE TypeOK
  /\ Otp!TypeOK
  /\ IF component = "links" THEN Links!TypeOK ELSE Directory!TypeOK

\* See Access.
RotationForksBounded == component = "rotation" => Rotation!ForksBounded

\* See Mfa: sessions, guesses, mailed codes and the account's resend limit.
ChallengesAreSound ==
  Otp!OneSessionPerChallenge /\ Otp!GuessesBounded /\ Otp!StoredCodeWasQueued /\ Otp!LimitEnds

\* See Federation: roles of the directory settle, others are never taken away.
DirectoryRolesSettle ==
  [][/\ component = "directory" =>
          Directory!SettledRolesMatch' /\ roles \ Mapped \subseteq roles'
     /\ component = "links" => roles \subseteq roles']_directoryVars
=============================================================================

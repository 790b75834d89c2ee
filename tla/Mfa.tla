-------------------------------- MODULE Mfa ---------------------------------
(***************************************************************************)
(* One email challenge of a login: the record in Redis that holds the hash *)
(* of its code, the Lua scripts that verify, rotate and restore it, the    *)
(* resend requests around them, the job that mails each code, and the       *)
(* account's resend counter.  TOTP enrolment is below them.                 *)
(*                                                                         *)
(* Codes are numbered as they are generated: 0 stands for a wrong guess.   *)
(* A job's id is mfa:<challenge>:<resendCount>, and the queue ignores a    *)
(* second job with the id of one it holds.                                 *)
(***************************************************************************)
EXTENDS Naturals, FiniteSets

CONSTANTS
  Slots,        \* resend requests in flight
  MaxVerify,    \* MFA_MAX_VERIFY_ATTEMPTS
  MaxResends,   \* MFA_MAX_RESENDS_PER_15_MINUTES, of a challenge and of an account
  MaxCodes,     \* bound: codes generated
  Factors,      \* the parts at work: "EMAIL_OTP", "TOTP"
  FaultKinds,   \* "crash", "lost" (reply to an enqueue), "slow" (past the cooldown)
  None

VARIABLES
  challenge,  \* auth:mfa:email:<id>
  codes,      \* codes generated
  jobs,       \* the code each job on email-critical carries, by delivery attempt
  mailed,     \* codes the user received
  counter,    \* auth:mfa:resend:user:<id>, and whether it has a time to live
  slot,       \* resend requests in flight
  guesses,    \* wrong guesses made at each code
  sessions,   \* sessions the challenge was exchanged for
  faults,     \* the kinds of fault that happened
  secret, enabled, confirm   \* TOTP: the stored secret, the flag, the request

email == <<challenge, codes, jobs, mailed, counter, slot, guesses, sessions, faults>>
totp  == <<secret, enabled, confirm>>
vars  == <<email, totp>>

Idle == [step |-> "idle", code |-> 0, previous |-> None]

At(s, step) == slot[s].step = step
Goto(s, step) == slot' = [slot EXCEPT ![s].step = step]
Leave(s) == slot' = [slot EXCEPT ![s] = Idle]

Queued(n, code) == IF jobs[n] = 0 THEN [jobs EXCEPT ![n] = code] ELSE jobs

---------------------------------------------------------------------------
(* The challenge                                                           *)

\* The record is set, then the mail is queued; when that fails it is deleted.
CreateEmailOtpChallenge ==
  /\ "EMAIL_OTP" \in Factors
  /\ codes = 0
  /\ codes' = 1
  /\ \/ /\ challenge' = [code |-> 1, attempts |-> 0, resends |-> 0, cooling |-> TRUE]
        /\ jobs' = Queued(0, 1)
     \/ /\ challenge' = None
        /\ jobs' \in IF "lost" \in FaultKinds THEN {jobs, Queued(0, 1)} ELSE {jobs}
  /\ UNCHANGED <<mailed, counter, slot, guesses, sessions, faults, totp>>

\* Seeded fault: a wrong guess is not written back.
WrongGuess_Fault == challenge' = challenge

\* Seeded fault: the last guess allowed is counted like the others.
WrongGuess_NotLast ==
  challenge' = IF challenge.attempts + 1 > MaxVerify THEN None
               ELSE [challenge EXCEPT !.attempts = @ + 1]

\* The wrong guess is counted, and the last one allowed deletes the record.
WrongGuess ==
  challenge' = IF challenge.attempts + 1 >= MaxVerify THEN None
               ELSE [challenge EXCEPT !.attempts = @ + 1]

\* One script compares, counts and deletes.
VerifyEmailOtp(guess) ==
  /\ challenge # None
  /\ IF guess = challenge.code
     THEN challenge' = None /\ sessions' = sessions + 1 /\ UNCHANGED guesses
     ELSE /\ WrongGuess
          /\ guesses' = [guesses EXCEPT ![challenge.code] = @ + 1]
          /\ UNCHANGED sessions
  /\ UNCHANGED <<codes, jobs, mailed, counter, slot, faults, totp>>

ChallengeExpires ==
  /\ challenge # None
  /\ challenge' = None
  /\ UNCHANGED <<codes, jobs, mailed, counter, slot, guesses, sessions, faults, totp>>

\* Thirty seconds passed since lastSentAt.
CooldownEnds ==
  /\ challenge # None /\ challenge.cooling
  /\ challenge' = [challenge EXCEPT !.cooling = FALSE]
  /\ IF \E s \in Slots : slot[s].step \in {"queue", "restore"}
     THEN "slow" \in FaultKinds /\ faults' = faults \cup {"slow"}
     ELSE UNCHANGED faults
  /\ UNCHANGED <<codes, jobs, mailed, counter, slot, guesses, sessions, totp>>

---------------------------------------------------------------------------
(* resendMfa                                                               *)

Eligible == challenge # None /\ ~challenge.cooling /\ challenge.resends < MaxResends

\* Bound: none is sent once the account is over its limit.
CheckResendEligibility(s) ==
  /\ counter.n <= MaxResends
  /\ slot[s] = Idle /\ Eligible /\ codes < MaxCodes
  /\ Goto(s, "count")
  /\ UNCHANGED <<challenge, codes, jobs, mailed, counter, guesses, sessions, faults, totp>>

\* INCR; the first one owes the counter its time to live.
CountResend(s) ==
  /\ At(s, "count")
  /\ counter' = [counter EXCEPT !.n = @ + 1]
  /\ IF counter.n = 0 THEN Goto(s, "expire")
     ELSE IF counter.n + 1 > MaxResends THEN Leave(s) ELSE Goto(s, "rotate")
  /\ UNCHANGED <<challenge, codes, jobs, mailed, guesses, sessions, faults, totp>>

SetCounterExpiry(s) ==
  /\ At(s, "expire")
  /\ counter' = IF counter.n = 0 THEN counter ELSE [counter EXCEPT !.ttl = TRUE]
  /\ Goto(s, "rotate")
  /\ UNCHANGED <<challenge, codes, jobs, mailed, guesses, sessions, faults, totp>>

CounterExpires ==
  /\ counter.ttl
  /\ counter' = [n |-> 0, ttl |-> FALSE]
  /\ UNCHANGED <<challenge, codes, jobs, mailed, slot, guesses, sessions, faults, totp>>

\* The script checks again what the request had read, and replaces the code.
RotateForResend(s) ==
  /\ At(s, "rotate") /\ Eligible /\ codes < MaxCodes
  /\ codes' = codes + 1
  /\ challenge' = [code |-> codes + 1, attempts |-> 0,
                   resends |-> challenge.resends + 1, cooling |-> TRUE]
  /\ slot' = [slot EXCEPT ![s] = [step |-> "queue", code |-> codes + 1,
                                  previous |-> challenge]]
  /\ UNCHANGED <<jobs, mailed, counter, guesses, sessions, faults, totp>>

\* The counter keeps what a request that came too late had added to it.
RotateRefused(s) ==
  /\ At(s, "rotate") /\ ~(Eligible /\ codes < MaxCodes)
  /\ Leave(s)
  /\ UNCHANGED <<challenge, codes, jobs, mailed, counter, guesses, sessions, faults, totp>>

Attempt(s) == slot[s].previous.resends + 1

QueueEmailOtp(s) ==
  /\ At(s, "queue")
  /\ jobs' = Queued(Attempt(s), slot[s].code)
  /\ Leave(s)
  /\ UNCHANGED <<challenge, codes, mailed, counter, guesses, sessions, faults, totp>>

\* The queue refuses the job, or takes it and its reply is lost.
QueueFails(s) ==
  /\ At(s, "queue")
  /\ \/ UNCHANGED <<jobs, faults>>
     \/ /\ "lost" \in FaultKinds
        /\ jobs' = Queued(Attempt(s), slot[s].code)
        /\ faults' = faults \cup {"lost"}
  /\ Goto(s, "restore")
  /\ UNCHANGED <<challenge, codes, mailed, counter, guesses, sessions, totp>>

\* Seeded fault: the script writes the old record back whatever it finds.
RestoreAfterQueueFailure_Fault(s) ==
  /\ At(s, "restore")
  /\ challenge' = slot[s].previous
  /\ Goto(s, "release")
  /\ UNCHANGED <<codes, jobs, mailed, counter, guesses, sessions, faults, totp>>

\* The old record comes back only over the one this request had written.
RestoreAfterQueueFailure(s) ==
  /\ At(s, "restore")
  /\ challenge' = IF challenge # None /\ challenge.code = slot[s].code
                  THEN slot[s].previous ELSE challenge
  /\ Goto(s, "release")
  /\ UNCHANGED <<codes, jobs, mailed, counter, guesses, sessions, faults, totp>>

\* Seeded fault: a counter that reaches zero is kept, and with it a key that
\* the next INCR does not take for new.
ReleaseResendLimit_Fault(s) ==
  /\ At(s, "release")
  /\ counter' = [n |-> IF counter.n > 0 THEN counter.n - 1 ELSE 1, ttl |-> counter.ttl]
  /\ Leave(s)
  /\ UNCHANGED <<challenge, codes, jobs, mailed, guesses, sessions, faults, totp>>

\* DECR, and DEL at zero or below (the counter may have expired meanwhile).
ReleaseResendLimit(s) ==
  /\ At(s, "release")
  /\ counter' = IF counter.n <= 1 THEN [n |-> 0, ttl |-> FALSE]
                ELSE [counter EXCEPT !.n = @ - 1]
  /\ Leave(s)
  /\ UNCHANGED <<challenge, codes, jobs, mailed, guesses, sessions, faults, totp>>

\* The API process dies in a request.
ApiDies(s) ==
  /\ "crash" \in FaultKinds
  /\ slot[s] # Idle
  /\ Leave(s)
  /\ faults' = faults \cup {"crash"}
  /\ UNCHANGED <<challenge, codes, jobs, mailed, counter, guesses, sessions, totp>>

---------------------------------------------------------------------------
(* The worker on email-critical                                            *)

\* The retries of the job and the SENT mark, which suppresses them, only decide
\* how many mails carry the same code.
SendMail(n) ==
  /\ jobs[n] # 0
  /\ mailed' = mailed \cup {jobs[n]}
  /\ UNCHANGED <<challenge, codes, jobs, counter, slot, guesses, sessions, faults, totp>>

---------------------------------------------------------------------------
(* TOTP enrolment                                                          *)

\* A new secret is stored and the flag cleared.
SetupMfa ==
  /\ "TOTP" \in Factors
  /\ secret < MaxCodes
  /\ secret' = secret + 1 /\ enabled' = FALSE
  /\ UNCHANGED <<confirm, email>>

\* confirmMfa checks the code of the secret it read.
CheckConfirm ==
  /\ secret # 0 /\ confirm = 0
  /\ confirm' = secret
  /\ UNCHANGED <<secret, enabled, email>>

\* The flag is set by the user's id, whatever secret is stored by now.
EnableMfa ==
  /\ confirm # 0
  /\ enabled' = TRUE /\ confirm' = 0
  /\ UNCHANGED <<secret, email>>

---------------------------------------------------------------------------

Init ==
  /\ challenge = None /\ codes = 0 /\ mailed = {} /\ sessions = 0
  /\ jobs = [n \in 0 .. MaxResends |-> 0]
  /\ counter = [n |-> 0, ttl |-> FALSE]
  /\ slot = [s \in Slots |-> Idle]
  /\ guesses = [c \in 1 .. MaxCodes |-> 0]
  /\ faults = {}
  /\ secret = 0 /\ enabled = FALSE /\ confirm = 0

Resend(s) ==
  \/ CheckResendEligibility(s) \/ CountResend(s) \/ SetCounterExpiry(s)
  \/ RotateForResend(s) \/ RotateRefused(s) \/ QueueEmailOtp(s) \/ QueueFails(s)
  \/ RestoreAfterQueueFailure(s) \/ ReleaseResendLimit(s) \/ ApiDies(s)

EmailNext ==
  \/ CreateEmailOtpChallenge
  \/ \E guess \in mailed \cup {0} : VerifyEmailOtp(guess)
  \/ ChallengeExpires \/ CooldownEnds \/ CounterExpires
  \/ \E s \in Slots : Resend(s)
  \/ \E n \in 0 .. MaxResends : SendMail(n)

TotpNext == SetupMfa \/ CheckConfirm \/ EnableMfa

Next == EmailNext \/ TotpNext

Spec == Init /\ [][Next]_vars

---------------------------------------------------------------------------

Challenge == [code : 1 .. MaxCodes, attempts : 0 .. MaxVerify - 1,
              resends : 0 .. MaxResends, cooling : BOOLEAN]

\* The record, the jobs, the counter and the requests stay in their types; a
\* stored record always has a guess and at most its resends left.
TypeOK ==
  /\ challenge \in Challenge \cup {None}
  /\ codes \in 0 .. MaxCodes /\ sessions \in Nat
  /\ jobs \in [0 .. MaxResends -> 0 .. MaxCodes]
  /\ mailed \subseteq 1 .. MaxCodes
  /\ counter \in [n : Nat, ttl : BOOLEAN]
  /\ slot \in [Slots -> [step : {"idle", "count", "expire", "rotate", "queue", "restore", "release"},
                         code : 0 .. MaxCodes, previous : Challenge \cup {None}]]
  /\ guesses \in [1 .. MaxCodes -> Nat]
  /\ secret \in 0 .. MaxCodes /\ enabled \in BOOLEAN /\ confirm \in 0 .. MaxCodes

\* One login, one session: whatever the resends and their roll-backs do, the
\* challenge is exchanged once.
OneSessionPerChallenge == sessions <= 1

\* Nobody has more guesses at a code than MFA_MAX_VERIFY_ATTEMPTS: a rotation
\* or a roll-back does not give back the guesses made at it.
GuessesBounded == \A c \in 1 .. MaxCodes : guesses[c] <= MaxVerify

\* The code the record expects has been queued for mailing, unless the process
\* died in the request, the reply to an enqueue was lost, or a resend outlived
\* its cooldown.
StoredCodeWasQueued ==
  \/ faults # {}
  \/ challenge = None
  \/ \E s \in Slots : slot[s].step \in {"queue", "restore"}
  \/ \E n \in 0 .. MaxResends : jobs[n] = challenge.code

\* The resend limit of an account ends: a counter above zero has a time to
\* live, or the request that owes it one is there, or that request died.
LimitEnds ==
  \/ counter.n = 0 \/ counter.ttl \/ "crash" \in faults
  \/ \E s \in Slots : At(s, "expire")
=============================================================================

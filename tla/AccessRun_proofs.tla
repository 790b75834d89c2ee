-------------------------- MODULE AccessRun_proofs --------------------------
(***************************************************************************)
(* Theorems about MCAccess: the e-mail challenge, the directory and the    *)
(* account side by side, for every value of the constants.                 *)
(*                                                                         *)
(* The argument.  The challenge (MailInv): guesses and resends only count  *)
(* up, a waiting resend remembers a record that was in force, and whoever  *)
(* exchanges a challenge deletes it in the same script.  The directory     *)
(* (SettleInv): after the last change of membership a request that began   *)
(* when all older ones were over plans with the directory's groups, and so *)
(* does every other in flight, so the mapped roles differ from the         *)
(* directory's by what is still planned only.  The account: the theorems   *)
(* of Access_proofs hold of each of its instances.                         *)
(***************************************************************************)
EXTENDS MCAccess, Access_proofs

---------------------------------------------------------------------------
(* The e-mail challenge, with every factor and every fault                 *)

Mail == INSTANCE Mfa WITH
  Factors <- {"EMAIL_OTP", "TOTP"}, FaultKinds <- {"crash", "lost", "slow"}, slot <- resend

MailRequest ==
  [step : {"idle", "count", "expire", "rotate", "queue", "restore", "release"},
   code : 0 .. MaxCodes, previous : Mail!Challenge \cup {None}]

\* A resend that replaced the code and has not finished with the queue.
Waiting(s) == resend[s].step \in {"queue", "restore"}

Previous(s) == resend[s].previous

\* What a waiting resend may write back is a record that was in force.
PreviousType ==
  \A s \in Slots : Waiting(s) =>
    /\ Previous(s) \in Mail!Challenge
    /\ Previous(s).resends < MaxResends
    /\ resend[s].code \in 1 .. MaxCodes

ExchangedOnce ==
  /\ sessions <= 1
  /\ challenge # None \/ codes = 0 => sessions = 0

\* A code that was replaced is in the hands of one resend, out of force, with
\* the guesses it had.
ReplacedOnce ==
  \A s \in Slots : Waiting(s) =>
    /\ Previous(s).code < resend[s].code /\ resend[s].code <= codes
    /\ guesses[Previous(s).code] = Previous(s).attempts
    /\ challenge # None => challenge.code # Previous(s).code
    /\ \A t \in Slots \ {s} : Waiting(t) => Previous(t).code # Previous(s).code

GuessesCounted ==
  /\ challenge # None => challenge.code <= codes /\ guesses[challenge.code] = challenge.attempts
  /\ \A c \in 1 .. MaxCodes : guesses[c] <= MaxVerify /\ (c > codes => guesses[c] = 0)

NoJobAfter(n) == \A m \in 0 .. MaxResends : m > n => jobs[m] = 0

\* Without a fault there is one waiting resend at most: the cooldown of the
\* code it wrote has not ended, and its job is the next one.
QueueCaughtUp ==
  faults = {} =>
    /\ codes = 0 => \A n \in 0 .. MaxResends : jobs[n] = 0
    /\ challenge # None /\ (\A s \in Slots : ~Waiting(s)) =>
         jobs[challenge.resends] = challenge.code /\ NoJobAfter(challenge.resends)
    /\ \A s \in Slots : Waiting(s) =>
         /\ \A t \in Slots \ {s} : ~Waiting(t)
         /\ jobs[Previous(s).resends] = Previous(s).code /\ NoJobAfter(Previous(s).resends)
         /\ challenge # None =>
              /\ challenge.code = resend[s].code /\ challenge.cooling
              /\ challenge.resends = Previous(s).resends + 1

MailInv ==
  /\ Mail!TypeOK /\ PreviousType
  /\ ExchangedOnce /\ ReplacedOnce /\ GuessesCounted /\ QueueCaughtUp /\ Mail!LimitEnds

USE MCAccessAssumption

LEMMA MailInit == Mail!Init => MailInv
<1> SUFFICES ASSUME Mail!Init PROVE MailInv
  OBVIOUS
<1> USE DEF Mail!Init, Mail!Idle
<1>1. Mail!TypeOK
  <2>1. counter \in [n : Nat, ttl : BOOLEAN]
    OBVIOUS
  <2>2. resend \in [Slots -> MailRequest]
    BY DEF MailRequest
  <2>3. guesses \in [1 .. MaxCodes -> Nat] /\ jobs \in [0 .. MaxResends -> 0 .. MaxCodes]
    OBVIOUS
  <2>4. enabled \in BOOLEAN
    BY Zenon
  <2>5. /\ secret \in 0 .. MaxCodes /\ confirm \in 0 .. MaxCodes
        /\ challenge \in Mail!Challenge \cup {None}
        /\ codes \in 0 .. MaxCodes /\ sessions \in Nat /\ mailed \subseteq 1 .. MaxCodes
    OBVIOUS
  <2> HIDE DEF Mail!Init
  <2> QED
    BY <2>1, <2>2, <2>3, <2>4, <2>5 DEF Mail!TypeOK, MailRequest
<1>2. \A s \in Slots : ~Waiting(s)
  BY DEF Waiting
<1>3. PreviousType /\ ReplacedOnce /\ QueueCaughtUp
  BY <1>2 DEF PreviousType, ReplacedOnce, QueueCaughtUp
<1>4. ExchangedOnce /\ GuessesCounted /\ Mail!LimitEnds
  BY DEF ExchangedOnce, GuessesCounted, Mail!LimitEnds
<1> QED
  BY <1>1, <1>3, <1>4 DEF MailInv

\* A step that leaves the record and its guesses alone, and moves no resend
\* past the queue without a fault.
LEMMA MailFrame ==
  ASSUME MailInv, UNCHANGED <<challenge, codes, guesses, sessions>>,
         \A s \in Slots : Waiting(s)' => Waiting(s) /\ Previous(s)' = Previous(s)
                                         /\ resend'[s].code = resend[s].code,
         \/ faults' # {}
         \/ faults' = faults /\ jobs' = jobs /\ \A s \in Slots : Waiting(s) => Waiting(s)'
  PROVE  PreviousType' /\ ExchangedOnce' /\ ReplacedOnce' /\ GuessesCounted' /\ QueueCaughtUp'
<1>1. PreviousType'
  BY DEF MailInv, PreviousType, Mail!Challenge
<1>2. ExchangedOnce' /\ GuessesCounted'
  BY DEF MailInv, ExchangedOnce, GuessesCounted
<1>3. ReplacedOnce'
  BY DEF MailInv, ReplacedOnce
<1>4. QueueCaughtUp'
  <2>1. CASE faults' # {}
    BY <2>1 DEF QueueCaughtUp
  <2>2. CASE faults' = faults /\ jobs' = jobs /\ \A s \in Slots : Waiting(s) => Waiting(s)'
    BY <2>2 DEF MailInv, QueueCaughtUp, NoJobAfter
  <2> QED
    BY <2>1, <2>2
<1> QED
  BY <1>1, <1>2, <1>3, <1>4

\* What a step of one request does to the requests.
LEMMA MailSlotStep ==
  ASSUME MailInv, NEW s \in Slots, NEW r \in MailRequest, resend' = [resend EXCEPT ![s] = r]
  PROVE  resend' \in [Slots -> MailRequest]
BY DEF MailInv, Mail!TypeOK, MailRequest

LEMMA MailSlots ==
  MailInv => /\ resend \in [Slots -> MailRequest] /\ Mail!Idle \in MailRequest
             /\ \A s \in Slots : resend[s] \in MailRequest
BY DEF MailInv, Mail!TypeOK, MailRequest, Mail!Idle

LEMMA MailGoto ==
  ASSUME MailInv, NEW s \in Slots, Mail!Goto(s, "count") \/ Mail!Goto(s, "expire")
           \/ Mail!Goto(s, "rotate") \/ Mail!Goto(s, "restore") \/ Mail!Goto(s, "release")
           \/ Mail!Leave(s)
  PROVE  /\ resend' \in [Slots -> MailRequest]
         /\ \A t \in Slots \ {s} : resend'[t] = resend[t]
BY MailSlots DEF MailRequest, Mail!Goto, Mail!Leave

\* The requests' own bookkeeping: the record stays as it is.
LEMMA MailCounts ==
  ASSUME MailInv, NEW s \in Slots,
         \/ Mail!CheckResendEligibility(s) \/ Mail!CountResend(s) \/ Mail!SetCounterExpiry(s)
         \/ Mail!RotateRefused(s) \/ Mail!ReleaseResendLimit(s)
  PROVE  MailInv'
<1> DEFINE Counting == /\ resend' \in [Slots -> MailRequest]
                       /\ \A t \in Slots \ {s} : resend'[t] = resend[t]
                       /\ ~Waiting(s) /\ ~Waiting(s)'
                       /\ UNCHANGED <<challenge, codes, jobs, mailed, guesses, sessions,
                                      faults, secret, enabled, confirm>>
           Limited == counter.n = 0 \/ counter.ttl = TRUE
           Owed(t) == resend[t].step = "expire"
<1>0. counter \in [n : Nat, ttl : BOOLEAN] /\ resend \in [Slots -> MailRequest]
  BY MailSlots DEF MailInv, Mail!TypeOK
<1>1. Counting
  <2>1. ~Waiting(s) /\ ~Waiting(s)'
    <3> USE <1>0 DEF Waiting, Mail!At, Mail!Goto, Mail!Leave, Mail!Idle, MailRequest
    <3>1. CASE Mail!CheckResendEligibility(s)
      BY <3>1 DEF Mail!CheckResendEligibility
    <3>2. CASE Mail!CountResend(s)
      BY <3>2 DEF Mail!CountResend
    <3>3. CASE Mail!SetCounterExpiry(s) \/ Mail!RotateRefused(s) \/ Mail!ReleaseResendLimit(s)
      BY <3>3 DEF Mail!SetCounterExpiry, Mail!RotateRefused, Mail!ReleaseResendLimit
    <3> QED
      BY <3>1, <3>2, <3>3
  <2>2. UNCHANGED <<challenge, codes, jobs, mailed, guesses, sessions, faults, secret,
                    enabled, confirm>>
    BY DEF Mail!CheckResendEligibility, Mail!CountResend, Mail!SetCounterExpiry,
       Mail!RotateRefused, Mail!ReleaseResendLimit, Mail!totp
  <2>3. /\ resend' \in [Slots -> MailRequest]
        /\ \A t \in Slots \ {s} : resend'[t] = resend[t]
    BY MailGoto DEF Mail!CheckResendEligibility, Mail!CountResend, Mail!SetCounterExpiry,
       Mail!RotateRefused, Mail!ReleaseResendLimit
  <2> QED
    BY <2>1, <2>2, <2>3
<1>2. /\ counter' \in [n : Nat, ttl : BOOLEAN]
      /\ Owed(s) => Limited'
      /\ Limited => Limited' \/ Owed(s)'
  <2> USE <1>0 DEF Mail!At, Mail!Goto, Mail!Leave, Mail!Idle, MailRequest
  <2>1. CASE Mail!CheckResendEligibility(s)
    BY <2>1 DEF Mail!CheckResendEligibility
  <2>2. CASE Mail!CountResend(s)
    BY <2>2 DEF Mail!CountResend
  <2>3. CASE Mail!SetCounterExpiry(s)
    BY <2>3 DEF Mail!SetCounterExpiry
  <2>4. CASE Mail!RotateRefused(s)
    BY <2>4 DEF Mail!RotateRefused
  <2>5. CASE Mail!ReleaseResendLimit(s)
    BY <2>5 DEF Mail!ReleaseResendLimit
  <2> QED
    BY <2>1, <2>2, <2>3, <2>4, <2>5
<1>3. PreviousType' /\ ExchangedOnce' /\ ReplacedOnce' /\ GuessesCounted' /\ QueueCaughtUp'
  <2>1. \A t \in Slots : /\ Waiting(t) <=> Waiting(t)'
                         /\ Waiting(t) => resend'[t] = resend[t]
    BY <1>1 DEF Waiting
  <2> QED
    BY <1>1, <2>1, MailFrame DEF Previous
<1>4. Mail!TypeOK'
  <2>1. counter' \in [n : Nat, ttl : BOOLEAN]
    BY <1>2
  <2> QED
    BY <1>1, <2>1 DEF MailInv, Mail!TypeOK, MailRequest
<1>5. Mail!LimitEnds'
  <2>1. Limited \/ "crash" \in faults \/ \E t \in Slots : Owed(t)
    BY Zenon DEF MailInv, Mail!LimitEnds, Mail!At
  <2>2. Limited' \/ "crash" \in faults' \/ \E t \in Slots : Owed(t)'
    <3>1. ASSUME NEW t \in Slots, t # s, Owed(t) PROVE Owed(t)'
      BY <1>1, <3>1
    <3> HIDE DEF Limited, Owed
    <3> QED
      BY <1>1, <1>2, <2>1, <3>1
  <2> QED
    BY <2>2, Zenon DEF Mail!LimitEnds, Mail!At
<1> QED
  BY <1>3, <1>4, <1>5 DEF MailInv

\* Mails, the counter's time to live, the death of a request and the enrolment
\* of an authenticator.
LEMMA MailSideSteps ==
  ASSUME MailInv,
         \/ \E s \in Slots : Mail!ApiDies(s)
         \/ \E n \in 0 .. MaxResends : Mail!SendMail(n)
         \/ Mail!CounterExpires \/ Mail!TotpNext
         \/ UNCHANGED Mail!vars
  PROVE  MailInv'
<1>0. resend \in [Slots -> MailRequest]
  BY MailSlots
<1>1. /\ UNCHANGED <<challenge, codes, guesses, sessions, jobs>>
      /\ faults' = faults \/ faults' = faults \cup {"crash"}
  BY DEF Mail!ApiDies, Mail!SendMail, Mail!CounterExpires, Mail!TotpNext, Mail!SetupMfa,
     Mail!CheckConfirm, Mail!EnableMfa, Mail!vars, Mail!email, Mail!totp
<1>2. \/ /\ "crash" \in faults' /\ counter' = counter
         /\ \E s \in Slots : Mail!Leave(s)
      \/ /\ faults' = faults /\ resend' = resend
         /\ counter' = counter \/ counter' = [n |-> 0, ttl |-> FALSE]
  BY DEF Mail!ApiDies, Mail!SendMail, Mail!CounterExpires, Mail!TotpNext, Mail!SetupMfa,
     Mail!CheckConfirm, Mail!EnableMfa, Mail!vars, Mail!email, Mail!totp
<1>3. resend' \in [Slots -> MailRequest]
  BY <1>0, <1>2, MailGoto
<1>4. PreviousType' /\ ExchangedOnce' /\ ReplacedOnce' /\ GuessesCounted' /\ QueueCaughtUp'
  <2>1. \A t \in Slots : Waiting(t)' => Waiting(t) /\ resend'[t] = resend[t]
    BY <1>0, <1>2 DEF Waiting, Mail!Leave, Mail!Idle
  <2>2. \/ faults' # {}
        \/ faults' = faults /\ \A t \in Slots : Waiting(t) => Waiting(t)'
    BY <1>2 DEF Waiting
  <2> QED
    BY <1>1, <2>1, <2>2, MailFrame DEF Previous
<1>5. mailed' \subseteq 1 .. MaxCodes
  <2>1. mailed \subseteq 1 .. MaxCodes /\ jobs \in [0 .. MaxResends -> 0 .. MaxCodes]
    BY DEF MailInv, Mail!TypeOK
  <2>2. mailed' = mailed \/ \E n \in 0 .. MaxResends : jobs[n] # 0 /\ mailed' = mailed \cup {jobs[n]}
    BY DEF Mail!ApiDies, Mail!SendMail, Mail!CounterExpires, Mail!TotpNext, Mail!SetupMfa,
       Mail!CheckConfirm, Mail!EnableMfa, Mail!vars, Mail!email, Mail!totp
  <2>3. ASSUME NEW n \in 0 .. MaxResends, jobs[n] # 0, mailed' = mailed \cup {jobs[n]}
        PROVE  mailed' \subseteq 1 .. MaxCodes
    <3>1. jobs[n] \in 1 .. MaxCodes
      BY <2>1, <2>3
    <3> QED
      BY <2>1, <2>3, <3>1
  <2> QED
    BY <2>1, <2>2, <2>3
<1>6. secret' \in 0 .. MaxCodes /\ confirm' \in 0 .. MaxCodes
  <2>1. \/ secret' = secret /\ confirm' = confirm
        \/ secret < MaxCodes /\ secret' = secret + 1 /\ confirm' = confirm
        \/ secret' = secret /\ confirm' = secret
        \/ secret' = secret /\ confirm' = 0
    <3>1. CASE Mail!TotpNext
      BY <3>1, Zenon DEF Mail!TotpNext, Mail!SetupMfa, Mail!CheckConfirm, Mail!EnableMfa
    <3>2. CASE UNCHANGED Mail!totp
      BY <3>2 DEF Mail!totp
    <3>3. Mail!TotpNext \/ UNCHANGED Mail!totp
      BY DEF Mail!ApiDies, Mail!SendMail, Mail!CounterExpires, Mail!vars
    <3> QED
      BY <3>1, <3>2, <3>3
  <2>2. secret \in 0 .. MaxCodes /\ confirm \in 0 .. MaxCodes /\ MaxCodes \in Nat
    BY DEF MailInv, Mail!TypeOK
  <2> QED
    BY <2>1, <2>2
<1>7. enabled' \in BOOLEAN
  <2>1. enabled' \in {enabled, TRUE, FALSE}
    BY Zenon DEF Mail!ApiDies, Mail!SendMail, Mail!CounterExpires, Mail!TotpNext, Mail!SetupMfa,
     Mail!CheckConfirm, Mail!EnableMfa, Mail!vars, Mail!email, Mail!totp
  <2>2. enabled \in BOOLEAN
    BY DEF MailInv, Mail!TypeOK
  <2> QED
    BY <2>1, <2>2, Zenon
<1>8. counter' \in [n : Nat, ttl : BOOLEAN]
  <2>1. [n |-> 0, ttl |-> FALSE] \in [n : Nat, ttl : BOOLEAN]
    OBVIOUS
  <2>2. counter \in [n : Nat, ttl : BOOLEAN]
    BY DEF MailInv, Mail!TypeOK
  <2> QED
    BY <1>2, <2>1, <2>2
<1>9. Mail!TypeOK'
  BY <1>1, <1>3, <1>5, <1>6, <1>7, <1>8 DEF MailInv, Mail!TypeOK, MailRequest
<1>10. Mail!LimitEnds'
  <2>1. CASE "crash" \in faults'
    BY <2>1, Zenon DEF Mail!LimitEnds
  <2>2. CASE counter' = [n |-> 0, ttl |-> FALSE]
    <3>1. counter'.n = 0
      BY <2>2
    <3> QED
      BY <3>1, Zenon DEF Mail!LimitEnds
  <2>3. CASE faults' = faults /\ resend' = resend /\ counter' = counter
    BY <2>3, Zenon DEF MailInv, Mail!LimitEnds, Mail!At
  <2> QED
    BY <1>2, <2>1, <2>2, <2>3
<1> QED
  BY <1>4, <1>9, <1>10 DEF MailInv

\* The first code.
LEMMA MailCreate == ASSUME MailInv, Mail!CreateEmailOtpChallenge PROVE MailInv'
<1> DEFINE first == [code |-> 1, attempts |-> 0, resends |-> 0, cooling |-> TRUE]
<1>1. /\ codes = 0 /\ codes' = 1
      /\ UNCHANGED <<mailed, counter, resend, guesses, sessions, faults, secret, enabled, confirm>>
      /\ \/ challenge' = first /\ jobs' = Mail!Queued(0, 1)
         \/ challenge' = None /\ jobs' \in {jobs, Mail!Queued(0, 1)}
  BY DEF Mail!CreateEmailOtpChallenge, Mail!totp
<1>2. first \in Mail!Challenge
  BY DEF Mail!Challenge
<1>3. jobs' \in [0 .. MaxResends -> 0 .. MaxCodes]
  BY <1>1 DEF MailInv, Mail!TypeOK, Mail!Queued
<1>4. \A s \in Slots : ~Waiting(s) /\ ~Waiting(s)'
  BY <1>1 DEF MailInv, PreviousType, ReplacedOnce, Waiting, Mail!Challenge
<1>5. Mail!TypeOK'
  <2>1. codes' \in 0 .. MaxCodes
    BY <1>1
  <2> HIDE DEF first
  <2>2. challenge' \in Mail!Challenge \cup {None}
    BY <1>1, <1>2
  <2> QED
    BY <1>1, <1>3, <2>1, <2>2 DEF MailInv, Mail!TypeOK
<1>6. PreviousType' /\ ReplacedOnce'
  BY <1>4 DEF PreviousType, ReplacedOnce
<1>7. ExchangedOnce'
  BY <1>1 DEF MailInv, ExchangedOnce
<1>8. GuessesCounted'
  <2>1. \A c \in 1 .. MaxCodes : guesses[c] = 0 /\ guesses[c] <= MaxVerify
    BY <1>1 DEF MailInv, GuessesCounted
  <2>2. challenge' # None => challenge'.code = 1 /\ challenge'.attempts = 0
    BY <1>1
  <2> QED
    BY <1>1, <2>1, <2>2 DEF GuessesCounted
<1>9. QueueCaughtUp'
  <2> SUFFICES ASSUME faults = {}, challenge' # None
               PROVE  (jobs[challenge.resends] = challenge.code /\ NoJobAfter(challenge.resends))'
    <3> HIDE DEF first
    <3> QED
      BY <1>1, <1>4 DEF QueueCaughtUp
  <2>1. \A n \in 0 .. MaxResends : jobs[n] = 0
    BY <1>1 DEF MailInv, QueueCaughtUp
  <2>2. challenge'.resends = 0 /\ challenge'.code = 1 /\ jobs' = [jobs EXCEPT ![0] = 1]
    BY <1>1, <2>1 DEF Mail!Queued
  <2>3. jobs'[0] = 1 /\ \A m \in 0 .. MaxResends : m > 0 => jobs'[m] = 0
    BY <2>1, <2>2 DEF MailInv, Mail!TypeOK
  <2> QED
    BY <2>2, <2>3 DEF NoJobAfter
<1>10. Mail!LimitEnds'
  BY <1>1, Zenon DEF MailInv, Mail!LimitEnds, Mail!At
<1> QED
  BY <1>5, <1>6, <1>7, <1>8, <1>9, <1>10 DEF MailInv

\* The record's own moves: a guess, its expiry, the end of its cooldown.
LEMMA MailGuess == ASSUME MailInv, NEW guess, Mail!VerifyEmailOtp(guess) PROVE MailInv'
<1> DEFINE c == challenge.code
<1>1. /\ challenge \in Mail!Challenge /\ challenge # None
      /\ UNCHANGED <<codes, jobs, mailed, counter, resend, faults, secret, enabled, confirm>>
  BY DEF Mail!VerifyEmailOtp, Mail!totp, MailInv, Mail!TypeOK
<1>2. /\ c \in 1 .. MaxCodes /\ challenge.attempts \in 0 .. MaxVerify - 1 /\ c <= codes
      /\ guesses[c] = challenge.attempts /\ sessions = 0
      /\ guesses \in [1 .. MaxCodes -> Nat] /\ codes \in 0 .. MaxCodes
  BY <1>1 DEF MailInv, Mail!TypeOK, GuessesCounted, ExchangedOnce, Mail!Challenge
<1>3. CASE guess = c
  <2>1. challenge' = None /\ sessions' = 1 /\ guesses' = guesses
    BY <1>2, <1>3 DEF Mail!VerifyEmailOtp
  <2>2. Mail!TypeOK'
    BY <1>1, <2>1 DEF MailInv, Mail!TypeOK
  <2>3. PreviousType' /\ ReplacedOnce' /\ GuessesCounted'
    BY <1>1, <2>1 DEF MailInv, PreviousType, ReplacedOnce, GuessesCounted, Waiting, Previous,
                      Mail!Challenge
  <2>4. ExchangedOnce'
    BY <1>1, <1>2, <2>1 DEF ExchangedOnce
  <2>5. QueueCaughtUp'
    BY <1>1, <1>2, <2>1 DEF MailInv, QueueCaughtUp, NoJobAfter, Waiting, Previous
  <2>6. Mail!LimitEnds'
    BY <1>1, Zenon DEF MailInv, Mail!LimitEnds, Mail!At
  <2> QED
    BY <2>2, <2>3, <2>4, <2>5, <2>6 DEF MailInv
<1>4. CASE guess # c
  <2>1. /\ sessions' = 0
        /\ guesses' = [guesses EXCEPT ![c] = @ + 1]
        /\ \/ challenge' = None
           \/ /\ challenge' = [challenge EXCEPT !.attempts = @ + 1]
              /\ challenge.attempts + 1 < MaxVerify
    BY <1>2, <1>4 DEF Mail!VerifyEmailOtp, Mail!WrongGuess
  <2>2. /\ challenge' \in Mail!Challenge \cup {None}
        /\ challenge' # None =>
             /\ challenge'.code = c /\ challenge'.attempts = challenge.attempts + 1
             /\ challenge'.resends = challenge.resends /\ challenge'.cooling = challenge.cooling
    BY <1>1, <1>2, <2>1 DEF Mail!Challenge
  <2>3. /\ guesses' \in [1 .. MaxCodes -> Nat]
        /\ guesses'[c] = challenge.attempts + 1 /\ guesses'[c] <= MaxVerify
        /\ \A d \in 1 .. MaxCodes : d # c => guesses'[d] = guesses[d]
    BY <1>2, <2>1
  <2>4. Mail!TypeOK'
    BY <1>1, <2>1, <2>2, <2>3 DEF MailInv, Mail!TypeOK
  <2>5. PreviousType'
    BY <1>1 DEF MailInv, PreviousType, Waiting, Previous, Mail!Challenge
  <2>6. ReplacedOnce'
    <3>1. \A s \in Slots : Waiting(s) => Previous(s).code \in 1 .. MaxCodes /\ Previous(s).code # c
      BY <1>1 DEF MailInv, PreviousType, ReplacedOnce, Mail!Challenge
    <3> HIDE DEF c
    <3> QED
      BY <1>1, <2>2, <2>3, <3>1 DEF MailInv, ReplacedOnce, Waiting, Previous
  <2>7. GuessesCounted'
    <3> HIDE DEF c
    <3>1. challenge' # None => challenge'.code <= codes' /\ guesses'[challenge'.code] = challenge'.attempts
      BY <1>1, <1>2, <2>2, <2>3
    <3>2. ASSUME NEW d \in 1 .. MaxCodes
          PROVE  guesses'[d] <= MaxVerify /\ (d > codes' => guesses'[d] = 0)
      <4>1. CASE d = c
        BY <1>1, <1>2, <2>3, <4>1
      <4>2. CASE d # c
        <5>1. guesses[d] <= MaxVerify /\ (d > codes => guesses[d] = 0)
          BY DEF MailInv, GuessesCounted
        <5>2. guesses'[d] = guesses[d] /\ codes' = codes
          BY <1>1, <2>3, <4>2
        <5> QED
          BY <5>1, <5>2
      <4> QED
        BY <4>1, <4>2
    <3> QED
      BY <3>1, <3>2 DEF GuessesCounted
  <2>8. ExchangedOnce'
    BY <2>1 DEF ExchangedOnce
  <2>9. QueueCaughtUp'
    BY <1>1, <1>2, <2>2 DEF MailInv, QueueCaughtUp, NoJobAfter, Waiting, Previous
  <2>10. Mail!LimitEnds'
    BY <1>1, Zenon DEF MailInv, Mail!LimitEnds, Mail!At
  <2> QED
    BY <2>4, <2>5, <2>6, <2>7, <2>8, <2>9, <2>10 DEF MailInv
<1> QED
  BY <1>3, <1>4

LEMMA MailTime == ASSUME MailInv, Mail!ChallengeExpires \/ Mail!CooldownEnds PROVE MailInv'
<1>1. /\ challenge \in Mail!Challenge
      /\ UNCHANGED <<codes, jobs, mailed, counter, resend, guesses, sessions, secret, enabled, confirm>>
      /\ faults' = faults \/ faults' = faults \cup {"slow"}
  BY DEF Mail!ChallengeExpires, Mail!CooldownEnds, Mail!totp, MailInv, Mail!TypeOK
<1>2. \/ challenge' = None /\ faults' = faults
      \/ /\ challenge # None /\ challenge' = [challenge EXCEPT !.cooling = FALSE]
         /\ (\A s \in Slots : ~Waiting(s)) \/ faults' # {}
  BY DEF Mail!ChallengeExpires, Mail!CooldownEnds, Waiting
<1>3. /\ challenge' \in Mail!Challenge \cup {None}
      /\ challenge' # None =>
           /\ challenge # None
           /\ challenge'.code = challenge.code /\ challenge'.attempts = challenge.attempts
           /\ challenge'.resends = challenge.resends
  BY <1>1, <1>2 DEF Mail!Challenge
<1>4. Mail!TypeOK'
  BY <1>1, <1>3 DEF MailInv, Mail!TypeOK
<1>5. PreviousType' /\ ExchangedOnce'
  BY <1>1, <1>3 DEF MailInv, PreviousType, ExchangedOnce, Waiting, Previous, Mail!Challenge
<1>6. ReplacedOnce' /\ GuessesCounted'
  BY <1>1, <1>3 DEF MailInv, ReplacedOnce, GuessesCounted, Waiting, Previous
<1>7. QueueCaughtUp'
  <2>1. CASE challenge' = None
    BY <1>1, <1>2, <2>1 DEF MailInv, QueueCaughtUp, NoJobAfter, Waiting, Previous
  <2>2. CASE challenge' # None
    BY <1>1, <1>2, <1>3, <2>2 DEF MailInv, QueueCaughtUp, NoJobAfter, Waiting, Previous
  <2> QED
    BY <2>1, <2>2
<1>8. Mail!LimitEnds'
  BY <1>1, Zenon DEF MailInv, Mail!LimitEnds, Mail!At
<1> QED
  BY <1>4, <1>5, <1>6, <1>7, <1>8 DEF MailInv

\* A resend replaces the code: the one it takes over was in force.
LEMMA MailRotate == ASSUME MailInv, NEW s \in Slots, Mail!RotateForResend(s) PROVE MailInv'
<1> DEFINE next == [code |-> codes + 1, attempts |-> 0, resends |-> challenge.resends + 1,
                    cooling |-> TRUE]
           mine == [step |-> "queue", code |-> codes + 1, previous |-> challenge]
<1>1. /\ challenge \in Mail!Challenge /\ challenge # None /\ challenge.resends < MaxResends
      /\ codes < MaxCodes /\ codes' = codes + 1 /\ codes \in Nat
      /\ challenge' = next /\ resend' = [resend EXCEPT ![s] = mine]
      /\ UNCHANGED <<jobs, mailed, counter, guesses, sessions, faults, secret, enabled, confirm>>
      /\ resend \in [Slots -> MailRequest]
  BY MailSlots DEF Mail!RotateForResend, Mail!Eligible, Mail!totp, MailInv, Mail!TypeOK
<1>2. ~challenge.cooling
  BY Zenon DEF Mail!RotateForResend, Mail!Eligible
<1>3. /\ challenge.code \in 1 .. MaxCodes /\ challenge.code <= codes
      /\ guesses[challenge.code] = challenge.attempts /\ sessions = 0
      /\ challenge.resends \in 0 .. MaxResends
  BY <1>1 DEF MailInv, GuessesCounted, ExchangedOnce, Mail!Challenge
<1>4. next \in Mail!Challenge /\ mine \in MailRequest
  BY <1>1, <1>3 DEF Mail!Challenge, MailRequest
<1>5. /\ resend'[s].step = "queue" /\ resend'[s].code = codes + 1 /\ resend'[s].previous = challenge
      /\ \A t \in Slots \ {s} : resend'[t] = resend[t]
      /\ challenge'.code = codes + 1 /\ challenge'.attempts = 0
      /\ challenge'.resends = challenge.resends + 1 /\ challenge'.cooling = TRUE
      /\ ~Waiting(s) /\ resend[s].step = "rotate"
  BY <1>1 DEF Waiting, Mail!RotateForResend, Mail!At
<1> HIDE DEF next, mine
<1>6. Mail!TypeOK'
  <2>1. resend' \in [Slots -> MailRequest]
    BY <1>1, <1>4
  <2>2. /\ mailed \subseteq 1 .. MaxCodes /\ guesses \in [1 .. MaxCodes -> Nat]
        /\ jobs \in [0 .. MaxResends -> 0 .. MaxCodes]
        /\ counter \in [n : Nat, ttl : BOOLEAN] /\ sessions \in Nat
        /\ secret \in 0 .. MaxCodes /\ enabled \in BOOLEAN /\ confirm \in 0 .. MaxCodes
    BY Zenon DEF MailInv, Mail!TypeOK
  <2>3. challenge' \in Mail!Challenge \cup {None} /\ codes' \in 0 .. MaxCodes
    BY <1>1, <1>3, <1>4
  <2> QED
    BY <1>1, <2>1, <2>2, <2>3 DEF Mail!TypeOK, MailRequest
<1>7. ASSUME NEW t \in Slots, t # s, Waiting(t)'
      PROVE  /\ Waiting(t) /\ Previous(t)' = Previous(t) /\ resend'[t].code = resend[t].code
             /\ Previous(t) \in Mail!Challenge /\ Previous(t).resends < MaxResends
             /\ resend[t].code \in 1 .. MaxCodes
             /\ Previous(t).code < resend[t].code /\ resend[t].code <= codes
             /\ guesses[Previous(t).code] = Previous(t).attempts
             /\ Previous(t).code # challenge.code
             /\ Previous(t).code \in 1 .. MaxCodes
  BY <1>1, <1>5, <1>7 DEF MailInv, PreviousType, ReplacedOnce, Waiting, Previous, Mail!Challenge
<1>8. Previous(s)' = challenge /\ Waiting(s)'
  BY <1>5 DEF Previous, Waiting
<1>9. PreviousType'
  <2>1. Mail!Challenge' = Mail!Challenge
    BY DEF Mail!Challenge
  <2>2. codes + 1 \in 1 .. MaxCodes
    BY <1>1
  <2> QED
    BY <1>1, <1>5, <1>7, <1>8, <2>1, <2>2 DEF PreviousType
<1>10. ReplacedOnce'
  <2> SUFFICES ASSUME NEW t \in Slots, Waiting(t)'
               PROVE  (/\ Previous(t).code < resend[t].code /\ resend[t].code <= codes
                       /\ guesses[Previous(t).code] = Previous(t).attempts
                       /\ challenge # None => challenge.code # Previous(t).code
                       /\ \A u \in Slots \ {t} : Waiting(u) => Previous(u).code # Previous(t).code)'
    BY Zenon DEF ReplacedOnce
  <2>1. CASE t = s
    BY <1>1, <1>3, <1>5, <1>7, <1>8, <2>1
  <2>2. CASE t # s
    <3>1. ASSUME NEW u \in Slots \ {t}, Waiting(u)' PROVE Previous(u)'.code # Previous(t)'.code
      BY <1>5, <1>7, <1>8, <2>2, <3>1 DEF MailInv, ReplacedOnce
    <3> QED
      BY <1>1, <1>5, <1>7, <2>2, <3>1
  <2> QED
    BY <2>1, <2>2
<1>11. GuessesCounted'
  <2>1. guesses[codes + 1] = 0 /\ codes + 1 \in 1 .. MaxCodes
    BY <1>1 DEF MailInv, GuessesCounted
  <2>2. ASSUME NEW d \in 1 .. MaxCodes
        PROVE  guesses'[d] <= MaxVerify /\ (d > codes' => guesses'[d] = 0)
    BY <1>1 DEF MailInv, GuessesCounted
  <2> QED
    BY <1>1, <1>5, <2>1, <2>2 DEF GuessesCounted
<1>12. ExchangedOnce'
  BY <1>1, <1>3 DEF ExchangedOnce
<1>13. QueueCaughtUp'
  <2> SUFFICES ASSUME faults = {} PROVE QueueCaughtUp'
    BY <1>1 DEF QueueCaughtUp
  <2>1. \A t \in Slots : ~Waiting(t)
    BY <1>1, <1>2, Zenon DEF MailInv, QueueCaughtUp
  <2>2. jobs[challenge.resends] = challenge.code /\ NoJobAfter(challenge.resends)
    BY <1>1, <2>1 DEF MailInv, QueueCaughtUp
  <2>3. \A t \in Slots : Waiting(t)' => t = s
    BY <1>5, <2>1 DEF Waiting
  <2>4. jobs'[Previous(s)'.resends] = Previous(s)'.code /\ NoJobAfter(Previous(s).resends)'
    BY <1>1, <1>8, <2>2 DEF NoJobAfter
  <2>5. challenge'.cooling
    BY <1>5
  <2>6. codes' # 0
    BY <1>1
  <2> QED
    BY <1>5, <1>8, <2>3, <2>4, <2>5, <2>6 DEF QueueCaughtUp
<1>14. Mail!LimitEnds'
  <2>1. \A t \in Slots : resend[t].step = "expire" => resend'[t].step = "expire"
    BY <1>5
  <2> QED
    BY <1>1, <2>1, Zenon DEF MailInv, Mail!LimitEnds, Mail!At
<1> QED
  BY <1>6, <1>9, <1>10, <1>11, <1>12, <1>13, <1>14 DEF MailInv

\* What a waiting resend knows while it waits.
LEMMA MailWaiting ==
  ASSUME MailInv, NEW s \in Slots, Waiting(s)
  PROVE  /\ Previous(s) \in Mail!Challenge /\ Previous(s).resends < MaxResends
         /\ Previous(s).resends \in 0 .. MaxResends
         /\ Previous(s).code \in 1 .. MaxCodes /\ resend[s].code \in 1 .. MaxCodes
         /\ Previous(s).code < resend[s].code /\ resend[s].code <= codes
         /\ guesses[Previous(s).code] = Previous(s).attempts
BY DEF MailInv, PreviousType, ReplacedOnce, Mail!Challenge

\* Its job is queued, with the code it had written.
LEMMA MailQueue == ASSUME MailInv, NEW s \in Slots, Mail!QueueEmailOtp(s) PROVE MailInv'
<1> DEFINE n == Previous(s).resends + 1
<1>1. /\ Waiting(s) /\ Mail!Leave(s)
      /\ UNCHANGED <<challenge, codes, mailed, counter, guesses, sessions, faults, secret,
                     enabled, confirm>>
      /\ jobs' = Mail!Queued(n, resend[s].code)
      /\ resend[s].step = "queue"
  BY DEF Mail!QueueEmailOtp, Mail!At, Mail!Attempt, Mail!totp, Waiting, Previous
<1>2. /\ resend' \in [Slots -> MailRequest]
      /\ \A t \in Slots \ {s} : resend'[t] = resend[t]
  BY <1>1, MailGoto
<1>3. ~Waiting(s)' /\ \A t \in Slots \ {s} : Waiting(t)' <=> Waiting(t)
  BY <1>1, <1>2, MailSlots DEF Waiting, Mail!Leave, Mail!Idle
<1>4. n \in 0 .. MaxResends /\ jobs \in [0 .. MaxResends -> 0 .. MaxCodes]
  <2>1. Previous(s).resends < MaxResends /\ Previous(s).resends \in 0 .. MaxResends
    BY <1>1, MailWaiting
  <2>2. jobs \in [0 .. MaxResends -> 0 .. MaxCodes]
    BY DEF MailInv, Mail!TypeOK
  <2> QED
    BY <2>1, <2>2
<1>5. jobs' \in [0 .. MaxResends -> 0 .. MaxCodes]
  <2>1. resend[s].code \in 0 .. MaxCodes
    BY <1>1, MailWaiting
  <2> QED
    BY <1>1, <1>4, <2>1 DEF Mail!Queued
<1>6. Mail!TypeOK'
  BY <1>1, <1>2, <1>5 DEF MailInv, Mail!TypeOK, MailRequest
<1>7. PreviousType' /\ ReplacedOnce'
  BY <1>1, <1>2, <1>3 DEF MailInv, PreviousType, ReplacedOnce, Previous, Mail!Challenge
<1>8. ExchangedOnce' /\ GuessesCounted'
  BY <1>1 DEF MailInv, ExchangedOnce, GuessesCounted
<1>9. QueueCaughtUp'
  <2> SUFFICES ASSUME faults = {} PROVE QueueCaughtUp'
    BY <1>1 DEF QueueCaughtUp
  <2>1. /\ \A t \in Slots \ {s} : ~Waiting(t)
        /\ NoJobAfter(Previous(s).resends)
        /\ challenge # None => challenge.code = resend[s].code /\ challenge.resends = n
    BY <1>1 DEF MailInv, QueueCaughtUp
  <2>2. jobs[n] = 0
    BY <1>4, <2>1, <1>1, MailWaiting DEF NoJobAfter
  <2>3. jobs' = [jobs EXCEPT ![n] = resend[s].code]
    BY <1>1, <2>2 DEF Mail!Queued
  <2>4. jobs'[n] = resend[s].code /\ \A m \in 0 .. MaxResends : m > n => jobs'[m] = 0
    <3>1. \A m \in 0 .. MaxResends : m > n => m > Previous(s).resends
      BY <1>1, MailWaiting
    <3> QED
      BY <1>4, <2>1, <2>3, <3>1 DEF NoJobAfter
  <2>5. codes' # 0
    BY <1>1, MailWaiting
  <2>6. \A t \in Slots : ~Waiting(t)'
    BY <1>3, <2>1
  <2>7. challenge' # None => (jobs[challenge.resends] = challenge.code /\ NoJobAfter(challenge.resends))'
    BY <1>1, <2>1, <2>4 DEF NoJobAfter
  <2> QED
    BY <2>5, <2>6, <2>7 DEF QueueCaughtUp
<1>10. Mail!LimitEnds'
  <2>1. \A t \in Slots : resend[t].step = "expire" => resend'[t].step = "expire"
    BY <1>1, <1>2
  <2> QED
    BY <1>1, <2>1, Zenon DEF MailInv, Mail!LimitEnds, Mail!At
<1> QED
  BY <1>6, <1>7, <1>8, <1>9, <1>10 DEF MailInv

LEMMA MailQueueFails == ASSUME MailInv, NEW s \in Slots, Mail!QueueFails(s) PROVE MailInv'
<1>1. /\ Waiting(s) /\ Mail!Goto(s, "restore") /\ resend[s].step = "queue"
      /\ UNCHANGED <<challenge, codes, mailed, counter, guesses, sessions, secret, enabled, confirm>>
      /\ \/ jobs' = jobs /\ faults' = faults
         \/ /\ faults' = faults \cup {"lost"}
            /\ jobs' = Mail!Queued(Previous(s).resends + 1, resend[s].code)
  BY DEF Mail!QueueFails, Mail!At, Mail!Attempt, Mail!totp, Waiting, Previous
<1>2. /\ resend' \in [Slots -> MailRequest]
      /\ \A t \in Slots \ {s} : resend'[t] = resend[t]
  BY <1>1, MailGoto
<1>3. resend'[s].step = "restore" /\ resend'[s].code = resend[s].code
      /\ resend'[s].previous = resend[s].previous
  BY <1>1, MailSlots DEF Mail!Goto, MailRequest
<1>4. PreviousType' /\ ExchangedOnce' /\ ReplacedOnce' /\ GuessesCounted' /\ QueueCaughtUp'
  <2>1. \A t \in Slots : /\ Waiting(t)' <=> Waiting(t)
                         /\ Previous(t)' = Previous(t) /\ resend'[t].code = resend[t].code
    BY <1>1, <1>2, <1>3 DEF Waiting, Previous
  <2> QED
    BY <1>1, <2>1, MailFrame
<1>5. jobs' \in [0 .. MaxResends -> 0 .. MaxCodes]
  BY <1>1, MailWaiting DEF MailInv, Mail!TypeOK, Mail!Queued
<1>6. Mail!TypeOK'
  BY <1>1, <1>2, <1>5 DEF MailInv, Mail!TypeOK, MailRequest
<1>7. Mail!LimitEnds'
  <2>1. \A t \in Slots : resend[t].step = "expire" => resend'[t].step = "expire"
    BY <1>1, <1>2
  <2> QED
    BY <1>1, <2>1, Zenon DEF MailInv, Mail!LimitEnds, Mail!At
<1> QED
  BY <1>4, <1>6, <1>7 DEF MailInv

\* The old record comes back only over the one that replaced it.
LEMMA MailRestore == ASSUME MailInv, NEW s \in Slots, Mail!RestoreAfterQueueFailure(s) PROVE MailInv'
<1>1. /\ Waiting(s) /\ Mail!Goto(s, "release") /\ resend[s].step = "restore"
      /\ challenge' = IF challenge # None /\ challenge.code = resend[s].code
                      THEN Previous(s) ELSE challenge
      /\ UNCHANGED <<codes, jobs, mailed, counter, guesses, sessions, faults, secret, enabled, confirm>>
  BY DEF Mail!RestoreAfterQueueFailure, Mail!At, Mail!totp, Waiting, Previous
<1>2. /\ resend' \in [Slots -> MailRequest]
      /\ \A t \in Slots \ {s} : resend'[t] = resend[t]
  BY <1>1, MailGoto
<1>3. ~Waiting(s)' /\ \A t \in Slots \ {s} : Waiting(t)' <=> Waiting(t)
  BY <1>1, <1>2, MailSlots DEF Waiting, Mail!Goto, MailRequest
<1>4. Mail!TypeOK'
  BY <1>1, <1>2, MailWaiting DEF MailInv, Mail!TypeOK, MailRequest
<1>5. PreviousType'
  BY <1>1, <1>2, <1>3 DEF MailInv, PreviousType, Previous, Mail!Challenge
<1>6. ReplacedOnce'
  BY <1>1, <1>2, <1>3 DEF MailInv, ReplacedOnce, Previous
<1>7. GuessesCounted'
  <2>1. Previous(s).code <= codes /\ guesses[Previous(s).code] = Previous(s).attempts
    <3>1. codes \in Nat
      BY DEF MailInv, Mail!TypeOK
    <3> QED
      BY <1>1, <3>1, MailWaiting
  <2>2. /\ challenge # None => challenge.code <= codes /\ guesses[challenge.code] = challenge.attempts
        /\ \A c \in 1 .. MaxCodes : guesses[c] <= MaxVerify /\ (c > codes => guesses[c] = 0)
    BY Zenon DEF MailInv, GuessesCounted
  <2>3. challenge' = Previous(s) \/ challenge' = challenge
    BY <1>1
  <2> QED
    BY <1>1, <2>1, <2>2, <2>3 DEF GuessesCounted
<1>8. ExchangedOnce'
  BY <1>1 DEF MailInv, ExchangedOnce
<1>9. QueueCaughtUp'
  <2> SUFFICES ASSUME faults = {} PROVE QueueCaughtUp'
    BY <1>1 DEF QueueCaughtUp
  <2>1. /\ \A t \in Slots \ {s} : ~Waiting(t)
        /\ jobs[Previous(s).resends] = Previous(s).code /\ NoJobAfter(Previous(s).resends)
        /\ challenge # None => challenge.code = resend[s].code
    BY <1>1 DEF MailInv, QueueCaughtUp
  <2>2. challenge' # None => challenge' = Previous(s)
    BY <1>1, <2>1
  <2>3. \A t \in Slots : ~Waiting(t)'
    BY <1>3, <2>1
  <2>4. codes' # 0
    BY <1>1, MailWaiting
  <2>5. challenge' # None => (jobs[challenge.resends] = challenge.code /\ NoJobAfter(challenge.resends))'
    BY <1>1, <2>1, <2>2 DEF NoJobAfter
  <2> QED
    BY <2>3, <2>4, <2>5 DEF QueueCaughtUp
<1>10. Mail!LimitEnds'
  <2>1. \A t \in Slots : resend[t].step = "expire" => resend'[t].step = "expire"
    BY <1>1, <1>2
  <2> QED
    BY <1>1, <2>1, Zenon DEF MailInv, Mail!LimitEnds, Mail!At
<1> QED
  BY <1>4, <1>5, <1>6, <1>7, <1>8, <1>9, <1>10 DEF MailInv

LEMMA MailNext == MailInv /\ [Mail!Next]_(Mail!vars) => MailInv'
<1> SUFFICES ASSUME MailInv, [Mail!Next]_(Mail!vars) PROVE MailInv'
  OBVIOUS
<1>1. ASSUME NEW s \in Slots, Mail!Resend(s) PROVE MailInv'
  BY <1>1, MailCounts, MailRotate, MailQueue, MailQueueFails, MailRestore, MailSideSteps
     DEF Mail!Resend
<1>2. CASE \E guess \in mailed \cup {0} : Mail!VerifyEmailOtp(guess)
  BY <1>2, MailGuess
<1> QED
  BY <1>1, <1>2, MailCreate, MailTime, MailSideSteps DEF Mail!Next, Mail!EmailNext

LEMMA MailIsSound ==
  MailInv => Mail!TypeOK /\ Mail!OneSessionPerChallenge /\ Mail!GuessesBounded
             /\ Mail!StoredCodeWasQueued /\ Mail!LimitEnds
<1> SUFFICES ASSUME MailInv
             PROVE  Mail!OneSessionPerChallenge /\ Mail!GuessesBounded /\ Mail!StoredCodeWasQueued
  BY DEF MailInv
<1>1. Mail!OneSessionPerChallenge /\ Mail!GuessesBounded
  BY DEF MailInv, ExchangedOnce, GuessesCounted, Mail!OneSessionPerChallenge, Mail!GuessesBounded
<1>2. CASE faults = {} /\ challenge # None /\ \A s \in Slots : ~Waiting(s)
  <2>1. jobs[challenge.resends] = challenge.code /\ challenge.resends \in 0 .. MaxResends
    BY <1>2 DEF MailInv, QueueCaughtUp, Mail!TypeOK, Mail!Challenge
  <2> QED
    BY <1>1, <2>1 DEF Mail!StoredCodeWasQueued
<1> QED
  BY <1>1, <1>2 DEF Mail!StoredCodeWasQueued, Waiting

---------------------------------------------------------------------------
(* Sign-ins and synchronisations                                           *)

\* Federation with identities S, mapped roles M, and any of its settings.
Fed(S, M, jit, outages, admin) == INSTANCE Federation WITH
  Subjects <- S, Mapped <- M, JitEnabled <- jit, Outages <- outages, AdminActs <- admin,
  slot <- login

IdleLogin == [step |-> "idle", subject |-> None, groups |-> {}, status |-> "ACTIVE",
              existing |-> {}, fresh |-> TRUE, clean |-> TRUE]

LoginType(S, M) ==
  [step : {"idle", "byExternal", "byEmail", "link", "create", "default", "baseline", "add",
           "read", "apply"},
   subject : S \cup {None}, groups : SUBSET M, status : {"INVITED", "ACTIVE", "DISABLED"},
   existing : SUBSET (M \cup {DefaultRole}), fresh : BOOLEAN, clean : BOOLEAN]

FedInv(S, M) ==
  /\ account \in [subject : S \cup {None}, status : {"INVITED", "ACTIVE", "DISABLED"}]
                   \cup {None}
  /\ roles \subseteq M \cup {DefaultRole}
  /\ groups \in [S -> SUBSET M]
  /\ settled \in BOOLEAN
  /\ login \in [Slots -> LoginType(S, M)]
  /\ \A s \in Slots : login[s].step = "idle" => login[s] = IdleLogin

LEMMA FedInit ==
  ASSUME NEW S, NEW M, NEW jit, NEW outages, NEW admin, Fed(S, M, jit, outages, admin)!Init
  PROVE  FedInv(S, M) /\ ~settled
<1> USE DEF Fed!Init, Fed!Idle, Fed!Statuses, IdleLogin
<1>1. account \in [subject : S \cup {None}, status : {"INVITED", "ACTIVE", "DISABLED"}]
                   \cup {None}
  OBVIOUS
<1>2. roles \subseteq M \cup {DefaultRole}
  OBVIOUS
<1>3. groups \in [S -> SUBSET M]
  OBVIOUS
<1>4. login \in [Slots -> LoginType(S, M)] /\ \A s \in Slots : login[s] = IdleLogin
  BY DEF LoginType
<1>5. settled \in BOOLEAN /\ ~settled
  BY Zenon
<1> QED
  BY <1>1, <1>2, <1>3, <1>4, <1>5 DEF FedInv

\* A step of one request keeps the requests in their types.
LEMMA FedSlotStep ==
  ASSUME NEW S, NEW M, FedInv(S, M), NEW s \in Slots, NEW r \in LoginType(S, M),
         r.step = "idle" => r = IdleLogin, login' = [login EXCEPT ![s] = r]
  PROVE  /\ login' \in [Slots -> LoginType(S, M)]
         /\ \A t \in Slots : login'[t].step = "idle" => login'[t] = IdleLogin
BY DEF FedInv

LEMMA IdleLoginType ==
  ASSUME NEW S, NEW M PROVE IdleLogin \in LoginType(S, M) /\ IdleLogin.step = "idle"
BY DEF IdleLogin, LoginType

LEMMA FedMoves ==
  ASSUME NEW S, NEW M, NEW jit, NEW outages, NEW admin, FedInv(S, M), NEW s \in Slots,
         \/ Fed(S, M, jit, outages, admin)!Leave(s)
         \/ \E step \in {"byEmail", "link", "create", "default", "baseline", "add", "read"} :
              Fed(S, M, jit, outages, admin)!Goto(s, step)
  PROVE  /\ login' \in [Slots -> LoginType(S, M)]
         /\ \A t \in Slots : login'[t].step = "idle" => login'[t] = IdleLogin
<1>1. CASE Fed(S, M, jit, outages, admin)!Leave(s)
  BY <1>1, FedSlotStep, IdleLoginType DEF Fed!Leave, Fed!Idle, IdleLogin
<1>2. ASSUME NEW step \in {"byEmail", "link", "create", "default", "baseline", "add", "read"},
             Fed(S, M, jit, outages, admin)!Goto(s, step)
      PROVE  /\ login' \in [Slots -> LoginType(S, M)]
             /\ \A t \in Slots : login'[t].step = "idle" => login'[t] = IdleLogin
  <2> DEFINE r == [login[s] EXCEPT !.step = step]
  <2>1. r \in LoginType(S, M) /\ r.step # "idle"
    BY <1>2 DEF FedInv, LoginType
  <2>2. login' = [login EXCEPT ![s] = r]
    BY <1>2 DEF Fed!Goto
  <2> QED
    BY <2>1, <2>2, FedSlotStep
<1> QED
  BY <1>1, <1>2

\* Where a login or a synchronisation begins.
Entrances == {"byExternal", "read"}

\* A request arrives: it takes groups along, and others may lose their "clean".
Enters(s, step, d, fetched) ==
  LET accurate == fetched = groups[d]
  IN  /\ login[s] = IdleLogin /\ UNCHANGED <<account, roles, groups>>
      /\ settled' = (settled /\ accurate)
      /\ login'[s].groups = fetched /\ login'[s].step = step
      /\ login'[s].fresh = accurate
      /\ login'[s].clean = (\A t \in Slots : login[t].fresh)
      /\ \A t \in Slots \ {s} :
           /\ login[t] = IdleLogin => login'[t] = IdleLogin
           /\ login[t] # IdleLogin => login'[t] = [login[t] EXCEPT !.clean = @ /\ accurate]

LEMMA FedTake ==
  ASSUME NEW S, NEW M, NEW jit, NEW outages, NEW admin, FedInv(S, M), NEW s \in Slots,
         NEW step \in Entrances, NEW d \in S, NEW fetched \in SUBSET M,
         Fed(S, M, jit, outages, admin)!Take(s, step, d, fetched)
  PROVE  FedInv(S, M)' /\ Enters(s, step, d, fetched)
<1> DEFINE accurate == fetched = groups[d]
           mine == [IdleLogin EXCEPT !.step = step, !.subject = d, !.groups = fetched,
                                     !.fresh = accurate,
                                     !.clean = \A t \in Slots : login[t].fresh]
           other(t) == [login[t] EXCEPT !.clean = @ /\ (accurate \/ login[t] = IdleLogin)]
<1>1. /\ login[s] = IdleLogin /\ UNCHANGED <<account, roles, groups>>
      /\ settled' = (settled /\ accurate)
      /\ login' = [t \in Slots |-> IF t = s THEN mine ELSE other(t)]
  BY DEF Fed!Take, Fed!Idle, IdleLogin
<1>2. /\ mine \in LoginType(S, M) /\ mine.step = step /\ mine.groups = fetched
      /\ mine.fresh = accurate /\ mine.clean = (\A t \in Slots : login[t].fresh)
  BY DEF IdleLogin, LoginType, Entrances
<1>3. ASSUME NEW t \in Slots
      PROVE  /\ other(t) \in LoginType(S, M) /\ other(t).step = login[t].step
             /\ login[t] = IdleLogin => other(t) = IdleLogin
             /\ login[t] # IdleLogin => other(t) = [login[t] EXCEPT !.clean = @ /\ accurate]
  <2>1. login[t] \in LoginType(S, M)
    BY DEF FedInv
  <2>2. other(t) \in LoginType(S, M) /\ other(t).step = login[t].step
    BY <2>1 DEF LoginType
  <2>3. ASSUME login[t] = IdleLogin PROVE other(t) = IdleLogin
    <3>1. /\ other(t).step = "idle" /\ other(t).subject = None /\ other(t).groups = {}
          /\ other(t).status = "ACTIVE" /\ other(t).existing = {}
      BY <2>1, <2>3 DEF IdleLogin, LoginType
    <3>2. other(t).fresh = TRUE /\ login[t].clean = TRUE
      BY <2>1, <2>3 DEF IdleLogin, LoginType
    <3>3. other(t).clean = (login[t].clean /\ (accurate \/ login[t] = IdleLogin))
      BY <2>1 DEF LoginType
    <3>4. other(t).clean = TRUE
      BY <2>3, <3>2, <3>3, Zenon
    <3> HIDE DEF other
    <3> QED
      BY <2>2, <3>1, <3>2, <3>4 DEF IdleLogin, LoginType
  <2>4. login[t] # IdleLogin => other(t) = [login[t] EXCEPT !.clean = @ /\ accurate]
    BY <2>1 DEF LoginType
  <2> QED
    BY <2>2, <2>3, <2>4
<1> HIDE DEF mine, other
<1>4. /\ login' \in [Slots -> LoginType(S, M)]
      /\ login'[s] = mine /\ \A t \in Slots \ {s} : login'[t] = other(t)
  BY <1>1, <1>2, <1>3
<1>5. \A t \in Slots : login'[t].step = "idle" => login'[t] = IdleLogin
  BY <1>2, <1>3, <1>4 DEF FedInv, Entrances
<1>6. settled' \in BOOLEAN
  BY <1>1, Zenon
<1>7. FedInv(S, M)'
  <2>1. LoginType(S, M)' = LoginType(S, M)
    BY DEF LoginType
  <2> QED
    BY <1>1, <1>4, <1>5, <1>6, <2>1 DEF FedInv
<1>8. Enters(s, step, d, fetched)
  BY <1>1, <1>2, <1>3, <1>4 DEF Enters
<1> QED
  BY <1>7, <1>8

\* The steps of one request, in types.
LEMMA FedStep ==
  ASSUME NEW S, NEW M, NEW jit, NEW outages, NEW admin, FedInv(S, M), NEW s \in Slots,
         Fed(S, M, jit, outages, admin)!Step(s)
  PROVE  FedInv(S, M)'
<1> USE DEF Fed!At
<1>a. login[s] \in LoginType(S, M) /\ LoginType(S, M)' = LoginType(S, M)
  BY DEF FedInv, LoginType
<1>b. ASSUME /\ login' \in [Slots -> LoginType(S, M)]
             /\ \A t \in Slots : login'[t].step = "idle" => login'[t] = IdleLogin,
             UNCHANGED <<account, roles, groups, settled>>
      PROVE  FedInv(S, M)'
  BY <1>a, <1>b DEF FedInv
<1>1. CASE Fed(S, M, jit, outages, admin)!FindByExternal(s)
           \/ Fed(S, M, jit, outages, admin)!CountRoles(s)
  BY <1>b, <1>1, FedMoves DEF Fed!FindByExternal, Fed!CountRoles
<1>2. CASE Fed(S, M, jit, outages, admin)!FindByEmail(s)
  <2>1. CASE Fed(S, M, jit, outages, admin)!Leave(s)
             \/ Fed(S, M, jit, outages, admin)!Goto(s, "create")
    BY <1>b, <1>2, <2>1, FedMoves DEF Fed!FindByEmail
  <2>2. CASE /\ account # None
             /\ login' = [login EXCEPT ![s].step = "link", ![s].status = account.status]
    <3> DEFINE r == [login[s] EXCEPT !.step = "link", !.status = account.status]
    <3>1. account.status \in {"INVITED", "ACTIVE", "DISABLED"}
      BY <2>2 DEF FedInv
    <3>2. r \in LoginType(S, M) /\ r.step # "idle"
      BY <1>a, <3>1 DEF LoginType
    <3>3. login' = [login EXCEPT ![s] = r]
      BY <2>2
    <3> QED
      BY <1>b, <1>2, <3>2, <3>3, FedSlotStep DEF Fed!FindByEmail
  <2> QED
    BY <1>2, <2>1, <2>2 DEF Fed!FindByEmail
<1>3. CASE Fed(S, M, jit, outages, admin)!LinkAccount(s)
           \/ Fed(S, M, jit, outages, admin)!CreateAccount(s)
  <2>1. account' \in [subject : S \cup {None}, status : {"INVITED", "ACTIVE", "DISABLED"}]
                       \cup {None}
    BY <1>a, <1>3 DEF Fed!LinkAccount, Fed!CreateAccount, FedInv, LoginType
  <2>2. /\ login' \in [Slots -> LoginType(S, M)]
        /\ \A t \in Slots : login'[t].step = "idle" => login'[t] = IdleLogin
    BY <1>3, FedMoves DEF Fed!LinkAccount, Fed!CreateAccount
  <2>3. UNCHANGED <<roles, groups, settled>>
    BY <1>3 DEF Fed!LinkAccount, Fed!CreateAccount
  <2> QED
    BY <1>a, <2>1, <2>2, <2>3 DEF FedInv
<1>4. CASE Fed(S, M, jit, outages, admin)!GiveDefaultRole(s)
           \/ Fed(S, M, jit, outages, admin)!AddBaselineRole(s)
  <2>1. /\ login' \in [Slots -> LoginType(S, M)]
        /\ \A t \in Slots : login'[t].step = "idle" => login'[t] = IdleLogin
    BY <1>4, FedMoves DEF Fed!GiveDefaultRole, Fed!AddBaselineRole, Fed!AddRole
  <2>2. UNCHANGED <<account, groups, settled>> /\ roles' = roles \cup {DefaultRole}
    BY <1>4 DEF Fed!GiveDefaultRole, Fed!AddBaselineRole, Fed!AddRole
  <2> QED
    BY <1>a, <2>1, <2>2 DEF FedInv
<1>5. CASE Fed(S, M, jit, outages, admin)!ReadRoles(s)
  <2> DEFINE r == [login[s] EXCEPT !.step = "apply", !.existing = roles]
  <2>1. r \in LoginType(S, M) /\ r.step # "idle"
    BY <1>a DEF FedInv, LoginType
  <2>2. login' = [login EXCEPT ![s] = r]
    BY <1>5 DEF Fed!ReadRoles
  <2> QED
    BY <1>b, <1>5, <2>1, <2>2, FedSlotStep DEF Fed!ReadRoles
<1>6. CASE Fed(S, M, jit, outages, admin)!CreateRole(s)
  <2>1. PICK g \in M : /\ g \in login[s].groups /\ roles' = roles \cup {g}
                       /\ UNCHANGED <<account, groups, settled>>
                       /\ \/ Fed(S, M, jit, outages, admin)!Leave(s)
                          \/ login' = [login EXCEPT ![s].existing = @ \cup {g}]
    BY <1>a, <1>6 DEF Fed!CreateRole, Fed!ToCreate, Fed!AddRole, LoginType
  <2>2. CASE Fed(S, M, jit, outages, admin)!Leave(s)
    BY <1>a, <2>1, <2>2, FedMoves DEF FedInv
  <2>3. CASE login' = [login EXCEPT ![s].existing = @ \cup {g}]
    <3> DEFINE r == [login[s] EXCEPT !.existing = @ \cup {g}]
    <3>1. r \in LoginType(S, M) /\ r.step # "idle"
      BY <1>a, <1>6 DEF LoginType, Fed!CreateRole
    <3>2. login' = [login EXCEPT ![s] = r]
      BY <2>3
    <3>3. /\ login' \in [Slots -> LoginType(S, M)]
          /\ \A t \in Slots : login'[t].step = "idle" => login'[t] = IdleLogin
      BY <3>1, <3>2, FedSlotStep
    <3> QED
      BY <1>a, <2>1, <3>3 DEF FedInv
  <2> QED
    BY <2>1, <2>2, <2>3
<1>7. CASE Fed(S, M, jit, outages, admin)!DeleteRole(s)
  <2>1. PICK g : /\ roles' = roles \ {g} /\ UNCHANGED <<account, groups, settled>>
                 /\ login' = [login EXCEPT ![s].existing = @ \ {g}]
    BY <1>7 DEF Fed!DeleteRole
  <2> DEFINE r == [login[s] EXCEPT !.existing = @ \ {g}]
  <2>2. r \in LoginType(S, M) /\ r.step # "idle"
    BY <1>a, <1>7 DEF LoginType, Fed!DeleteRole
  <2>3. login' = [login EXCEPT ![s] = r]
    BY <2>1
  <2>4. /\ login' \in [Slots -> LoginType(S, M)]
        /\ \A t \in Slots : login'[t].step = "idle" => login'[t] = IdleLogin
    BY <2>2, <2>3, FedSlotStep
  <2> QED
    BY <1>a, <2>1, <2>4 DEF FedInv
<1>8. CASE Fed(S, M, jit, outages, admin)!Finish(s)
  <2>1. /\ login' \in [Slots -> LoginType(S, M)]
        /\ \A t \in Slots : login'[t].step = "idle" => login'[t] = IdleLogin
    BY <1>8, FedMoves DEF Fed!Finish
  <2>2. UNCHANGED <<account, roles, groups>>
    BY <1>8 DEF Fed!Finish
  <2>3. settled' \in BOOLEAN
    BY <1>8, Zenon DEF Fed!Finish
  <2> QED
    BY <1>a, <2>1, <2>2, <2>3 DEF FedInv
<1> QED
  BY <1>1, <1>2, <1>3, <1>4, <1>5, <1>6, <1>7, <1>8 DEF Fed!Step

\* A change of membership and the administrator's update.
LEMMA FedWorld ==
  ASSUME NEW S, NEW M, NEW jit, NEW outages, NEW admin, FedInv(S, M),
         \/ \E d \in S, new \in SUBSET M : Fed(S, M, jit, outages, admin)!DirectoryChanges(d, new)
         \/ \E new \in {"INVITED", "ACTIVE", "DISABLED"} :
              Fed(S, M, jit, outages, admin)!UpdateStatus(new)
         \/ UNCHANGED Fed(S, M, jit, outages, admin)!vars
  PROVE  FedInv(S, M)'
<1>1. LoginType(S, M)' = LoginType(S, M)
  BY DEF LoginType
<1>2. CASE \E d \in S, new \in SUBSET M :
             Fed(S, M, jit, outages, admin)!DirectoryChanges(d, new)
  <2> DEFINE stale(t) == [login[t] EXCEPT !.fresh = login[t] = IdleLogin]
  <2>1. PICK d \in S, new \in SUBSET M :
          /\ groups' = [groups EXCEPT ![d] = new]
          /\ login' = [t \in Slots |-> stale(t)]
          /\ UNCHANGED <<account, roles>>
    BY <1>2 DEF Fed!DirectoryChanges, Fed!Idle, IdleLogin
  <2>2. settled' \in BOOLEAN
    BY <1>2, Zenon DEF Fed!DirectoryChanges
  <2>3. ASSUME NEW t \in Slots
        PROVE  stale(t) \in LoginType(S, M) /\ (stale(t).step = "idle" => stale(t) = IdleLogin)
    <3>1. login[t] \in LoginType(S, M) /\ (login[t].step = "idle" => login[t] = IdleLogin)
      BY DEF FedInv
    <3>2. stale(t) \in LoginType(S, M) /\ stale(t).step = login[t].step
      BY <3>1 DEF LoginType
    <3>3. ASSUME login[t] = IdleLogin PROVE stale(t) = IdleLogin
      <4>1. /\ stale(t).step = "idle" /\ stale(t).subject = None /\ stale(t).groups = {}
            /\ stale(t).status = "ACTIVE" /\ stale(t).existing = {}
        BY <3>1, <3>3 DEF IdleLogin, LoginType
      <4>2. stale(t).clean = TRUE
        BY <3>1, <3>3 DEF IdleLogin, LoginType
      <4>3. stale(t).fresh = (login[t] = IdleLogin)
        BY <3>1 DEF LoginType
      <4>4. stale(t).fresh = TRUE
        BY <3>3, <4>3, Zenon
      <4> HIDE DEF stale
      <4> QED
        BY <3>2, <4>1, <4>2, <4>4 DEF IdleLogin, LoginType
    <3> QED
      BY <3>1, <3>2, <3>3
  <2> HIDE DEF stale
  <2>4. /\ login' \in [Slots -> LoginType(S, M)]
        /\ \A t \in Slots : login'[t].step = "idle" => login'[t] = IdleLogin
    BY <2>1, <2>3
  <2>5. groups' \in [S -> SUBSET M]
    BY <2>1 DEF FedInv
  <2> QED
    BY <1>1, <2>1, <2>2, <2>4, <2>5 DEF FedInv
<1>3. CASE \E new \in {"INVITED", "ACTIVE", "DISABLED"} :
             Fed(S, M, jit, outages, admin)!UpdateStatus(new)
  BY <1>1, <1>3 DEF Fed!UpdateStatus, FedInv
<1>4. CASE UNCHANGED Fed(S, M, jit, outages, admin)!vars
  BY <1>1, <1>4 DEF Fed!vars, FedInv
<1> QED
  BY <1>2, <1>3, <1>4

LEMMA FedNext ==
  ASSUME NEW S, NEW M, NEW jit, NEW outages, NEW admin, None \notin S,
         FedInv(S, M),
         Fed(S, M, jit, outages, admin)!Next \/ UNCHANGED Fed(S, M, jit, outages, admin)!vars
  PROVE  FedInv(S, M)'
<1>1. \A d \in S : Fed(S, M, jit, outages, admin)!FetchGroups(d) \subseteq SUBSET M
  BY DEF Fed!FetchGroups, FedInv
<1>2. ASSUME NEW s \in Slots, Fed(S, M, jit, outages, admin)!Sync(s) PROVE FedInv(S, M)'
  <2>1. account # None /\ account.subject \in S
    BY <1>2 DEF Fed!Sync, FedInv
  <2>2. PICK fetched \in SUBSET M :
          Fed(S, M, jit, outages, admin)!Take(s, "read", account.subject, fetched)
    BY <1>1, <1>2, <2>1 DEF Fed!Sync
  <2> QED
    BY <2>1, <2>2, FedTake DEF Entrances
<1>3. ASSUME NEW s \in Slots, NEW d \in S,
             Fed(S, M, jit, outages, admin)!OidcCallback(s, d)
             \/ Fed(S, M, jit, outages, admin)!LdapLogin(s, d)
      PROVE  FedInv(S, M)'
  <2>1. groups[d] \in SUBSET M
    BY DEF FedInv
  <2>2. PICK fetched \in SUBSET M :
          Fed(S, M, jit, outages, admin)!Take(s, "byExternal", d, fetched)
    BY <1>1, <1>3, <2>1 DEF Fed!OidcCallback, Fed!LdapLogin
  <2> QED
    BY <2>2, FedTake DEF Entrances
<1> QED
  BY <1>2, <1>3, FedStep, FedWorld DEF Fed!Next, Fed!Statuses

LEMMA FedTypes ==
  ASSUME NEW S, NEW M, NEW jit, NEW outages, NEW admin, FedInv(S, M)
  PROVE  Fed(S, M, jit, outages, admin)!TypeOK
<1>1. \A s \in Slots : /\ login[s].step \in {"idle", "byExternal", "byEmail", "link", "create",
                                             "default", "baseline", "add", "read", "apply"}
                       /\ login[s].groups \subseteq M
                       /\ login[s].existing \subseteq M \cup {DefaultRole}
  BY DEF FedInv, LoginType
<1> QED
  BY <1>1 DEF FedInv, Fed!TypeOK, Fed!Statuses

---------------------------------------------------------------------------
(* The roles of a lone account settle                                      *)

Directed == groups[Subject]

\* The default role is left out: an account without roles is given it, whatever
\* the directory says.
Ruled == Mapped \ {DefaultRole}
Due == Directed \ {DefaultRole}

\* A request is fresh while its groups are the directory's.
FreshIsAccurate ==
  \A s \in Slots : login[s].fresh => login[s] = IdleLogin \/ login[s].groups = Directed

Undisturbed(s) == login[s].step # "idle" /\ login[s].fresh /\ login[s].clean

\* An undisturbed request is among fresh ones only.
UndisturbedAmongFresh ==
  \A s \in Slots : Undisturbed(s) => \A t \in Slots : login[t].fresh

\* What it read of the roles differs from them only by what fresh requests do.
UndisturbedPlan ==
  \A s \in Slots : Undisturbed(s) /\ login[s].step = "apply" =>
    /\ login[s].existing \cap Due \subseteq roles
    /\ (roles \cap Ruled) \ Due \subseteq login[s].existing

SettledAndFresh == settled => roles \cap Ruled = Due /\ \A s \in Slots : login[s].fresh

SettleInv ==
  /\ FedInv({Subject}, Mapped)
  /\ FreshIsAccurate /\ UndisturbedAmongFresh /\ UndisturbedPlan /\ SettledAndFresh

AllFresh == \A s \in Slots : login[s].fresh

\* What a step of the request s does: it moves on with its groups or leaves,
\* and what it does to the mapped roles is what its groups ask for.
RequestMoves(s) ==
  /\ login[s].step # "idle"
  /\ \A t \in Slots \ {s} : login'[t] = login[t]
  /\ \/ login'[s] = IdleLogin
     \/ /\ login'[s].groups = login[s].groups
        /\ login'[s].fresh = login[s].fresh /\ login'[s].clean = login[s].clean

RequestEffect(s) ==
  \/ roles' \cap Ruled = roles \cap Ruled /\ login'[s].step # "apply"
  \/ roles' = roles /\ login'[s].existing = roles
  \/ /\ login[s].step = "apply"
     /\ \E r \in login[s].groups :
          /\ roles' = roles \cup {r}
          /\ login'[s] = IdleLogin \/ login'[s].existing = login[s].existing \cup {r}
  \/ /\ login[s].step = "apply"
     /\ \E r \in Mapped \ login[s].groups :
          roles' = roles \ {r} /\ login'[s].existing = login[s].existing \ {r}

LEMMA SettleMoves ==
  ASSUME SettleInv, NEW s \in Slots, RequestMoves(s), RequestEffect(s),
         FedInv({Subject}, Mapped)', UNCHANGED <<groups, settled>>
  PROVE  SettleInv'
<1> USE DEF RequestMoves
<1>1. /\ IdleLogin.step = "idle" /\ IdleLogin.fresh = TRUE
      /\ Directed' = Directed /\ Directed \subseteq Mapped
      /\ Due' = Due /\ Due = Directed \ {DefaultRole} /\ Ruled = Mapped \ {DefaultRole}
  BY DEF IdleLogin, Directed, Due, Ruled, SettleInv, FedInv
<1>2. ASSUME NEW t \in Slots PROVE Undisturbed(t)' => Undisturbed(t)
  BY <1>1 DEF Undisturbed
<1>3. AllFresh => login[s].groups = Directed
  BY <1>1 DEF AllFresh, SettleInv, FreshIsAccurate
<1>4. AllFresh => AllFresh'
  BY <1>1 DEF AllFresh
<1>5. FreshIsAccurate'
  <2> SUFFICES ASSUME NEW t \in Slots, login'[t].fresh, login'[t] # IdleLogin
               PROVE  login'[t].groups = Directed
    BY <1>1 DEF FreshIsAccurate
  <2>1. login[t].fresh /\ login'[t].groups = login[t].groups
    OBVIOUS
  <2>2. login[t] # IdleLogin
    BY <1>1
  <2> QED
    BY <2>1, <2>2 DEF SettleInv, FreshIsAccurate
<1>6. (\E t \in Slots : Undisturbed(t)) => AllFresh
  BY DEF SettleInv, UndisturbedAmongFresh, AllFresh
<1>7. UndisturbedAmongFresh'
  <2> SUFFICES ASSUME NEW t \in Slots, Undisturbed(t)' PROVE AllFresh'
    BY DEF UndisturbedAmongFresh, AllFresh
  <2> QED
    BY <1>2, <1>4, <1>6
<1>8. ASSUME NEW t \in Slots, Undisturbed(t)', login'[t].step = "apply"
      PROVE  /\ login'[t].existing \cap Due \subseteq roles'
             /\ (roles' \cap Ruled) \ Due \subseteq login'[t].existing
  <2>1. Undisturbed(t) /\ login[s].groups = Directed
    BY <1>2, <1>3, <1>6, <1>8
  <2>2. login[t].step = "apply" =>
          /\ login[t].existing \cap Due \subseteq roles
          /\ (roles \cap Ruled) \ Due \subseteq login[t].existing
    BY <2>1 DEF SettleInv, UndisturbedPlan
  <2>3. t # s => login[t].step = "apply" /\ login'[t].existing = login[t].existing
    BY <1>8
  <2>4. t = s => login'[t] # IdleLogin
    BY <1>1, <1>8
  <2>5. CASE roles' \cap Ruled = roles \cap Ruled /\ login'[s].step # "apply"
    BY <1>1, <1>8, <2>2, <2>3, <2>5
  <2>6. CASE roles' = roles /\ login'[s].existing = roles
    BY <2>2, <2>3, <2>6
  <2>7. CASE /\ login[s].step = "apply"
             /\ \E r \in login[s].groups :
                  /\ roles' = roles \cup {r}
                  /\ login'[s] = IdleLogin \/ login'[s].existing = login[s].existing \cup {r}
    <3>1. PICK r \in Directed :
            /\ roles' = roles \cup {r}
            /\ login'[s] = IdleLogin \/ login'[s].existing = login[s].existing \cup {r}
      BY <2>1, <2>7
    <3> QED
      BY <1>1, <2>2, <2>3, <2>4, <2>7, <3>1
  <2>8. CASE /\ login[s].step = "apply"
             /\ \E r \in Mapped \ login[s].groups :
                  roles' = roles \ {r} /\ login'[s].existing = login[s].existing \ {r}
    <3>1. PICK r \in Mapped \ Directed :
            roles' = roles \ {r} /\ login'[s].existing = login[s].existing \ {r}
      BY <2>1, <2>8
    <3> QED
      BY <1>1, <2>2, <2>3, <2>8, <3>1
  <2> QED
    BY <2>5, <2>6, <2>7, <2>8 DEF RequestEffect
<1>9. UndisturbedPlan'
  BY <1>1, <1>8 DEF UndisturbedPlan
<1>10. SettledAndFresh'
  <2> SUFFICES ASSUME settled PROVE roles' \cap Ruled = Due /\ AllFresh'
    BY <1>1 DEF SettledAndFresh, AllFresh
  <2>1. roles \cap Ruled = Due /\ AllFresh
    BY DEF SettleInv, SettledAndFresh, AllFresh
  <2>2. roles' \cap Ruled = Due
    BY <1>1, <1>3, <2>1 DEF RequestEffect
  <2> QED
    BY <1>4, <2>1, <2>2
<1> QED
  BY <1>5, <1>7, <1>9, <1>10 DEF SettleInv

\* The moves of the synchronisation, and its last one.
LEMMA SettleStep ==
  ASSUME SettleInv, NEW jit, NEW outages, NEW admin, NEW s \in Slots,
         Fed({Subject}, Mapped, jit, outages, admin)!Step(s)
  PROVE  SettleInv' /\ (~settled => (settled' => login[s].fresh /\ login[s].clean))
<1> USE DEF Fed!At
<1>a. /\ login \in [Slots -> LoginType({Subject}, Mapped)]
      /\ roles \subseteq Mapped \cup {DefaultRole}
  BY DEF SettleInv, FedInv
<1>b. FedInv({Subject}, Mapped)'
  BY FedStep DEF SettleInv
<1>c. IdleLogin.step = "idle" /\ Fed({Subject}, Mapped, jit, outages, admin)!Idle = IdleLogin
  BY DEF IdleLogin, Fed!Idle
<1>d. ASSUME UNCHANGED <<groups, settled>>, RequestMoves(s) /\ RequestEffect(s)
      PROVE  SettleInv' /\ (~settled => (settled' => login[s].fresh /\ login[s].clean))
  BY <1>b, <1>d, SettleMoves
<1>e. ASSUME login[s].step # "idle",
             \/ Fed({Subject}, Mapped, jit, outages, admin)!Leave(s)
             \/ \E step \in {"byEmail", "link", "create", "default", "baseline", "add", "read"} :
                  Fed({Subject}, Mapped, jit, outages, admin)!Goto(s, step)
      PROVE  RequestMoves(s) /\ login'[s].step # "apply"
  <2>1. CASE Fed({Subject}, Mapped, jit, outages, admin)!Leave(s)
    BY <1>a, <1>c, <1>e, <2>1 DEF RequestMoves, Fed!Leave
  <2>2. ASSUME NEW step \in {"byEmail", "link", "create", "default", "baseline", "add", "read"},
               Fed({Subject}, Mapped, jit, outages, admin)!Goto(s, step)
        PROVE  RequestMoves(s) /\ login'[s].step # "apply"
    BY <1>a, <1>e, <2>2 DEF RequestMoves, Fed!Goto, LoginType
  <2> QED
    BY <1>e, <2>1, <2>2
<1>1. CASE Fed({Subject}, Mapped, jit, outages, admin)!FindByExternal(s)
           \/ Fed({Subject}, Mapped, jit, outages, admin)!CountRoles(s)
           \/ Fed({Subject}, Mapped, jit, outages, admin)!LinkAccount(s)
           \/ Fed({Subject}, Mapped, jit, outages, admin)!CreateAccount(s)
  <2>1. UNCHANGED <<roles, groups, settled>>
    BY <1>1 DEF Fed!FindByExternal, Fed!CountRoles, Fed!LinkAccount, Fed!CreateAccount
  <2>2. RequestMoves(s) /\ login'[s].step # "apply"
    BY <1>1, <1>e DEF Fed!FindByExternal, Fed!CountRoles, Fed!LinkAccount, Fed!CreateAccount
  <2> QED
    BY <1>d, <2>1, <2>2 DEF RequestEffect
<1>2. CASE Fed({Subject}, Mapped, jit, outages, admin)!FindByEmail(s)
  <2>1. UNCHANGED <<roles, groups, settled>>
    BY <1>2 DEF Fed!FindByEmail
  <2>2. RequestMoves(s) /\ login'[s].step # "apply"
    <3>1. CASE login' = [login EXCEPT ![s].step = "link", ![s].status = account.status]
      BY <1>a, <1>2, <3>1 DEF RequestMoves, LoginType, Fed!FindByEmail
    <3> QED
      BY <1>2, <1>e, <3>1 DEF Fed!FindByEmail
  <2> QED
    BY <1>d, <2>1, <2>2 DEF RequestEffect
<1>3. CASE Fed({Subject}, Mapped, jit, outages, admin)!GiveDefaultRole(s)
           \/ Fed({Subject}, Mapped, jit, outages, admin)!AddBaselineRole(s)
  <2>1. UNCHANGED <<groups, settled>> /\ roles' = roles \cup {DefaultRole}
    BY <1>3 DEF Fed!GiveDefaultRole, Fed!AddBaselineRole, Fed!AddRole
  <2>2. RequestMoves(s) /\ login'[s].step # "apply"
    BY <1>3, <1>e DEF Fed!GiveDefaultRole, Fed!AddBaselineRole, Fed!AddRole
  <2>3. roles' \cap Ruled = roles \cap Ruled
    BY <2>1 DEF Ruled
  <2> QED
    BY <1>d, <2>1, <2>2, <2>3 DEF RequestEffect
<1>4. CASE Fed({Subject}, Mapped, jit, outages, admin)!ReadRoles(s)
  <2>1. /\ login[s].step = "read" /\ UNCHANGED <<roles, groups, settled>>
        /\ login' = [login EXCEPT ![s].step = "apply", ![s].existing = roles]
    BY <1>4 DEF Fed!ReadRoles
  <2>2. RequestMoves(s) /\ login'[s].existing = roles
    BY <1>a, <2>1 DEF RequestMoves, LoginType
  <2> QED
    BY <1>d, <2>1, <2>2 DEF RequestEffect
<1>5. CASE Fed({Subject}, Mapped, jit, outages, admin)!CreateRole(s)
  <2>1. login[s].step = "apply" /\ UNCHANGED <<groups, settled>>
    BY <1>5 DEF Fed!CreateRole, Fed!AddRole
  <2>2. PICK r \in login[s].groups :
          /\ roles' = roles \cup {r}
          /\ \/ Fed({Subject}, Mapped, jit, outages, admin)!Leave(s)
             \/ login' = [login EXCEPT ![s].existing = @ \cup {r}]
    BY <1>5 DEF Fed!CreateRole, Fed!ToCreate, Fed!AddRole
  <2>3. RequestMoves(s) /\ (login'[s] = IdleLogin \/ login'[s].existing = login[s].existing \cup {r})
    <3>1. CASE Fed({Subject}, Mapped, jit, outages, admin)!Leave(s)
      BY <1>a, <1>c, <2>1, <3>1 DEF RequestMoves, Fed!Leave
    <3>2. CASE login' = [login EXCEPT ![s].existing = @ \cup {r}]
      BY <1>a, <2>1, <3>2 DEF RequestMoves, LoginType
    <3> QED
      BY <2>2, <3>1, <3>2
  <2> QED
    BY <1>d, <2>1, <2>2, <2>3 DEF RequestEffect
<1>6. CASE Fed({Subject}, Mapped, jit, outages, admin)!DeleteRole(s)
  <2>1. login[s].step = "apply" /\ UNCHANGED <<groups, settled>>
    BY <1>6 DEF Fed!DeleteRole
  <2>2. PICK r \in Mapped \ login[s].groups :
          roles' = roles \ {r} /\ login' = [login EXCEPT ![s].existing = @ \ {r}]
    BY <1>6 DEF Fed!DeleteRole, Fed!ToDelete
  <2>3. RequestMoves(s) /\ login'[s].existing = login[s].existing \ {r}
    BY <1>a, <2>1, <2>2 DEF RequestMoves, LoginType
  <2> QED
    BY <1>d, <2>1, <2>2, <2>3 DEF RequestEffect
<1>7. CASE Fed({Subject}, Mapped, jit, outages, admin)!Finish(s)
  <2>1. /\ UNCHANGED <<account, roles, groups>> /\ login' = [login EXCEPT ![s] = IdleLogin]
        /\ settled' = (settled \/ (login[s].fresh /\ login[s].clean))
        /\ login[s].step # "idle"
        /\ \/ /\ login[s].step = "apply" /\ login[s].groups \subseteq login[s].existing
              /\ login[s].existing \cap Mapped \subseteq login[s].groups
           \/ Mapped = {}
    BY <1>7, <1>c DEF Fed!Finish, Fed!ToCreate, Fed!ToDelete, Fed!Leave
  <2>2. login'[s] = IdleLogin /\ \A t \in Slots \ {s} : login'[t] = login[t]
    BY <1>a, <2>1
  <2>3. /\ IdleLogin.fresh = TRUE /\ Directed' = Directed /\ Directed \subseteq Mapped
        /\ Due' = Due /\ Due = Directed \ {DefaultRole} /\ Ruled = Mapped \ {DefaultRole}
    BY <2>1 DEF IdleLogin, Directed, Due, Ruled, SettleInv, FedInv
  <2>4. FreshIsAccurate'
    BY <2>2, <2>3 DEF SettleInv, FreshIsAccurate
  <2>5. \A t \in Slots : Undisturbed(t)' => Undisturbed(t) /\ login'[t] = login[t]
    BY <1>c, <2>2 DEF Undisturbed
  <2>6. AllFresh => AllFresh'
    BY <2>2, <2>3 DEF AllFresh
  <2>7. UndisturbedAmongFresh' /\ UndisturbedPlan'
    <3>1. UndisturbedAmongFresh'
      BY <2>5, <2>6 DEF SettleInv, UndisturbedAmongFresh, AllFresh
    <3>2. UndisturbedPlan'
      BY <2>1, <2>3, <2>5 DEF SettleInv, UndisturbedPlan
    <3> QED
      BY <3>1, <3>2
  <2>8. ASSUME Undisturbed(s) PROVE roles \cap Ruled = Due /\ AllFresh
    <3>1. AllFresh /\ login[s].groups = Directed
      BY <1>c, <2>1, <2>8 DEF SettleInv, UndisturbedAmongFresh, FreshIsAccurate, AllFresh
    <3>2. CASE Mapped = {}
      BY <2>3, <3>1, <3>2
    <3>3. CASE /\ login[s].step = "apply" /\ login[s].groups \subseteq login[s].existing
               /\ login[s].existing \cap Mapped \subseteq login[s].groups
      BY <2>3, <2>8, <3>1, <3>3 DEF SettleInv, UndisturbedPlan
    <3> QED
      BY <2>1, <3>1, <3>2, <3>3
  <2>9. settled' => settled \/ Undisturbed(s)
    <3>1. settled' => settled \/ (login[s].fresh /\ login[s].clean)
      BY <2>1, Zenon
    <3> QED
      BY <2>1, <3>1, Zenon DEF Undisturbed
  <2>10. settled => roles \cap Ruled = Due /\ AllFresh
    BY DEF SettleInv, SettledAndFresh, AllFresh
  <2>11. SettledAndFresh'
    <3>1. settled' => roles \cap Ruled = Due /\ AllFresh
      BY <2>8, <2>9, <2>10, Zenon
    <3>2. settled' => AllFresh'
      BY <2>6, <3>1, Zenon
    <3> QED
      BY <2>1, <2>3, <3>1, <3>2 DEF SettledAndFresh, AllFresh
  <2> QED
    BY <1>b, <2>4, <2>7, <2>9, <2>11, Zenon DEF SettleInv, Undisturbed
<1> QED
  BY <1>1, <1>2, <1>3, <1>4, <1>5, <1>6, <1>7 DEF Fed!Step

\* A request arrives.
LEMMA SettleTake ==
  ASSUME SettleInv, NEW jit, NEW outages, NEW admin, NEW s \in Slots,
         NEW step \in Entrances, NEW fetched \in SUBSET Mapped,
         Fed({Subject}, Mapped, jit, outages, admin)!Take(s, step, Subject, fetched)
  PROVE  SettleInv'
<1> DEFINE accurate == fetched = groups[Subject]
<1>1. /\ FedInv({Subject}, Mapped)'
      /\ login[s] = IdleLogin /\ UNCHANGED <<account, roles, groups>>
      /\ settled' = (settled /\ accurate)
      /\ login'[s].groups = fetched /\ login'[s].step = step
      /\ login'[s].fresh = accurate
      /\ login'[s].clean = (\A t \in Slots : login[t].fresh)
      /\ \A t \in Slots \ {s} :
           /\ login[t] = IdleLogin => login'[t] = IdleLogin
           /\ login[t] # IdleLogin => login'[t] = [login[t] EXCEPT !.clean = @ /\ accurate]
  <2>1. FedInv({Subject}, Mapped) /\ Subject \in {Subject}
    BY DEF SettleInv
  <2>2. FedInv({Subject}, Mapped)' /\ Enters(s, step, Subject, fetched)
    BY <2>1, FedTake
  <2> QED
    BY <2>2, Zenon DEF Enters
<1>2. ASSUME NEW t \in Slots \ {s}
      PROVE  /\ login'[t].step = login[t].step /\ login'[t].groups = login[t].groups
             /\ login'[t].existing = login[t].existing /\ login'[t].fresh = login[t].fresh
             /\ login[t] = IdleLogin => login'[t] = IdleLogin
             /\ login[t] # IdleLogin => login'[t].clean = (login[t].clean /\ accurate)
  <2>1. login[t] \in LoginType({Subject}, Mapped)
    BY DEF SettleInv, FedInv
  <2>2. CASE login[t] = IdleLogin
    BY <1>1, <2>2
  <2>3. CASE login[t] # IdleLogin
    <3> HIDE DEF accurate
    <3>1. login'[t] = [login[t] EXCEPT !.clean = @ /\ accurate]
      BY <1>1, <2>3
    <3>2. login'[t].clean = (login[t].clean /\ accurate)
      BY <2>1, <3>1 DEF LoginType
    <3> QED
      BY <2>1, <2>3, <3>1, <3>2 DEF LoginType
  <2> QED
    BY <2>2, <2>3
<1>3. /\ Directed' = Directed /\ IdleLogin.step = "idle" /\ IdleLogin.fresh = TRUE
      /\ Due' = Due
      /\ accurate <=> fetched = Directed
  BY <1>1 DEF Directed, Due, IdleLogin
<1>4. FreshIsAccurate'
  <2>1. login'[s].fresh => login'[s].groups = Directed
    BY <1>1, <1>3
  <2> HIDE DEF accurate
  <2>2. ASSUME NEW t \in Slots \ {s}, login'[t].fresh
        PROVE  login'[t] = IdleLogin \/ login'[t].groups = Directed
    BY <1>2, <2>2 DEF SettleInv, FreshIsAccurate
  <2> QED
    BY <1>3, <2>1, <2>2 DEF FreshIsAccurate
<1> HIDE DEF accurate
<1>5. accurate /\ AllFresh => AllFresh'
  <2>1. accurate => login'[s].fresh
    BY <1>1
  <2>2. \A t \in Slots \ {s} : login[t].fresh => login'[t].fresh
    BY <1>2
  <2> QED
    BY <2>1, <2>2 DEF AllFresh
<1>6. ASSUME NEW t \in Slots \ {s}, Undisturbed(t)' PROVE Undisturbed(t) /\ accurate
  <2>1. login[t] # IdleLogin
    BY <1>2, <1>3, <1>6 DEF Undisturbed
  <2>2. login[t].clean /\ accurate
    <3>1. login'[t].clean /\ login'[t].clean = (login[t].clean /\ accurate)
      BY <1>2, <1>6, <2>1 DEF Undisturbed
    <3> QED
      BY <3>1, Zenon
  <2> QED
    BY <1>2, <1>6, <2>2 DEF Undisturbed
<1>7. Undisturbed(s)' => accurate /\ AllFresh
  <2>1. Undisturbed(s)' => login'[s].fresh /\ login'[s].clean
    BY DEF Undisturbed
  <2>2. login'[s].clean = AllFresh
    BY <1>1 DEF AllFresh
  <2> QED
    BY <1>1, <2>1, <2>2, Zenon
<1>8. UndisturbedAmongFresh'
  <2>1. ASSUME NEW t \in Slots, Undisturbed(t)' PROVE AllFresh'
    <3>1. accurate /\ AllFresh
      BY <1>6, <1>7, <2>1 DEF SettleInv, UndisturbedAmongFresh, AllFresh
    <3> QED
      BY <1>5, <3>1
  <2> QED
    BY <2>1 DEF UndisturbedAmongFresh, AllFresh
<1>9. UndisturbedPlan'
  <2> SUFFICES ASSUME NEW t \in Slots, Undisturbed(t)', login'[t].step = "apply"
               PROVE  /\ login'[t].existing \cap Due \subseteq roles
                      /\ (roles \cap Ruled) \ Due \subseteq login'[t].existing
    BY <1>1, <1>3 DEF UndisturbedPlan
  <2>1. t # s
    BY <1>1 DEF Entrances
  <2> QED
    BY <1>2, <1>6, <2>1 DEF SettleInv, UndisturbedPlan
<1>10. SettledAndFresh'
  <2>1. settled' => settled /\ accurate
    BY <1>1, Zenon
  <2>2. settled => roles \cap Ruled = Due /\ AllFresh
    BY DEF SettleInv, SettledAndFresh, AllFresh
  <2>3. settled' => roles \cap Ruled = Due /\ AllFresh'
    BY <1>5, <2>1, <2>2, Zenon
  <2> QED
    BY <1>1, <1>3, <2>3 DEF SettledAndFresh, AllFresh
<1> QED
  BY <1>1, <1>4, <1>8, <1>9, <1>10 DEF SettleInv

\* A change of membership puts what is in flight out of date.
LEMMA SettleWorld ==
  ASSUME SettleInv, NEW jit, NEW outages, NEW admin,
         \/ \E d \in {Subject}, new \in SUBSET Mapped :
              Fed({Subject}, Mapped, jit, outages, admin)!DirectoryChanges(d, new)
         \/ \E new \in {"INVITED", "ACTIVE", "DISABLED"} :
              Fed({Subject}, Mapped, jit, outages, admin)!UpdateStatus(new)
         \/ UNCHANGED Fed({Subject}, Mapped, jit, outages, admin)!vars
  PROVE  SettleInv'
<1>1. FedInv({Subject}, Mapped)'
  BY FedWorld DEF SettleInv
<1>2. CASE \E d \in {Subject}, new \in SUBSET Mapped :
             Fed({Subject}, Mapped, jit, outages, admin)!DirectoryChanges(d, new)
  <2> DEFINE stale(t) == [login[t] EXCEPT !.fresh = login[t] = IdleLogin]
  <2>1. login' = [t \in Slots |-> stale(t)] /\ ~settled'
    BY <1>2 DEF Fed!DirectoryChanges, Fed!Idle, IdleLogin
  <2>2. ASSUME NEW t \in Slots, login'[t].fresh PROVE login'[t] = IdleLogin
    <3>1. login[t] \in LoginType({Subject}, Mapped) /\ login'[t] = stale(t)
      BY <2>1 DEF SettleInv, FedInv
    <3>2. stale(t).fresh = (login[t] = IdleLogin) /\ stale(t).step = login[t].step
      BY <3>1 DEF LoginType
    <3>3. login[t] = IdleLogin
      BY <2>2, <3>1, <3>2, Zenon
    <3>4. login'[t].step = "idle"
      BY <3>1, <3>2, <3>3 DEF IdleLogin
    <3> QED
      BY <1>1, <3>4 DEF FedInv
  <2>3. \A t \in Slots : ~Undisturbed(t)'
    BY <2>2 DEF Undisturbed, IdleLogin
  <2> QED
    BY <1>1, <2>1, <2>2, <2>3
       DEF SettleInv, FreshIsAccurate, UndisturbedAmongFresh, UndisturbedPlan, SettledAndFresh
<1>3. CASE \/ \E new \in {"INVITED", "ACTIVE", "DISABLED"} :
                Fed({Subject}, Mapped, jit, outages, admin)!UpdateStatus(new)
           \/ UNCHANGED Fed({Subject}, Mapped, jit, outages, admin)!vars
  <2>1. UNCHANGED <<roles, groups, login, settled>>
    BY <1>3 DEF Fed!UpdateStatus, Fed!vars
  <2>2. FreshIsAccurate' /\ UndisturbedAmongFresh'
    BY <2>1 DEF SettleInv, FreshIsAccurate, UndisturbedAmongFresh, Undisturbed, Directed
  <2>3. UndisturbedPlan' /\ SettledAndFresh'
    BY <2>1 DEF SettleInv, UndisturbedPlan, SettledAndFresh, Undisturbed, Directed, Due
  <2> QED
    BY <1>1, <2>2, <2>3 DEF SettleInv
<1> QED
  BY <1>2, <1>3

LEMMA SettleNext ==
  ASSUME SettleInv, NEW jit, NEW outages, NEW admin,
         \/ Fed({Subject}, Mapped, jit, outages, admin)!Next
         \/ UNCHANGED Fed({Subject}, Mapped, jit, outages, admin)!vars
  PROVE  SettleInv'
<1>1. groups[Subject] \in SUBSET Mapped /\ None # Subject
  BY DEF SettleInv, FedInv
<1>2. ASSUME NEW s \in Slots, Fed({Subject}, Mapped, jit, outages, admin)!Sync(s)
      PROVE  SettleInv'
  <2>1. account.subject = Subject
    BY <1>1, <1>2 DEF Fed!Sync, SettleInv, FedInv
  <2>2. PICK fetched \in SUBSET Mapped :
          Fed({Subject}, Mapped, jit, outages, admin)!Take(s, "read", Subject, fetched)
    BY <1>1, <1>2, <2>1 DEF Fed!Sync, Fed!FetchGroups
  <2> QED
    BY <2>2, SettleTake DEF Entrances
<1>3. ASSUME NEW s \in Slots, NEW d \in {Subject},
             Fed({Subject}, Mapped, jit, outages, admin)!OidcCallback(s, d)
             \/ Fed({Subject}, Mapped, jit, outages, admin)!LdapLogin(s, d)
      PROVE  SettleInv'
  <2>1. PICK fetched \in SUBSET Mapped :
          Fed({Subject}, Mapped, jit, outages, admin)!Take(s, "byExternal", Subject, fetched)
    BY <1>1, <1>3 DEF Fed!OidcCallback, Fed!LdapLogin, Fed!FetchGroups
  <2> QED
    BY <2>1, SettleTake DEF Entrances
<1> QED
  BY <1>2, <1>3, SettleStep, SettleWorld DEF Fed!Next, Fed!Statuses

\* Only a role some group maps to is ever taken away.
LEMMA ManualRoles ==
  ASSUME NEW S, NEW M, NEW jit, NEW outages, NEW admin,
         \/ Fed(S, M, jit, outages, admin)!Next
         \/ UNCHANGED Fed(S, M, jit, outages, admin)!vars
  PROVE  roles \ M \subseteq roles'
<1>1. ASSUME NEW s \in Slots, Fed(S, M, jit, outages, admin)!Step(s)
      PROVE  roles \ M \subseteq roles'
  <2>1. CASE Fed(S, M, jit, outages, admin)!CreateRole(s)
    BY <2>1 DEF Fed!CreateRole, Fed!AddRole
  <2>2. CASE Fed(S, M, jit, outages, admin)!DeleteRole(s)
    BY <2>2 DEF Fed!DeleteRole, Fed!ToDelete
  <2> QED
    BY <1>1, <2>1, <2>2 DEF Fed!Step, Fed!FindByExternal, Fed!FindByEmail, Fed!LinkAccount,
       Fed!CreateAccount, Fed!GiveDefaultRole, Fed!CountRoles, Fed!AddBaselineRole, Fed!AddRole,
       Fed!ReadRoles, Fed!Finish
<1>2. ASSUME NEW s, NEW step, NEW d, NEW fetched,
             Fed(S, M, jit, outages, admin)!Take(s, step, d, fetched)
      PROVE  roles' = roles
  BY <1>2 DEF Fed!Take
<1> QED
  BY <1>1, <1>2 DEF Fed!Next, Fed!Sync, Fed!OidcCallback, Fed!LdapLogin, Fed!DirectoryChanges,
     Fed!UpdateStatus, Fed!vars

---------------------------------------------------------------------------
(* The components side by side                                             *)

\* The instances of MCAccess are those the lemmas above are about.
LEMMA DirectoryIsFed ==
  [Directory!Next]_(Directory!vars) =>
    \/ Fed({Subject}, Mapped, FALSE, TRUE, FALSE)!Next
    \/ UNCHANGED Fed({Subject}, Mapped, FALSE, TRUE, FALSE)!vars
BY Zenon DEF
     Fed!vars, Fed!At, Fed!Goto, Fed!Leave, Fed!Idle, Fed!Statuses, Fed!Take, Fed!FetchGroups,
     Fed!OidcCallback, Fed!LdapLogin, Fed!Sync, Fed!Linked, Fed!FindByExternal, Fed!FindByEmail,
     Fed!LinkAccount, Fed!CreateAccount, Fed!AddRole, Fed!GiveDefaultRole, Fed!CountRoles,
     Fed!AddBaselineRole, Fed!ReadRoles, Fed!ToCreate, Fed!ToDelete, Fed!CreateRole,
     Fed!DeleteRole, Fed!Finish, Fed!DirectoryChanges, Fed!UpdateStatus, Fed!Step, Fed!Next,
     Directory!vars, Directory!At, Directory!Goto, Directory!Leave, Directory!Idle,
     Directory!Statuses, Directory!Take, Directory!FetchGroups, Directory!OidcCallback,
     Directory!LdapLogin, Directory!Sync, Directory!Linked, Directory!FindByExternal,
     Directory!FindByEmail, Directory!LinkAccount, Directory!CreateAccount, Directory!AddRole,
     Directory!GiveDefaultRole, Directory!CountRoles, Directory!AddBaselineRole,
     Directory!ReadRoles, Directory!ToCreate, Directory!ToDelete, Directory!CreateRole,
     Directory!DeleteRole, Directory!Finish, Directory!DirectoryChanges, Directory!UpdateStatus,
     Directory!Step, Directory!Next

LEMMA LinksIsFed ==
  [Links!Next]_(Links!vars) =>
    \/ Fed(Subjects, {}, TRUE, FALSE, TRUE)!Next
    \/ UNCHANGED Fed(Subjects, {}, TRUE, FALSE, TRUE)!vars
BY Zenon DEF
     Fed!vars, Fed!At, Fed!Goto, Fed!Leave, Fed!Idle, Fed!Statuses, Fed!Take, Fed!FetchGroups,
     Fed!OidcCallback, Fed!LdapLogin, Fed!Sync, Fed!Linked, Fed!FindByExternal, Fed!FindByEmail,
     Fed!LinkAccount, Fed!CreateAccount, Fed!AddRole, Fed!GiveDefaultRole, Fed!CountRoles,
     Fed!AddBaselineRole, Fed!ReadRoles, Fed!ToCreate, Fed!ToDelete, Fed!CreateRole,
     Fed!DeleteRole, Fed!Finish, Fed!DirectoryChanges, Fed!UpdateStatus, Fed!Step, Fed!Next,
     Links!vars, Links!At, Links!Goto, Links!Leave, Links!Idle, Links!Statuses, Links!Take,
     Links!FetchGroups, Links!OidcCallback, Links!LdapLogin, Links!Sync, Links!Linked,
     Links!FindByExternal, Links!FindByEmail, Links!LinkAccount, Links!CreateAccount,
     Links!AddRole, Links!GiveDefaultRole, Links!CountRoles, Links!AddBaselineRole,
     Links!ReadRoles, Links!ToCreate, Links!ToDelete, Links!CreateRole, Links!DeleteRole,
     Links!Finish, Links!DirectoryChanges, Links!UpdateStatus, Links!Step, Links!Next

LEMMA OtpIsMail ==
  [Otp!Next]_(Otp!vars) \/ [Totp!Next]_(Totp!vars) => [Mail!Next]_(Mail!vars)
<1>1. Otp!CreateEmailOtpChallenge \/ Totp!CreateEmailOtpChallenge => Mail!CreateEmailOtpChallenge
  BY DEF
     Mail!CreateEmailOtpChallenge, Mail!Queued, Mail!totp, Otp!CreateEmailOtpChallenge,
     Otp!Queued, Otp!totp, Totp!CreateEmailOtpChallenge, Totp!Queued, Totp!totp
<1>2. Otp!CooldownEnds \/ Totp!CooldownEnds => Mail!CooldownEnds
  BY DEF Mail!CooldownEnds, Otp!CooldownEnds, Totp!CooldownEnds, Mail!totp, Otp!totp, Totp!totp
<1>3. Otp!SetupMfa \/ Totp!SetupMfa => Mail!SetupMfa
  BY DEF Mail!SetupMfa, Otp!SetupMfa, Totp!SetupMfa, Mail!email, Otp!email, Totp!email
<1>4. ASSUME NEW s \in Slots
      PROVE  /\ Otp!QueueFails(s) \/ Totp!QueueFails(s) => Mail!QueueFails(s)
             /\ Otp!ApiDies(s) \/ Totp!ApiDies(s) => Mail!ApiDies(s)
  BY DEF
     Mail!QueueFails, Mail!ApiDies, Mail!Attempt, Mail!At, Mail!Goto, Mail!Leave, Mail!Idle,
     Mail!Queued, Mail!email, Mail!totp, Otp!QueueFails, Otp!ApiDies, Otp!Attempt, Otp!At,
     Otp!Goto, Otp!Leave, Otp!Idle, Otp!Queued, Otp!email, Otp!totp, Totp!QueueFails,
     Totp!ApiDies, Totp!Attempt, Totp!At, Totp!Goto, Totp!Leave, Totp!Idle, Totp!Queued,
     Totp!email, Totp!totp
<1>5. ASSUME NEW s \in Slots, Otp!Resend(s) \/ Totp!Resend(s) PROVE Mail!Resend(s)
  BY <1>4, <1>5, Zenon DEF
     Mail!Resend, Mail!CheckResendEligibility, Mail!CountResend, Mail!SetCounterExpiry,
     Mail!RotateForResend, Mail!RotateRefused, Mail!QueueEmailOtp, Mail!RestoreAfterQueueFailure,
     Mail!ReleaseResendLimit, Mail!Eligible, Mail!Attempt, Mail!At, Mail!Goto, Mail!Leave,
     Mail!Idle, Mail!Queued, Mail!email, Mail!totp, Otp!Resend, Otp!CheckResendEligibility,
     Otp!CountResend, Otp!SetCounterExpiry, Otp!RotateForResend, Otp!RotateRefused,
     Otp!QueueEmailOtp, Otp!RestoreAfterQueueFailure, Otp!ReleaseResendLimit, Otp!Eligible,
     Otp!Attempt, Otp!At, Otp!Goto, Otp!Leave, Otp!Idle, Otp!Queued, Otp!email, Otp!totp,
     Totp!Resend, Totp!CheckResendEligibility, Totp!CountResend, Totp!SetCounterExpiry,
     Totp!RotateForResend, Totp!RotateRefused, Totp!QueueEmailOtp, Totp!RestoreAfterQueueFailure,
     Totp!ReleaseResendLimit, Totp!Eligible, Totp!Attempt, Totp!At, Totp!Goto, Totp!Leave,
     Totp!Idle, Totp!Queued, Totp!email, Totp!totp
<1>6. ASSUME NEW guess, Otp!VerifyEmailOtp(guess) \/ Totp!VerifyEmailOtp(guess)
      PROVE  Mail!VerifyEmailOtp(guess)
  BY <1>6, Zenon DEF
     Mail!VerifyEmailOtp, Mail!WrongGuess, Mail!totp, Otp!VerifyEmailOtp, Otp!WrongGuess,
     Otp!totp, Totp!VerifyEmailOtp, Totp!WrongGuess, Totp!totp
<1>7. ASSUME NEW n, Otp!SendMail(n) \/ Totp!SendMail(n) PROVE Mail!SendMail(n)
  BY <1>7, Zenon DEF Mail!SendMail, Otp!SendMail, Totp!SendMail, Mail!totp, Otp!totp, Totp!totp
<1>8. /\ Otp!ChallengeExpires \/ Totp!ChallengeExpires => Mail!ChallengeExpires
      /\ Otp!CounterExpires \/ Totp!CounterExpires => Mail!CounterExpires
      /\ Otp!CheckConfirm \/ Totp!CheckConfirm => Mail!CheckConfirm
      /\ Otp!EnableMfa \/ Totp!EnableMfa => Mail!EnableMfa
  BY Zenon DEF
     Mail!ChallengeExpires, Mail!CounterExpires, Mail!CheckConfirm, Mail!EnableMfa, Mail!email,
     Mail!totp, Otp!ChallengeExpires, Otp!CounterExpires, Otp!CheckConfirm, Otp!EnableMfa,
     Otp!email, Otp!totp, Totp!ChallengeExpires, Totp!CounterExpires, Totp!CheckConfirm,
     Totp!EnableMfa, Totp!email, Totp!totp
<1>9. Otp!EmailNext \/ Totp!EmailNext => Mail!EmailNext
  BY <1>1, <1>2, <1>5, <1>6, <1>7, <1>8, Zenon DEF Mail!EmailNext, Otp!EmailNext, Totp!EmailNext
<1>10. Otp!TotpNext \/ Totp!TotpNext => Mail!TotpNext
  BY <1>3, <1>8, Zenon DEF Mail!TotpNext, Otp!TotpNext, Totp!TotpNext
<1> QED
  BY <1>9, <1>10, Zenon DEF
     Mail!Next, Mail!vars, Mail!email, Mail!totp, Otp!Next, Otp!vars, Otp!email, Otp!totp,
     Totp!Next, Totp!vars, Totp!email, Totp!totp

AccountProofs == INSTANCE Access_proofs WITH
  Kinds <- {"login", "verify", "federated", "accept", "status"},
  MaxChanges <- 0, MaxChallenges <- 1

RotationProofs == INSTANCE Access_proofs WITH
  Tokens <- RotationTokens, Kinds <- {"federated", "refresh", "logout"},
  MaxChanges <- 0, MaxChallenges <- 0, RedisMayFail <- TRUE

LEMMA AccountKeeps ==
  /\ IInv /\ [Account!Next]_(Account!vars) => IInv'
  /\ IInv /\ [Account!Next]_(Account!vars) => ReenabledAsInvited
<1>1. (AccountProofs!IInv <=> IInv) /\ (AccountProofs!IInv' <=> IInv')
  BY DEF
     AccountProofs!IInv, AccountProofs!TypeOK, AccountProofs!AcceptReadInvited,
     AccountProofs!LogoutHasToken, AccountProofs!AllKinds, AccountProofs!Statuses, IInv, TypeOK,
     AcceptReadInvited, LogoutHasToken, AllKinds, Statuses
<1>2. [Account!Next]_(Account!vars) <=> [AccountProofs!Next]_(AccountProofs!vars)
  BY Zenon DEF
     Account!vars, Account!user, Account!tokens, Account!Next, Account!Arrives, Account!Proceeds,
     Account!Login, Account!ChallengeExpires, Account!CacheExpires, Account!UpdateStatus,
     Account!StartVerify, Account!StartFederated, Account!StartAccept, Account!StartRole,
     Account!CommitPresets, Account!StartRefresh, Account!StartLogout, Account!CheckToken,
     Account!Verify, Account!VerifyRejected, Account!Federated, Account!Refresh,
     Account!OutOfTokens, Account!Logout, Account!Accept, Account!CommitRole,
     Account!InvalidatePresets, Account!ReadUser, Account!FillCache, Account!Serve, Account!Idle,
     Account!Request, Account!Begin, Account!End, Account!BestEffort, Account!MarkLoginSuccess,
     Account!Active, Account!Revoke, Account!NewSession, Account!IssueSession, Account!Deny,
     Account!AcceptInvite, Account!RoleLocked, Account!Statuses, AccountProofs!vars,
     AccountProofs!user, AccountProofs!tokens, AccountProofs!Next, AccountProofs!Arrives,
     AccountProofs!Proceeds, AccountProofs!Login, AccountProofs!ChallengeExpires,
     AccountProofs!CacheExpires, AccountProofs!UpdateStatus, AccountProofs!StartVerify,
     AccountProofs!StartFederated, AccountProofs!StartAccept, AccountProofs!StartRole,
     AccountProofs!CommitPresets, AccountProofs!StartRefresh, AccountProofs!StartLogout,
     AccountProofs!CheckToken, AccountProofs!Verify, AccountProofs!VerifyRejected,
     AccountProofs!Federated, AccountProofs!Refresh, AccountProofs!OutOfTokens,
     AccountProofs!Logout, AccountProofs!Accept, AccountProofs!CommitRole,
     AccountProofs!InvalidatePresets, AccountProofs!ReadUser, AccountProofs!FillCache,
     AccountProofs!Serve, AccountProofs!Idle, AccountProofs!Request, AccountProofs!Begin,
     AccountProofs!End, AccountProofs!BestEffort, AccountProofs!MarkLoginSuccess,
     AccountProofs!Active, AccountProofs!Revoke, AccountProofs!NewSession,
     AccountProofs!IssueSession, AccountProofs!Deny, AccountProofs!AcceptInvite,
     AccountProofs!RoleLocked, AccountProofs!Statuses
<1>3. AccountProofs!IsFiniteSet(Slots)
  BY AccessAssumption DEF IsFiniteSet, AccountProofs!IsFiniteSet
<1>4. AccountProofs!IInv /\ [AccountProofs!Next]_(AccountProofs!vars) => AccountProofs!IInv'
  BY <1>3, AccountProofs!NextIInv, AccessAssumption DEF AccountProofs!AllKinds
<1>5. AccountProofs!IInv /\ [AccountProofs!Next]_(AccountProofs!vars) => ReenabledAsInvited
  <2>1. AccountProofs!ReenabledAsInvited <=> ReenabledAsInvited
    BY DEF AccountProofs!ReenabledAsInvited, ReenabledAsInvited
  <2> QED
    BY <1>3, <2>1, AccountProofs!NextReenables, AccessAssumption DEF AccountProofs!AllKinds
<1> QED
  BY <1>1, <1>2, <1>4, <1>5

\* The instance that rotates refresh tokens, and what Access_proofs says of it.
RotationOK == RotationProofs!IInv /\ RotationProofs!RotationInv

LEMMA RotationKeeps ==
  /\ Rotation!Init => RotationOK
  /\ RotationOK /\ [Rotation!Next]_(Rotation!vars) => RotationOK'
  /\ RotationOK /\ [Rotation!Next]_(Rotation!vars) => ReenabledAsInvited
  /\ RotationOK => Rotation!TypeOK /\ Rotation!ForksBounded
<1>1. /\ RotationProofs!IsFiniteSet(Slots) /\ RotationTokens \subseteq Nat /\ None \notin Nat
      /\ {"federated", "refresh", "logout"} \subseteq RotationProofs!AllKinds
  BY AccessAssumption DEF IsFiniteSet, RotationProofs!IsFiniteSet, RotationProofs!AllKinds
<1>2. Rotation!Init => RotationOK
  <2>1. Rotation!Init <=> RotationProofs!Init
    BY Zenon DEF Rotation!Init, RotationProofs!Init, Rotation!Idle, RotationProofs!Idle
  <2> QED
    BY <1>1, <2>1, RotationProofs!InitIInv, RotationProofs!InitRotation DEF RotationOK
<1>3. [Rotation!Next]_(Rotation!vars) <=> [RotationProofs!Next]_(RotationProofs!vars)
  BY Zenon DEF
     Rotation!vars, Rotation!user, Rotation!tokens, Rotation!Next, Rotation!Arrives,
     Rotation!Proceeds, Rotation!Login, Rotation!ChallengeExpires, Rotation!CacheExpires,
     Rotation!UpdateStatus, Rotation!StartVerify, Rotation!StartFederated, Rotation!StartAccept,
     Rotation!StartRole, Rotation!CommitPresets, Rotation!StartRefresh, Rotation!StartLogout,
     Rotation!CheckToken, Rotation!Verify, Rotation!VerifyRejected, Rotation!Federated,
     Rotation!Refresh, Rotation!OutOfTokens, Rotation!Logout, Rotation!Accept,
     Rotation!CommitRole, Rotation!InvalidatePresets, Rotation!ReadUser, Rotation!FillCache,
     Rotation!Serve, Rotation!Idle, Rotation!Request, Rotation!Begin, Rotation!End,
     Rotation!BestEffort, Rotation!MarkLoginSuccess, Rotation!Active, Rotation!Revoke,
     Rotation!NewSession, Rotation!IssueSession, Rotation!Deny, Rotation!AcceptInvite,
     Rotation!RoleLocked, Rotation!Statuses, RotationProofs!vars, RotationProofs!user,
     RotationProofs!tokens, RotationProofs!Next, RotationProofs!Arrives,
     RotationProofs!Proceeds, RotationProofs!Login, RotationProofs!ChallengeExpires,
     RotationProofs!CacheExpires, RotationProofs!UpdateStatus, RotationProofs!StartVerify,
     RotationProofs!StartFederated, RotationProofs!StartAccept, RotationProofs!StartRole,
     RotationProofs!CommitPresets, RotationProofs!StartRefresh, RotationProofs!StartLogout,
     RotationProofs!CheckToken, RotationProofs!Verify, RotationProofs!VerifyRejected,
     RotationProofs!Federated, RotationProofs!Refresh, RotationProofs!OutOfTokens,
     RotationProofs!Logout, RotationProofs!Accept, RotationProofs!CommitRole,
     RotationProofs!InvalidatePresets, RotationProofs!ReadUser, RotationProofs!FillCache,
     RotationProofs!Serve, RotationProofs!Idle, RotationProofs!Request, RotationProofs!Begin,
     RotationProofs!End, RotationProofs!BestEffort, RotationProofs!MarkLoginSuccess,
     RotationProofs!Active, RotationProofs!Revoke, RotationProofs!NewSession,
     RotationProofs!IssueSession, RotationProofs!Deny, RotationProofs!AcceptInvite,
     RotationProofs!RoleLocked, RotationProofs!Statuses
<1>4. RotationOK /\ [Rotation!Next]_(Rotation!vars) => RotationOK'
  BY <1>1, <1>3, RotationProofs!NextIInv, RotationProofs!NextRotation DEF RotationOK
<1>5. RotationOK /\ [Rotation!Next]_(Rotation!vars) => ReenabledAsInvited
  <2>1. RotationProofs!ReenabledAsInvited <=> ReenabledAsInvited
    BY DEF RotationProofs!ReenabledAsInvited, ReenabledAsInvited
  <2> QED
    BY <1>1, <1>3, <2>1, RotationProofs!NextReenables DEF RotationOK
<1>6. RotationOK => Rotation!TypeOK
  BY DEF RotationOK,
     RotationProofs!IInv, RotationProofs!TypeOK, RotationProofs!AcceptReadInvited,
     RotationProofs!LogoutHasToken, RotationProofs!AllKinds, RotationProofs!Statuses,
     Rotation!TypeOK, Rotation!AllKinds, Rotation!Statuses
<1>7. RotationOK => Rotation!ForksBounded
  <2>1. RotationProofs!ForksBounded <=> Rotation!ForksBounded
    BY Zenon DEF Rotation!ForksBounded, RotationProofs!ForksBounded, Rotation!Cardinality,
       RotationProofs!Cardinality
  <2> QED
    BY <1>1, <2>1, RotationProofs!ForksAreBounded DEF RotationOK
<1> QED
  BY <1>2, <1>4, <1>5, <1>6, <1>7

---------------------------------------------------------------------------
(* The invariant of MCAccess                                               *)

UserInv == IF component = "rotation" THEN RotationOK ELSE IInv

DirectoryInv ==
  /\ IF component = "links" THEN FedInv(Subjects, {}) ELSE FedInv({Subject}, Mapped)
  /\ component = "directory" => SettleInv

AccessRunInv == component \in Components /\ UserInv /\ MailInv /\ DirectoryInv

LEMMA AccessRunInit == AccessInit => AccessRunInv
<1> SUFFICES ASSUME AccessInit PROVE AccessRunInv
  OBVIOUS
<1>1. component \in Components
  BY DEF AccessInit
<1>2. UserInv
  BY InitIInv, RotationKeeps DEF AccessInit, UserInv
<1>3. MailInv
  <2>1. Otp!Init => Mail!Init
    BY Zenon DEF Otp!Init, Mail!Init, Otp!Idle, Mail!Idle
  <2> QED
    BY <2>1, MailInit DEF AccessInit
<1>4. DirectoryInv
  <2>1. Directory!Init => Fed({Subject}, Mapped, FALSE, TRUE, FALSE)!Init
    BY Zenon DEF Directory!Init, Fed!Init, Directory!Idle, Fed!Idle, Directory!Statuses,
       Fed!Statuses
  <2>2. Links!Init => Fed(Subjects, {}, TRUE, FALSE, TRUE)!Init
    BY Zenon DEF Links!Init, Fed!Init, Links!Idle, Fed!Idle, Links!Statuses, Fed!Statuses
  <2>3. Directory!Init => FedInv({Subject}, Mapped) /\ ~settled
    BY <2>1, FedInit
  <2>4. Links!Init => FedInv(Subjects, {})
    BY <2>2, FedInit
  <2>5. CASE component = "links"
    BY <2>4, <2>5 DEF AccessInit, DirectoryInv
  <2>6. CASE component # "links"
    <3>1. Directory!Init
      BY <2>6 DEF AccessInit
    <3>2. \A s \in Slots : login[s] = IdleLogin
      BY <3>1 DEF Directory!Init, Directory!Idle, IdleLogin
    <3>3. SettleInv
      <4>1. \A s \in Slots : ~Undisturbed(s)
        BY <3>2 DEF Undisturbed, IdleLogin
      <4>2. FreshIsAccurate
        BY <3>2 DEF FreshIsAccurate
      <4>3. UndisturbedAmongFresh /\ UndisturbedPlan
        BY <4>1 DEF UndisturbedAmongFresh, UndisturbedPlan
      <4>4. SettledAndFresh
        BY <2>3, <3>1, Zenon DEF SettledAndFresh
      <4> QED
        BY <2>3, <3>1, <4>2, <4>3, <4>4 DEF SettleInv
    <3> QED
      BY <2>3, <2>6, <3>1, <3>3 DEF DirectoryInv
  <2> QED
    BY <2>5, <2>6
<1> QED
  BY <1>1, <1>2, <1>3, <1>4 DEF AccessRunInv

\* What is not at work stays as it is.
LEMMA UserFrame ==
  ASSUME UserInv, component' = component, UNCHANGED accessVars PROVE UserInv'
<1>1. CASE component = "rotation"
  <2>1. [Rotation!Next]_(Rotation!vars)
    BY DEF accessVars, user, tokens, Rotation!vars, Rotation!user, Rotation!tokens
  <2> QED
    BY <1>1, <2>1, RotationKeeps DEF UserInv
<1>2. CASE component # "rotation"
  <2>1. [Next]_vars
    BY DEF accessVars, vars
  <2> QED
    BY <1>2, <2>1, NextIInv DEF UserInv
<1> QED
  BY <1>1, <1>2

LEMMA MailFrozen == ASSUME MailInv, UNCHANGED challengeVars PROVE MailInv'
<1>1. UNCHANGED Mail!vars
  BY DEF challengeVars, Mail!vars, Mail!email, Mail!totp
<1> QED
  BY <1>1, MailNext

LEMMA DirectoryFrame ==
  ASSUME DirectoryInv, component' = component, UNCHANGED directoryVars PROVE DirectoryInv'
<1>1. /\ UNCHANGED Fed({Subject}, Mapped, FALSE, TRUE, FALSE)!vars
      /\ UNCHANGED Fed(Subjects, {}, TRUE, FALSE, TRUE)!vars
  BY DEF directoryVars, Fed!vars
<1>2. None \notin Subjects /\ None \notin {Subject}
  OBVIOUS
<1>3. component = "links" => FedInv(Subjects, {})'
  BY <1>1, <1>2, FedNext DEF DirectoryInv
<1>4. component # "links" => FedInv({Subject}, Mapped)'
  BY <1>1, <1>2, FedNext DEF DirectoryInv
<1>5. component = "directory" => SettleInv'
  BY <1>1, SettleNext DEF DirectoryInv
<1> QED
  BY <1>3, <1>4, <1>5 DEF DirectoryInv

LEMMA AccessRunNext == AccessRunInv /\ [AccessNext]_allVars => AccessRunInv'
<1> SUFFICES ASSUME AccessRunInv, [AccessNext]_allVars PROVE AccessRunInv'
  OBVIOUS
<1> USE DEF AccessRunInv
<1>1. component' = component
  BY DEF AccessNext, CacheStep, AccountStep, RotationStep, ChallengeStep, DirectoryStep, AtWork,
     allVars
<1>2. UserInv'
  <2>1. CASE CacheStep
    BY <2>1, NextIInv DEF CacheStep, AtWork, UserInv
  <2>2. CASE AccountStep
    BY <2>2, AccountKeeps DEF AccountStep, AtWork, UserInv
  <2>3. CASE RotationStep
    BY <2>3, RotationKeeps DEF RotationStep, AtWork, UserInv
  <2>4. CASE UNCHANGED accessVars
    BY <1>1, <2>4, UserFrame
  <2> QED
    BY <2>1, <2>2, <2>3, <2>4 DEF AccessNext, ChallengeStep, DirectoryStep, allVars
<1>3. MailInv'
  <2>1. CASE Otp!Next \/ Totp!Next
    BY <2>1, OtpIsMail, MailNext
  <2>2. CASE UNCHANGED challengeVars
    BY <2>2, MailFrozen
  <2> QED
    BY <2>1, <2>2 DEF AccessNext, CacheStep, AccountStep, RotationStep, ChallengeStep,
       DirectoryStep, allVars
<1>4. DirectoryInv'
  <2>1. CASE component = "directory" /\ Directory!Next
    <3>1. SettleInv'
      BY <2>1, DirectoryIsFed, SettleNext DEF DirectoryInv
    <3> QED
      BY <1>1, <2>1, <3>1 DEF DirectoryInv, SettleInv
  <2>2. CASE component = "links" /\ Links!Next
    BY <1>1, <2>2, LinksIsFed, FedNext DEF DirectoryInv
  <2>3. CASE UNCHANGED directoryVars
    BY <1>1, <2>3, DirectoryFrame
  <2> QED
    BY <2>1, <2>2, <2>3 DEF AccessNext, CacheStep, AccountStep, RotationStep, ChallengeStep,
       DirectoryStep, AtWork, allVars
<1> QED
  BY <1>1, <1>2, <1>3, <1>4

LEMMA AccessRunInvariant == AccessSpec => []AccessRunInv
BY AccessRunInit, AccessRunNext, PTL DEF AccessSpec

\* Users, sessions, Redis keys, challenges, accounts and requests stay in their
\* types, whichever component is at work.
THEOREM AccessTypeCorrect == AccessSpec => []AccessTypeOK
<1>1. AccessRunInv => AccessTypeOK
  <2> SUFFICES ASSUME AccessRunInv PROVE AccessTypeOK
    OBVIOUS
  <2>1. IF component = "rotation" THEN Rotation!TypeOK ELSE TypeOK
    BY RotationKeeps DEF AccessRunInv, UserInv, IInv
  <2>2. Otp!TypeOK
    <3>1. Mail!TypeOK <=> Otp!TypeOK
      BY Zenon DEF Mail!TypeOK, Otp!TypeOK, Mail!Challenge, Otp!Challenge
    <3> QED
      BY <3>1, MailIsSound DEF AccessRunInv
  <2>3. IF component = "links" THEN Links!TypeOK ELSE Directory!TypeOK
    <3>1. Fed(Subjects, {}, TRUE, FALSE, TRUE)!TypeOK <=> Links!TypeOK
      BY Zenon DEF Fed!TypeOK, Links!TypeOK, Fed!Statuses, Links!Statuses
    <3>2. Fed({Subject}, Mapped, FALSE, TRUE, FALSE)!TypeOK <=> Directory!TypeOK
      BY Zenon DEF Fed!TypeOK, Directory!TypeOK, Fed!Statuses, Directory!Statuses
    <3> QED
      BY <3>1, <3>2, FedTypes DEF AccessRunInv, DirectoryInv
  <2> QED
    BY <2>1, <2>2, <2>3 DEF AccessTypeOK
<1> QED
  BY <1>1, AccessRunInvariant, PTL

\* A refresh token is exchanged by no more requests than were in flight together
\* (AuthService.refresh revokes by id, outside the read).
THEOREM RotationForksBoundedAlways == AccessSpec => []RotationForksBounded
<1>1. AccessRunInv => RotationForksBounded
  BY RotationKeeps DEF AccessRunInv, UserInv, RotationForksBounded
<1> QED
  BY <1>1, AccessRunInvariant, PTL

\* One session per challenge, no code guessed more often than allowed, the code
\* in force has its mail queued unless a fault was met, and the counter that
\* limits an account's resends ends (AuthService's MFA and its Redis scripts).
THEOREM ChallengesAreSoundAlways == AccessSpec => []ChallengesAreSound
<1>1. AccessRunInv => ChallengesAreSound
  <2>1. /\ Mail!OneSessionPerChallenge <=> Otp!OneSessionPerChallenge
        /\ Mail!GuessesBounded <=> Otp!GuessesBounded
        /\ Mail!StoredCodeWasQueued <=> Otp!StoredCodeWasQueued
        /\ Mail!LimitEnds <=> Otp!LimitEnds
    BY Zenon DEF Mail!OneSessionPerChallenge, Otp!OneSessionPerChallenge, Mail!GuessesBounded,
       Otp!GuessesBounded, Mail!StoredCodeWasQueued, Otp!StoredCodeWasQueued, Mail!LimitEnds,
       Otp!LimitEnds, Mail!At, Otp!At
  <2> QED
    BY <2>1, MailIsSound DEF AccessRunInv, ChallengesAreSound
<1> QED
  BY <1>1, AccessRunInvariant, PTL

\* After the last change of membership the roles the directory maps become what
\* it says, and neither a synchronisation nor a login takes another role away
\* (GraphSyncService.applyGroupRoles, FederatedUserService.upsertFromIdp).
THEOREM DirectoryRolesSettleAlways == AccessSpec => DirectoryRolesSettle
<1>1. AccessRunInv /\ AccessRunInv' /\ [AccessNext]_allVars =>
        [/\ component = "directory" =>
              Directory!SettledRolesMatch' /\ roles \ Mapped \subseteq roles'
         /\ component = "links" => roles \subseteq roles']_directoryVars
  <2> SUFFICES ASSUME AccessRunInv, AccessRunInv', [AccessNext]_allVars, ~UNCHANGED directoryVars
               PROVE  /\ component = "directory" =>
                           Directory!SettledRolesMatch' /\ roles \ Mapped \subseteq roles'
                      /\ component = "links" => roles \subseteq roles'
    OBVIOUS
  <2>1. component' = component
    BY DEF AccessNext, CacheStep, AccountStep, RotationStep, ChallengeStep, DirectoryStep,
       AtWork, allVars
  <2>2. \/ component = "directory" /\ Directory!Next
        \/ component = "links" /\ Links!Next
    BY DEF AccessNext, CacheStep, AccountStep, RotationStep, ChallengeStep, DirectoryStep,
       AtWork, allVars
  <2>3. component = "directory" => Directory!SettledRolesMatch'
    <3>1. SettleInv' => Directory!SettledRolesMatch'
      BY DEF SettleInv, SettledAndFresh, Directed, Due, Ruled, Directory!SettledRolesMatch
    <3> QED
      BY <2>1, <3>1 DEF AccessRunInv, DirectoryInv
  <2>4. component = "directory" => roles \ Mapped \subseteq roles'
    BY <2>2, DirectoryIsFed, ManualRoles
  <2>5. component = "links" => roles \subseteq roles'
    <3>1. component = "links" => roles \ {} \subseteq roles'
      BY <2>2, LinksIsFed, ManualRoles
    <3> QED
      BY <3>1
  <2> QED
    BY <2>3, <2>4, <2>5
<1> QED
  BY <1>1, AccessRunInvariant, PTL DEF AccessSpec, DirectoryRolesSettle

\* Whichever instance of the accounts is at work, a disabled account comes back
\* only by the administrator's update or by a request that had read it as invited.
THEOREM DisabledAccountsStay == AccessSpec => DisabledStaysDisabled
<1>1. AccessRunInv /\ [AccessNext]_allVars =>
        [status = "DISABLED" /\ status' = "ACTIVE" =>
           \A s \in Slots : slot'[s] # slot[s] => slot[s].status = "INVITED"]_vars
  <2> SUFFICES ASSUME AccessRunInv, [AccessNext]_allVars, ~UNCHANGED vars
               PROVE  ReenabledAsInvited
    BY DEF ReenabledAsInvited
  <2>1. CASE CacheStep
    BY <2>1, NextReenables DEF CacheStep, AtWork, AccessRunInv, UserInv
  <2>2. CASE AccountStep
    BY <2>2, AccountKeeps DEF AccountStep, AtWork, AccessRunInv, UserInv
  <2>3. CASE RotationStep
    BY <2>3, RotationKeeps DEF RotationStep, AtWork, AccessRunInv, UserInv
  <2>4. CASE UNCHANGED accessVars
    BY <2>4 DEF accessVars, vars
  <2> QED
    BY <2>1, <2>2, <2>3, <2>4 DEF AccessNext, ChallengeStep, DirectoryStep, allVars
<1> QED
  BY <1>1, AccessRunInvariant, PTL DEF AccessSpec, DisabledStaysDisabled
=============================================================================

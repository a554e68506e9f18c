------------------------------ MODULE Identity -----------------------------
(***************************************************************************)
(* auth.mjs with auth-store.mjs: the owner's account, its second factor,   *)
(* the sessions it opens and what they leave behind: attach codes,         *)
(* remembered terminals, passkeys, an authenticator being replaced, a      *)
(* recovery under way.                                                     *)
(*                                                                         *)
(* Every operation is one synchronous call on a file replaced by a rename, *)
(* so operations do not interleave.  What is left are the orders people    *)
(* call them in.  Where the session an operation opens is an update of its *)
(* own, a death or a refused ledger entry before it leaves what the        *)
(* operation followed by the end of that session leaves.                   *)
(*                                                                         *)
(* Time is the number of the 30-second step a code belongs to.  Lifetimes  *)
(* are not counted: whatever expires may expire at any moment.  A refusal  *)
(* changes nothing but counters; the limiter in memory only refuses more   *)
(* and is left out, as is the elevation that the routes read.              *)
(***************************************************************************)
EXTENDS Naturals, FiniteSets

CONSTANTS
    LockAfter,       \* failed logins that lock the account
    MaxStep, MaxSecrets, MaxSessions, MaxTerminals, MaxChallenges, MaxRecoveries, \* bounds
    None

Secrets == 1..MaxSecrets

SessionIds == 1..MaxSessions

\* What a session rests on: how its person was recognised, whether a remembered
\* terminal carried that over, and before which recovery it was.
Session == [mfa : BOOLEAN, basis : {"password", "code", "passkey"}, terminal : BOOLEAN,
            era : 0..MaxRecoveries]

\* The owner: the authenticator and the last step it was used in, the failed logins,
\* a candidate authenticator, and the recoveries that passkeys were enrolled after.
Account == [totp : Secrets \cup {None}, lastTotpStep : 0..(MaxStep + 1),
            failed : 0..LockAfter, locked : BOOLEAN, pendingTotp : Secrets \cup {None},
            passkeys : SUBSET (0..MaxRecoveries), pendingPasskey : BOOLEAN]

ASSUME IdentityConstants ==
    /\ {LockAfter, MaxStep} \subseteq Nat \ {0}
    /\ {MaxSecrets, MaxSessions, MaxTerminals, MaxChallenges, MaxRecoveries} \subseteq Nat
    /\ None \notin Session \cup Account \cup Nat

VARIABLES
    step,            \* the current TOTP step
    account,         \* the owner, None before the first run is over
    pendingOwner,    \* the secret of a setup that awaits its first code
    loginChallenges, \* logins with the password verified and the second factor not
    sessions,
    attachCodes,     \* the sessions with an attach code outstanding
    terminals,       \* what each remembered terminal carries
    pendingRecovery, \* the secret of a recovery that awaits its first code
    secrets,         \* authenticator secrets given out
    opened,          \* sessions opened
    era,             \* history: recoveries completed
    top,             \* history: the latest code accepted from each secret
    reused,          \* history: a code at or before that was accepted
    compared,        \* history: wrong passwords compared since a right one or a lapse
    lapsed           \* history: a lock has lapsed since the last right password

vars == <<step, account, pendingOwner, loginChallenges, sessions, attachCodes, terminals,
          pendingRecovery, secrets, opened, era, top, reused, compared, lapsed>>

Live == {s \in SessionIds : sessions[s] # None}

Init ==
    /\ step = 1
    /\ account = None /\ pendingOwner = None /\ pendingRecovery = None
    /\ loginChallenges = 0
    /\ sessions = [s \in SessionIds |-> None]
    /\ attachCodes = {}
    /\ terminals = [t \in 1..MaxTerminals |-> None]
    /\ secrets = 0 /\ opened = 0 /\ era = 0
    /\ top = [k \in Secrets |-> 0]
    /\ reused = FALSE /\ compared = 0 /\ lapsed = FALSE

----------------------------------------------------------------------------
(* Helpers                                                                 *)

\* An account as it is seeded or set up.
NewAccount(totp, last) ==
    [totp |-> totp, lastTotpStep |-> last, failed |-> 0, locked |-> FALSE,
     pendingTotp |-> None, passkeys |-> {}, pendingPasskey |-> FALSE]

Rests(mfa, basis) == [mfa |-> mfa, basis |-> basis, terminal |-> FALSE, era |-> era]

\* createSession, into the sessions an operation leaves.
createSession(remaining, record) ==
    /\ opened < MaxSessions
    /\ opened' = opened + 1
    /\ sessions' = [remaining EXCEPT ![opened + 1] = record]

newSecret == secrets < MaxSecrets /\ secrets' = secrets + 1

\* The codes verifyTotpStep takes now.
Window == {c \in 1..(MaxStep + 1) : c + 1 >= step /\ c <= step + 1}

\* Bookkeeping of an accepted code.
Accepted(secret, code) ==
    /\ top' = [top EXCEPT ![secret] = code]
    /\ reused' = (reused \/ code <= top[secret])

\* consumeTotp: the code is one of the secret's, and later than the last one used.
consumeTotp(secret, code, last) ==
    /\ secret # None
    /\ code \in Window
    /\ code > last
    /\ Accepted(secret, code)

Only(s) == [t \in SessionIds |-> IF t = s THEN sessions[t] ELSE None]

\* The proof of presence: password and code, for an account with an authenticator.
assertPresence(code) ==
    /\ account # None
    /\ consumeTotp(account.totp, code, account.lastTotpStep)

\* The password alone, for one without.
passwordOnly ==
    /\ account # None /\ account.totp = None
    /\ UNCHANGED <<top, reused>>

\* A right password clears the lock.
Unlocked(a) == [a EXCEPT !.failed = 0, !.locked = FALSE]

ForgetFailures == compared' = 0 /\ lapsed' = FALSE

----------------------------------------------------------------------------
(* First run                                                               *)

seedDefaultOwnerIfNeeded ==
    /\ account = None
    /\ account' = NewAccount(None, 0)
    /\ UNCHANGED <<step, pendingOwner, loginChallenges, sessions, attachCodes, terminals,
                   pendingRecovery, secrets, opened, era, top, reused, compared, lapsed>>

beginSetup ==
    /\ account = None
    /\ newSecret
    /\ pendingOwner' = secrets'
    /\ UNCHANGED <<step, account, loginChallenges, sessions, attachCodes, terminals,
                   pendingRecovery, opened, era, top, reused, compared, lapsed>>

\* The new owner takes the place of any other, whose sessions name nobody then.
confirmSetup(code) ==
    /\ pendingOwner # None
    /\ consumeTotp(pendingOwner, code, 0)
    /\ account' = NewAccount(pendingOwner, code)
    /\ pendingOwner' = None
    /\ createSession(Only(0), Rests(TRUE, "code"))
    /\ loginChallenges' = 0 /\ attachCodes' = {} /\ pendingRecovery' = None
    /\ terminals' = [t \in DOMAIN terminals |-> None]
    /\ ForgetFailures
    /\ UNCHANGED <<step, secrets, era>>

----------------------------------------------------------------------------
(* Login                                                                   *)

\* The lock is set on the failure that reaches the limit, and on no later one.
FailAtLimit(wrong) ==
    /\ account # None
    /\ account.locked \/ wrong
    /\ account' = [account EXCEPT !.failed = IF @ <= LockAfter THEN @ + 1 ELSE @,
                                  !.locked = @ \/ account.failed + 1 = LockAfter]
    /\ compared' = IF account.locked THEN compared ELSE compared + 1
    /\ UNCHANGED <<step, pendingOwner, loginChallenges, sessions, attachCodes, terminals,
                   pendingRecovery, secrets, opened, era, top, reused, lapsed>>

\* The count past the limit tells nothing more, and is not kept.  While the account
\* is locked no password is compared, and every attempt is a failure.
failLogin(wrong) ==
    /\ account # None
    /\ account.locked \/ wrong
    /\ account' = [account EXCEPT !.failed = IF @ < LockAfter THEN @ + 1 ELSE @,
                                  !.locked = @ \/ account.failed + 1 >= LockAfter]
    /\ compared' = IF account.locked THEN compared ELSE compared + 1
    /\ UNCHANGED <<step, pendingOwner, loginChallenges, sessions, attachCodes, terminals,
                   pendingRecovery, secrets, opened, era, top, reused, lapsed>>

\* lockedUntil passes; the count of failures stays.
LockLapses ==
    /\ account # None /\ account.locked
    /\ account' = [account EXCEPT !.locked = FALSE]
    /\ compared' = 0 /\ lapsed' = TRUE
    /\ UNCHANGED <<step, pendingOwner, loginChallenges, sessions, attachCodes, terminals,
                   pendingRecovery, secrets, opened, era, top, reused>>

\* With no authenticator enrolled the password opens a session at once.
beginLogin ==
    /\ account # None /\ ~account.locked
    /\ account' = Unlocked(account)
    /\ ForgetFailures
    /\ IF account.totp = None
       THEN createSession(sessions, Rests(FALSE, "password")) /\ UNCHANGED loginChallenges
       ELSE /\ loginChallenges < MaxChallenges
            /\ loginChallenges' = loginChallenges + 1
            /\ UNCHANGED <<sessions, opened>>
    /\ UNCHANGED <<step, pendingOwner, attachCodes, terminals, pendingRecovery, secrets, era,
                   top, reused>>

completeLogin(code) ==
    /\ loginChallenges > 0
    /\ assertPresence(code)
    /\ loginChallenges' = loginChallenges - 1
    /\ account' = [account EXCEPT !.lastTotpStep = code]
    /\ createSession(sessions, Rests(TRUE, "code"))
    /\ UNCHANGED <<step, pendingOwner, attachCodes, terminals, pendingRecovery, secrets, era,
                   compared, lapsed>>

completeLoginWithPasskey ==
    /\ loginChallenges > 0
    /\ account # None
    /\ loginChallenges' = loginChallenges - 1
    /\ account' = Unlocked(account)
    /\ ForgetFailures
    /\ \E p \in account.passkeys :
         createSession(sessions, [Rests(TRUE, "passkey") EXCEPT !.era = p])
    /\ UNCHANGED <<step, pendingOwner, attachCodes, terminals, pendingRecovery, secrets, era,
                   top, reused>>

----------------------------------------------------------------------------
(* Attach codes and remembered terminals                                   *)

\* Without the refusal of a session that passed no second factor.
MintFromAny(s) ==
    /\ s \in Live
    /\ attachCodes' = attachCodes \cup {s}
    /\ UNCHANGED <<step, account, pendingOwner, loginChallenges, sessions, terminals,
                   pendingRecovery, secrets, opened, era, top, reused, compared, lapsed>>

\* One code outstanding for each session.
mintAttachCode(s) ==
    /\ s \in Live /\ sessions[s].mfa
    /\ attachCodes' = attachCodes \cup {s}
    /\ UNCHANGED <<step, account, pendingOwner, loginChallenges, sessions, terminals,
                   pendingRecovery, secrets, opened, era, top, reused, compared, lapsed>>

\* The attempt spends the code; a session opens if the one that minted it is live.
redeemAttachCode(s) ==
    /\ s \in attachCodes
    /\ attachCodes' = attachCodes \ {s}
    /\ IF s \in Live
       THEN createSession(sessions, [sessions[s] EXCEPT !.mfa = TRUE])
       ELSE UNCHANGED <<sessions, opened>>
    /\ UNCHANGED <<step, account, pendingOwner, loginChallenges, terminals, pendingRecovery,
                   secrets, era, top, reused, compared, lapsed>>

rememberTerminal(t, s) ==
    /\ s \in Live /\ sessions[s].mfa
    /\ terminals[t] = None
    /\ terminals' = [terminals EXCEPT ![t] = [sessions[s] EXCEPT !.terminal = TRUE]]
    /\ UNCHANGED <<step, account, pendingOwner, loginChallenges, sessions, attachCodes,
                   pendingRecovery, secrets, opened, era, top, reused, compared, lapsed>>

resumeTerminal(t) ==
    /\ terminals[t] # None
    /\ createSession(sessions, [terminals[t] EXCEPT !.mfa = TRUE])
    /\ UNCHANGED <<step, account, pendingOwner, loginChallenges, attachCodes, terminals,
                   pendingRecovery, secrets, era, top, reused, compared, lapsed>>

\* Revoked from the browser, forgotten by its holder, or unused for too long.
revokeRememberedTerminal(t) ==
    /\ terminals[t] # None
    /\ terminals' = [terminals EXCEPT ![t] = None]
    /\ UNCHANGED <<step, account, pendingOwner, loginChallenges, sessions, attachCodes,
                   pendingRecovery, secrets, opened, era, top, reused, compared, lapsed>>

----------------------------------------------------------------------------
(* What a signed-in person does with the account                           *)

\* A session was live when the route looked; it awaits the body of the request
\* then, and most operations do not look again.
Asked == opened > 0 /\ account # None

\* Operations that leave sessions and what hangs on them alone.
KeepSessions == UNCHANGED <<step, pendingOwner, loginChallenges, sessions, attachCodes,
                            terminals, pendingRecovery, opened, era>>

\* The accepted step is not written back.
ReauthenticateUnrecorded(code) ==
    /\ Live # {}
    /\ assertPresence(code)
    /\ UNCHANGED account
    /\ KeepSessions
    /\ UNCHANGED <<secrets, compared, lapsed>>

reauthenticate(code) ==
    /\ Live # {}
    /\ assertPresence(code)
    /\ account' = [account EXCEPT !.lastTotpStep = code]
    /\ KeepSessions
    /\ UNCHANGED <<secrets, compared, lapsed>>

\* The recovery codes are replaced; beginRecovery has another way in and they are
\* not kept here.
regenerateRecoveryCodes(code) ==
    /\ Asked
    /\ assertPresence(code)
    /\ account' = [account EXCEPT !.lastTotpStep = code]
    /\ KeepSessions
    /\ UNCHANGED <<secrets, compared, lapsed>>

beginPasskeyRegistration(code) ==
    /\ Asked
    /\ assertPresence(code)
    /\ account' = [account EXCEPT !.lastTotpStep = code, !.pendingPasskey = TRUE]
    /\ KeepSessions
    /\ UNCHANGED <<secrets, compared, lapsed>>

confirmPasskeyRegistration ==
    /\ Asked
    /\ account.pendingPasskey
    /\ account' = [account EXCEPT !.pendingPasskey = FALSE, !.passkeys = @ \cup {era}]
    /\ KeepSessions
    /\ UNCHANGED <<secrets, top, reused, compared, lapsed>>

\* One passkey goes, or none that is known; another of its era may be left.
removePasskey(code) ==
    /\ Asked
    /\ assertPresence(code)
    /\ \E rest \in {account.passkeys} \cup {account.passkeys \ {p} : p \in account.passkeys} :
         account' = [account EXCEPT !.lastTotpStep = code, !.passkeys = rest]
    /\ KeepSessions
    /\ UNCHANGED <<secrets, compared, lapsed>>

changePassword(s, code, revokeOthers) ==
    /\ Asked /\ s <= opened
    /\ \/ /\ assertPresence(code)
          /\ account' = [Unlocked(account) EXCEPT !.lastTotpStep = code]
       \/ /\ passwordOnly
          /\ account' = [Unlocked(account) EXCEPT !.lastTotpStep = 0]
    /\ sessions' = IF revokeOthers THEN Only(s) ELSE sessions
    /\ ForgetFailures
    /\ UNCHANGED <<step, pendingOwner, loginChallenges, attachCodes, terminals,
                   pendingRecovery, secrets, opened, era>>

disableMfa(code) ==
    /\ Asked
    /\ assertPresence(code)
    /\ account' = [account EXCEPT !.totp = None, !.pendingTotp = None]
    /\ KeepSessions
    /\ UNCHANGED <<secrets, compared, lapsed>>

\* The candidate secret is held aside; the live one goes on working.
beginMfaReplacement(code) ==
    /\ Asked
    /\ newSecret
    /\ \/ /\ assertPresence(code)
          /\ account' = [account EXCEPT !.lastTotpStep = code, !.pendingTotp = secrets']
       \/ /\ passwordOnly
          /\ account' = [account EXCEPT !.lastTotpStep = 0, !.pendingTotp = secrets']
    /\ KeepSessions
    /\ UNCHANGED <<compared, lapsed>>

\* Two consecutive codes of the candidate, which then takes the live one's place.
confirmMfaReplacement(s, first, revokeOthers) ==
    /\ Asked /\ s <= opened
    /\ account.pendingTotp # None
    /\ {first, first + 1} \subseteq Window
    /\ Accepted(account.pendingTotp, first + 1)
    /\ account' = [account EXCEPT !.totp = account.pendingTotp, !.pendingTotp = None,
                                  !.lastTotpStep = first + 1]
    /\ sessions' = IF revokeOthers THEN Only(s) ELSE sessions
    /\ UNCHANGED <<step, pendingOwner, loginChallenges, attachCodes, terminals,
                   pendingRecovery, secrets, opened, era, compared, lapsed>>

cancelMfaReplacement ==
    /\ account # None /\ account.pendingTotp # None
    /\ account' = [account EXCEPT !.pendingTotp = None]
    /\ KeepSessions
    /\ UNCHANGED <<secrets, top, reused, compared, lapsed>>

----------------------------------------------------------------------------
(* Recovery                                                                *)

\* By a recovery code or by proof of the installation's files.
beginRecovery ==
    /\ account # None
    /\ era < MaxRecoveries
    /\ newSecret
    /\ pendingRecovery' = secrets'
    /\ UNCHANGED <<step, account, pendingOwner, loginChallenges, sessions, attachCodes,
                   terminals, opened, era, top, reused, compared, lapsed>>

\* Sessions are left as they are.
RecoverKeepingSessions(code) ==
    /\ pendingRecovery # None /\ account # None
    /\ consumeTotp(pendingRecovery, code, 0)
    /\ account' = [Unlocked(account) EXCEPT !.totp = pendingRecovery, !.lastTotpStep = code]
    /\ pendingRecovery' = None
    /\ era' = era + 1
    /\ createSession(sessions, [Rests(TRUE, "code") EXCEPT !.era = era + 1])
    /\ ForgetFailures
    /\ UNCHANGED <<step, pendingOwner, loginChallenges, attachCodes, terminals, secrets>>

\* Every session ends.  Challenges, terminals, passkeys and a pending replacement of
\* the authenticator are left as they are.
completeRecovery(code) ==
    /\ pendingRecovery # None /\ account # None
    /\ consumeTotp(pendingRecovery, code, 0)
    /\ account' = [Unlocked(account) EXCEPT !.totp = pendingRecovery, !.lastTotpStep = code]
    /\ pendingRecovery' = None
    /\ era' = era + 1
    /\ createSession(Only(0), [Rests(TRUE, "code") EXCEPT !.era = era + 1])
    /\ ForgetFailures
    /\ UNCHANGED <<step, pendingOwner, loginChallenges, attachCodes, terminals, secrets>>

----------------------------------------------------------------------------
(* Endings                                                                 *)

KeepAccount == UNCHANGED <<account, pendingOwner, terminals, pendingRecovery, secrets, opened,
                           era, top, reused, compared, lapsed>>

\* logout, revokeSession from another session, or expiry.
sessionEnds(s) ==
    /\ s \in Live
    /\ sessions' = [sessions EXCEPT ![s] = None]
    /\ UNCHANGED <<step, loginChallenges, attachCodes>>
    /\ KeepAccount

revokeOtherSessions(s) ==
    /\ s \in Live /\ Live # {s}
    /\ sessions' = Only(s)
    /\ UNCHANGED <<step, loginChallenges, attachCodes>>
    /\ KeepAccount

AttachCodeExpires(s) ==
    /\ s \in attachCodes
    /\ attachCodes' = attachCodes \ {s}
    /\ UNCHANGED <<step, loginChallenges, sessions>>
    /\ KeepAccount

ChallengeExpires ==
    /\ loginChallenges > 0
    /\ loginChallenges' = loginChallenges - 1
    /\ UNCHANGED <<step, attachCodes, sessions>>
    /\ KeepAccount

TimePasses ==
    /\ step < MaxStep
    /\ step' = step + 1
    /\ UNCHANGED <<loginChallenges, attachCodes, sessions>>
    /\ KeepAccount

----------------------------------------------------------------------------
Next ==
    \/ seedDefaultOwnerIfNeeded \/ beginSetup
    \/ LockLapses \/ beginLogin \/ completeLoginWithPasskey
    \/ \E wrong \in BOOLEAN : failLogin(wrong)
    \/ \E code \in Window :
        \/ confirmSetup(code) \/ completeLogin(code) \/ completeRecovery(code)
        \/ reauthenticate(code) \/ regenerateRecoveryCodes(code)
        \/ beginPasskeyRegistration(code) \/ removePasskey(code)
        \/ disableMfa(code) \/ beginMfaReplacement(code)
        \/ \E s \in SessionIds, revokeOthers \in BOOLEAN :
            \/ changePassword(s, code, revokeOthers)
            \/ confirmMfaReplacement(s, code, revokeOthers)
    \/ confirmPasskeyRegistration \/ cancelMfaReplacement \/ beginRecovery
    \/ \E s \in SessionIds :
        \/ mintAttachCode(s) \/ redeemAttachCode(s) \/ AttachCodeExpires(s)
        \/ sessionEnds(s) \/ revokeOtherSessions(s)
        \/ \E t \in 1..MaxTerminals : rememberTerminal(t, s)
    \/ \E t \in 1..MaxTerminals : resumeTerminal(t) \/ revokeRememberedTerminal(t)
    \/ ChallengeExpires \/ TimePasses

Spec == Init /\ [][Next]_vars

----------------------------------------------------------------------------
(* Properties                                                              *)

TypeOK ==
    /\ step \in 1..MaxStep
    /\ account \in Account \cup {None}
    /\ sessions \in [SessionIds -> Session \cup {None}]
    /\ terminals \in [1..MaxTerminals -> Session \cup {None}]
    /\ attachCodes \subseteq 1..opened /\ loginChallenges \in 0..MaxChallenges
    /\ \A s \in SessionIds : s > opened => sessions[s] = None

\* consumeTotp: "Accept a TOTP code at most once."  Eleven operations accept codes, and
\* three of them reset lastTotpStep or leave it; still no code is accepted at or
\* before one already accepted from the same authenticator.
CodesMoveForward == ~reused

\* An attach code or a remembered terminal is never a way to make a session stronger
\* than the one behind it: a session marked mfa rests on a second factor somebody
\* passed, however many codes and terminals lie between.
SecondFactorIsCarried ==
    \A s \in Live : sessions[s].mfa => sessions[s].basis # "password"

\* completeRecovery: "every session is revoked."  A session in use after a recovery
\* rests on a proof given since, unless a terminal remembered or a passkey enrolled
\* before it opened the session; those the recovery leaves alone.
RecoveryCutsOldSessions ==
    \A s \in Live : \/ sessions[s].era = era
                    \/ sessions[s].terminal \/ sessions[s].basis = "passkey"

\* beginLogin's lock: passwords are compared in bursts of at most LockAfter, and once
\* a lock has lapsed, one at a time, until the right one is given.
GuessesAreSlowed == compared <= IF lapsed THEN 1 ELSE LockAfter
=============================================================================

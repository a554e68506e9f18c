--------------------------- MODULE IdentityProofs --------------------------
(***************************************************************************)
(* Safety of the owner's account, for every number of sessions, terminals, *)
(* authenticators, recoveries and steps, and every limit of failed logins. *)
(*                                                                         *)
(* The inductive invariant has a part for each property, each of them over *)
(* the state that its property leaves out: which authenticators have been  *)
(* given out and which of them hold no code yet (Codes), what an attach    *)
(* code and a remembered terminal carry (Carried), where the sessions of a *)
(* former era come from (Recovered), and how the count of failures, the    *)
(* lock and its lapse go together (Lock).                                  *)
(***************************************************************************)
EXTENDS Identity, TLAPS

Typed ==
    /\ TypeOK
    /\ {pendingOwner, pendingRecovery} \subseteq Secrets \cup {None}
    /\ secrets \in 0..MaxSecrets /\ opened \in 0..MaxSessions /\ era \in 0..MaxRecoveries
    /\ top \in [Secrets -> 0..(MaxStep + 1)]
    /\ reused \in BOOLEAN /\ compared \in Nat /\ lapsed \in BOOLEAN
    /\ pendingRecovery # None => era < MaxRecoveries
    /\ account = None => opened = 0 /\ \A t \in 1..MaxTerminals : terminals[t] = None

\* An authenticator that awaits its first code: given out, and no code taken from it.
Unused(k) == k # None => k <= secrets /\ top[k] = 0

Apart(j, k) == j = k => j = None

\* lastTotpStep covers what was accepted from the live authenticator, no code was
\* accepted from a candidate, and no authenticator is held in two places.
Codes ==
    /\ ~reused
    /\ \A k \in Secrets : k > secrets => top[k] = 0
    /\ Unused(pendingOwner) /\ Unused(pendingRecovery) /\ Apart(pendingOwner, pendingRecovery)
    /\ account # None =>
        /\ account.totp # None =>
            account.totp <= secrets /\ top[account.totp] <= account.lastTotpStep
        /\ Unused(account.pendingTotp)
        /\ Apart(account.totp, account.pendingTotp)
        /\ \A p \in {pendingOwner, pendingRecovery} :
            Apart(p, account.totp) /\ Apart(p, account.pendingTotp)

\* Attach codes and terminals come from sessions that passed a second factor.
Carried ==
    /\ SecondFactorIsCarried
    /\ \A s \in attachCodes \cap Live : sessions[s].mfa
    /\ \A t \in 1..MaxTerminals : terminals[t] # None => terminals[t].basis # "password"

Recovered ==
    /\ RecoveryCutsOldSessions
    /\ \A t \in 1..MaxTerminals : terminals[t] # None => terminals[t].terminal

\* Before a lapse each comparison counts; a lock stands at the limit, and after it
\* lapsed the next wrong password locks again.
Lock ==
    /\ account = None => compared = 0 /\ ~lapsed
    /\ account # None =>
        /\ account.locked \/ lapsed => account.failed = LockAfter
        /\ ~lapsed => compared <= account.failed
        /\ ~lapsed /\ ~account.locked => account.failed < LockAfter
        /\ lapsed => compared <= (IF account.locked THEN 1 ELSE 0)

IdentityInv == Typed /\ Codes /\ Carried /\ Recovered /\ Lock

----------------------------------------------------------------------------
(* What the operations do to the account                                   *)

\* The fields of an account that codes are about, after an operation on it.
Edited(totp, last, pending) ==
    /\ account \in Account /\ account' \in Account
    /\ account'.totp = totp /\ account'.lastTotpStep = last /\ account'.pendingTotp = pending

\* The fields the lock is about.
Guarded(failed, locked) == account'.failed = failed /\ account'.locked = locked

LockKept == Guarded(account.failed, account.locked) /\ UNCHANGED <<compared, lapsed>>

LockCleared == Guarded(0, FALSE) /\ ForgetFailures

\* What the operations write has its type: a new account, one with its lock cleared,
\* and the record of a session.
LEMMA RecordsTyped ==
    ASSUME Typed
    PROVE  /\ \A totp \in Secrets \cup {None}, last \in 0..(MaxStep + 1) :
                NewAccount(totp, last) \in Account
           /\ account # None => account \in Account /\ Unlocked(account) \in Account
           /\ \A mfa \in BOOLEAN, basis \in {"password", "code", "passkey"} :
                Rests(mfa, basis) \in Session
           /\ \A s \in SessionIds : Only(s) \in [SessionIds -> Session \cup {None}]
           /\ Only(0) = [s \in SessionIds |-> None]
<1>1. \A totp \in Secrets \cup {None}, last \in 0..(MaxStep + 1) :
        NewAccount(totp, last) \in Account
  BY IdentityConstants DEF NewAccount, Account
<1>2. account # None => account \in Account /\ Unlocked(account) \in Account
  <2>1. 0 \in 0..LockAfter /\ FALSE \in BOOLEAN
    BY IdentityConstants
  <2> QED
    BY <2>1, Zenon DEF Typed, TypeOK, Account, Unlocked
<1>3. \A mfa \in BOOLEAN, basis \in {"password", "code", "passkey"} :
        Rests(mfa, basis) \in Session
  BY DEF Typed, Rests, Session
<1>4. \A s \in SessionIds : Only(s) \in [SessionIds -> Session \cup {None}]
  BY DEF Typed, TypeOK, Only
<1>5. Only(0) = [s \in SessionIds |-> None]
  BY IdentityConstants DEF Only, SessionIds
<1> QED
  BY <1>1, <1>2, <1>3, <1>4, <1>5

\* Clearing the lock touches nothing else.
LEMMA UnlockedFields ==
    ASSUME account \in Account
    PROVE  LET a == Unlocked(account) IN
           /\ a.totp = account.totp /\ a.lastTotpStep = account.lastTotpStep
           /\ a.pendingTotp = account.pendingTotp
           /\ a.failed = 0 /\ a.locked = FALSE
BY Zenon DEF Account, Unlocked

\* createSession fills the next free place.
LEMMA SessionsTyped ==
    ASSUME Typed, NEW record \in Session,
           NEW remaining \in [SessionIds -> Session \cup {None}],
           \A s \in SessionIds : remaining[s] # None => sessions[s] # None,
           createSession(remaining, record)
    PROVE  /\ opened + 1 \in SessionIds /\ opened' \in 0..MaxSessions
           /\ opened' = opened + 1
           /\ sessions' \in [SessionIds -> Session \cup {None}]
           /\ \A s \in SessionIds : s > opened' => sessions'[s] = None
           /\ \A s \in SessionIds : sessions'[s] = IF s = opened + 1 THEN record ELSE remaining[s]
BY IdentityConstants DEF Typed, TypeOK, createSession, SessionIds

\* Codes are steps of the model, and an accepted one is the latest of its secret.
LEMMA AcceptedTyped ==
    ASSUME Typed, NEW secret \in Secrets, NEW code \in 1..(MaxStep + 1), Accepted(secret, code)
    PROVE  /\ top' \in [Secrets -> 0..(MaxStep + 1)] /\ reused' \in BOOLEAN
           /\ \A k \in Secrets : top'[k] = IF k = secret THEN code ELSE top[k]
           /\ reused' = (reused \/ code <= top[secret])
BY IdentityConstants DEF Typed, Accepted

\* A code in the window is a step of the model.
LEMMA WindowTyped ==
    /\ \A code \in Window : code \in 1..(MaxStep + 1) /\ code \in 0..(MaxStep + 1)
    /\ \A code \in Window : code \in Nat /\ code > 0
BY IdentityConstants DEF Window

\* A session is open only once there is an account.
LEMMA LiveOwner ==
    ASSUME Typed, Live # {}
    PROVE  account \in Account /\ account # None
BY IdentityConstants DEF Typed, TypeOK, Live, SessionIds

\* The operations of a signed-in person: sessions and lock stay as they are, and the
\* authenticators change in one of five ways.
SignedIn(code) ==
    \/ reauthenticate(code) \/ regenerateRecoveryCodes(code)
    \/ beginPasskeyRegistration(code) \/ removePasskey(code)
    \/ disableMfa(code) \/ beginMfaReplacement(code)
    \/ confirmPasskeyRegistration \/ cancelMfaReplacement

\* Every operation of a signed-in person, as the invariant sees it.
LEMMA SignedInEffect ==
    ASSUME Typed, NEW code \in Window, SignedIn(code)
    PROVE  /\ account # None /\ KeepSessions /\ LockKept
           /\ \/ /\ assertPresence(code)
                 /\ Edited(account.totp, code, account.pendingTotp)
                 /\ UNCHANGED secrets
              \/ /\ assertPresence(code)
                 /\ Edited(None, account.lastTotpStep, None)
                 /\ UNCHANGED secrets
              \/ /\ newSecret
                 /\ assertPresence(code)
                 /\ Edited(account.totp, code, secrets')
              \/ /\ newSecret
                 /\ passwordOnly
                 /\ Edited(account.totp, 0, secrets')
              \/ /\ \/ Edited(account.totp, account.lastTotpStep, account.pendingTotp)
                    \/ Edited(account.totp, account.lastTotpStep, None)
                 /\ UNCHANGED <<top, reused, secrets>>
<1> USE DEF Edited, LockKept, Guarded
<1>1. /\ account \in Account /\ account # None
      /\ TRUE \in BOOLEAN /\ FALSE \in BOOLEAN
      /\ code \in 0..(MaxStep + 1) /\ 0 \in 0..(MaxStep + 1)
      /\ None \in Secrets \cup {None}
      /\ account.passkeys \cup {era} \in SUBSET (0..MaxRecoveries)
  <2>1. account \in Account /\ account # None
    BY LiveOwner DEF SignedIn, reauthenticate, regenerateRecoveryCodes,
       beginPasskeyRegistration, removePasskey, disableMfa, beginMfaReplacement,
       confirmPasskeyRegistration, cancelMfaReplacement, Asked, Typed, TypeOK
  <2>2. account.passkeys \cup {era} \in SUBSET (0..MaxRecoveries)
    BY <2>1 DEF Account, Typed
  <2> QED
    BY <2>1, <2>2, WindowTyped, IdentityConstants
<1>2. CASE reauthenticate(code) \/ regenerateRecoveryCodes(code)
  BY <1>1, <1>2, Zenon DEF reauthenticate, regenerateRecoveryCodes, Account
<1>3. CASE beginPasskeyRegistration(code)
  BY <1>1, <1>3, Zenon DEF beginPasskeyRegistration, Account
<1>4. CASE removePasskey(code)
  <2>1. PICK rest \in SUBSET account.passkeys :
          account' = [account EXCEPT !.lastTotpStep = code, !.passkeys = rest]
    BY <1>4 DEF removePasskey
  <2>2. rest \in SUBSET (0..MaxRecoveries)
    BY <1>1, <2>1
  <2>3. /\ assertPresence(code) /\ KeepSessions
        /\ UNCHANGED <<secrets, compared, lapsed>>
    BY <1>4, Zenon DEF removePasskey
  <2> QED
    BY <1>1, <2>1, <2>2, <2>3, Zenon DEF Account
<1>5. CASE disableMfa(code)
  BY <1>1, <1>5, Zenon DEF disableMfa, Account
<1>6. CASE beginMfaReplacement(code)
  <2>1. secrets' \in Secrets \cup {None}
    BY <1>6, IdentityConstants DEF beginMfaReplacement, newSecret, Secrets, Typed
  <2> QED
    BY <1>1, <1>6, <2>1, Zenon DEF beginMfaReplacement, Account
<1>7. CASE confirmPasskeyRegistration
  BY <1>1, <1>7, Zenon DEF confirmPasskeyRegistration, Account
<1>8. CASE cancelMfaReplacement
  BY <1>1, <1>8, Zenon DEF cancelMfaReplacement, Account
<1> QED
  BY <1>2, <1>3, <1>4, <1>5, <1>6, <1>7, <1>8 DEF SignedIn

\* The lock cleared by the right password, or by a passkey; its lapse.
LEMMA PasswordEffects ==
    ASSUME Typed
    PROVE  /\ completeLoginWithPasskey \/ beginLogin =>
                Edited(account.totp, account.lastTotpStep, account.pendingTotp) /\ LockCleared
           /\ LockLapses =>
                /\ Edited(account.totp, account.lastTotpStep, account.pendingTotp)
                /\ Guarded(account.failed, FALSE)
<1> USE DEF Edited, LockCleared, Guarded
<1>1. account # None => account \in Account /\ Unlocked(account) \in Account
  BY RecordsTyped
<1>2. completeLoginWithPasskey \/ beginLogin =>
        Edited(account.totp, account.lastTotpStep, account.pendingTotp) /\ LockCleared
  BY <1>1, UnlockedFields, Zenon DEF completeLoginWithPasskey, beginLogin
<1>3. LockLapses =>
        /\ Edited(account.totp, account.lastTotpStep, account.pendingTotp)
        /\ Guarded(account.failed, FALSE)
  <2>1. FALSE \in BOOLEAN
    OBVIOUS
  <2> QED
    BY <1>1, <2>1, Zenon DEF LockLapses, Account
<1> QED
  BY <1>2, <1>3

\* The operations that take a code and open a session.
LEMMA CodeEffects ==
    ASSUME Typed, NEW code \in Window
    PROVE  /\ completeLogin(code) =>
                Edited(account.totp, code, account.pendingTotp) /\ LockKept
           /\ completeRecovery(code) =>
                Edited(pendingRecovery, code, account.pendingTotp) /\ LockCleared
           /\ confirmSetup(code) =>
                /\ account' \in Account /\ LockCleared
                /\ account'.totp = pendingOwner /\ account'.lastTotpStep = code
                /\ account'.pendingTotp = None
<1> USE DEF Edited, LockKept, LockCleared, Guarded
<1>1. /\ account # None => account \in Account /\ Unlocked(account) \in Account
      /\ code \in 0..(MaxStep + 1) /\ None \in Secrets \cup {None}
      /\ pendingOwner \in Secrets \cup {None} /\ pendingRecovery \in Secrets \cup {None}
  BY WindowTyped, RecordsTyped DEF Typed
<1>2. completeLogin(code) =>
        Edited(account.totp, code, account.pendingTotp) /\ LockKept
  BY <1>1, Zenon DEF completeLogin, assertPresence, Account
<1>3. completeRecovery(code) =>
        Edited(pendingRecovery, code, account.pendingTotp) /\ LockCleared
  <2> SUFFICES ASSUME completeRecovery(code)
               PROVE  Edited(pendingRecovery, code, account.pendingTotp) /\ LockCleared
    OBVIOUS
  <2> DEFINE a == Unlocked(account)
  <2>1. /\ account' = [a EXCEPT !.totp = pendingRecovery, !.lastTotpStep = code]
        /\ account # None /\ ForgetFailures
    BY Zenon DEF completeRecovery
  <2>2. account \in Account /\ a \in Account
    BY <1>1, <2>1
  <2>3. a.pendingTotp = account.pendingTotp /\ a.failed = 0 /\ a.locked = FALSE
    BY <2>2, UnlockedFields
  <2> HIDE DEF a
  <2> QED
    BY <1>1, <2>1, <2>2, <2>3, Zenon DEF Account
<1>4. confirmSetup(code) =>
        /\ account' \in Account /\ LockCleared
        /\ account'.totp = pendingOwner /\ account'.lastTotpStep = code
        /\ account'.pendingTotp = None
  <2>1. confirmSetup(code) =>
          account' = NewAccount(pendingOwner, code) /\ ForgetFailures
    BY Zenon DEF confirmSetup
  <2>2. NewAccount(pendingOwner, code) \in Account
    BY <1>1, RecordsTyped
  <2>3. LET a == NewAccount(pendingOwner, code) IN
        /\ a.totp = pendingOwner /\ a.lastTotpStep = code /\ a.pendingTotp = None
        /\ a.failed = 0 /\ a.locked = FALSE
    BY Zenon DEF NewAccount
  <2> QED
    BY <2>1, <2>2, <2>3, Zenon
<1> QED
  BY <1>2, <1>3, <1>4

\* The operations that may end the other sessions.
LEMMA ChangeEffects ==
    ASSUME Typed, NEW code \in Window, NEW s \in SessionIds, NEW revokeOthers \in BOOLEAN
    PROVE  /\ changePassword(s, code, revokeOthers) =>
                /\ LockCleared
                /\ \/ /\ assertPresence(code)
                      /\ Edited(account.totp, code, account.pendingTotp)
                   \/ passwordOnly /\ Edited(account.totp, 0, account.pendingTotp)
           /\ confirmMfaReplacement(s, code, revokeOthers) =>
                Edited(account.pendingTotp, code + 1, None) /\ LockKept
<1> USE DEF Edited, LockKept, LockCleared, Guarded
<1>1. code \in 0..(MaxStep + 1) /\ 0 \in 0..(MaxStep + 1) /\ None \in Secrets \cup {None}
  BY WindowTyped, IdentityConstants
<1>2. account # None => account \in Account /\ Unlocked(account) \in Account
  BY RecordsTyped
<1>3. changePassword(s, code, revokeOthers) =>
        /\ LockCleared
        /\ \/ assertPresence(code) /\ Edited(account.totp, code, account.pendingTotp)
           \/ passwordOnly /\ Edited(account.totp, 0, account.pendingTotp)
  <2>1. \A last \in 0..(MaxStep + 1) :
          account # None /\ account' = [Unlocked(account) EXCEPT !.lastTotpStep = last] =>
            Edited(account.totp, last, account.pendingTotp) /\ Guarded(0, FALSE)
    BY <1>2, UnlockedFields, Zenon DEF Account
  <2> QED
    BY <2>1, <1>1, Zenon DEF changePassword, assertPresence, passwordOnly
<1>4. confirmMfaReplacement(s, code, revokeOthers) =>
        Edited(account.pendingTotp, code + 1, None) /\ LockKept
  <2> SUFFICES ASSUME confirmMfaReplacement(s, code, revokeOthers)
               PROVE  Edited(account.pendingTotp, code + 1, None) /\ LockKept
    OBVIOUS
  <2>1. account \in Account
    BY DEF confirmMfaReplacement, Asked, Typed, TypeOK
  <2>2. {code, code + 1} \subseteq Window
    BY Zenon DEF confirmMfaReplacement
  <2>3. code + 1 \in 0..(MaxStep + 1)
    BY <2>2, WindowTyped
  <2> QED
    BY <1>1, <2>1, <2>3, Zenon DEF confirmMfaReplacement, Account
<1> QED
  BY <1>3, <1>4

\* A failed login counts up to the limit, and locks the account there.
LEMMA FailEffect ==
    ASSUME Typed, NEW wrong \in BOOLEAN, failLogin(wrong)
    PROVE  /\ Edited(account.totp, account.lastTotpStep, account.pendingTotp)
           /\ Guarded(IF account.failed < LockAfter THEN account.failed + 1 ELSE account.failed,
                      account.locked \/ account.failed + 1 >= LockAfter)
<1> USE DEF Edited, Guarded
<1>1. account \in Account
  BY Zenon DEF Typed, TypeOK, failLogin
<1>2. account.failed \in 0..LockAfter
  BY <1>1 DEF Account
<1>3. (IF account.failed < LockAfter THEN account.failed + 1 ELSE account.failed)
        \in 0..LockAfter
  BY <1>2, IdentityConstants
<1>4. (account.locked \/ account.failed + 1 >= LockAfter) \in BOOLEAN
  OBVIOUS
<1> QED
  BY <1>1, <1>3, <1>4, Zenon DEF failLogin, Account

----------------------------------------------------------------------------
(* Types                                                                   *)

\* What the account becomes when a session opens, the sessions kept being among the
\* ones there were.
LEMMA OpeningTyped ==
    ASSUME Typed, NEW record \in Session,
           NEW remaining \in [SessionIds -> Session \cup {None}],
           \A s \in SessionIds : remaining[s] # None => sessions[s] # None,
           createSession(remaining, record),
           account' \in Account,
           step' = step, attachCodes' \subseteq attachCodes, secrets' = secrets,
           loginChallenges' \in 0..MaxChallenges,
           terminals' \in [1..MaxTerminals -> Session \cup {None}],
           {pendingOwner', pendingRecovery'} \subseteq Secrets \cup {None},
           era' \in 0..MaxRecoveries, pendingRecovery' # None => era' < MaxRecoveries,
           top' \in [Secrets -> 0..(MaxStep + 1)], reused' \in BOOLEAN,
           compared' \in Nat, lapsed' \in BOOLEAN
    PROVE  Typed'
<1>1. /\ opened' \in 0..MaxSessions /\ opened' = opened + 1
      /\ sessions' \in [SessionIds -> Session \cup {None}]
      /\ \A s \in SessionIds : s > opened' => sessions'[s] = None
  BY SessionsTyped
<1>2. attachCodes' \subseteq 1..opened'
  BY <1>1 DEF Typed, TypeOK
<1>3. account' # None
  BY IdentityConstants
<1> QED
  BY <1>1, <1>2, <1>3 DEF Typed, TypeOK

\* A code accepted from an authenticator keeps the history typed.
LEMMA ConsumedTyped ==
    ASSUME Typed, NEW code \in Window, NEW secret, NEW last,
           secret \in Secrets \cup {None}, consumeTotp(secret, code, last)
    PROVE  /\ secret \in Secrets /\ code > last
           /\ top' \in [Secrets -> 0..(MaxStep + 1)] /\ reused' \in BOOLEAN
           /\ \A k \in Secrets : top'[k] = IF k = secret THEN code ELSE top[k]
           /\ reused' = (reused \/ code <= top[secret])
BY AcceptedTyped, WindowTyped DEF consumeTotp

\* assertPresence takes a code of the live authenticator, later than the last one.
LEMMA PresenceTyped ==
    ASSUME Typed, NEW code \in Window, assertPresence(code)
    PROVE  /\ account \in Account /\ account.totp \in Secrets /\ code > account.lastTotpStep
           /\ top' \in [Secrets -> 0..(MaxStep + 1)] /\ reused' \in BOOLEAN
           /\ \A k \in Secrets : top'[k] = IF k = account.totp THEN code ELSE top[k]
           /\ reused' = (reused \/ code <= top[account.totp])
<1>1. account \in Account
  BY DEF Typed, TypeOK, assertPresence
<1>2. account.totp \in Secrets \cup {None}
  BY <1>1 DEF Account
<1> QED
  BY <1>1, <1>2, ConsumedTyped DEF assertPresence

\* First run: an owner is seeded, or set up with the first code.
LEMMA FirstRunTyped ==
    ASSUME Typed, seedDefaultOwnerIfNeeded \/ beginSetup \/ \E code \in Window : confirmSetup(code)
    PROVE  Typed'
<1>1. CASE seedDefaultOwnerIfNeeded
  <2>0. 0 \in 0..(MaxStep + 1)
    BY IdentityConstants
  <2>1. NewAccount(None, 0) \in Account
    BY <2>0, RecordsTyped
  <2> QED
    BY <1>1, <2>1, IdentityConstants DEF seedDefaultOwnerIfNeeded, Typed, TypeOK
<1>2. CASE beginSetup
  BY <1>2, IdentityConstants DEF beginSetup, newSecret, Secrets, Typed, TypeOK
<1>3. ASSUME NEW code \in Window, confirmSetup(code)
      PROVE  Typed'
  <2>1. /\ consumeTotp(pendingOwner, code, 0) /\ createSession(Only(0), Rests(TRUE, "code"))
        /\ pendingOwner' = None /\ pendingRecovery' = None /\ ForgetFailures
        /\ loginChallenges' = 0 /\ attachCodes' = {}
        /\ terminals' = [t \in DOMAIN terminals |-> None] /\ UNCHANGED <<step, secrets, era>>
    BY <1>3, Zenon DEF confirmSetup
  <2>2. account' \in Account
    BY <1>3, CodeEffects
  <2>3. pendingOwner \in Secrets \cup {None}
    BY DEF Typed
  <2>4. top' \in [Secrets -> 0..(MaxStep + 1)] /\ reused' \in BOOLEAN
    BY <2>1, <2>3, ConsumedTyped
  <2>5. /\ Rests(TRUE, "code") \in Session
        /\ Only(0) \in [SessionIds -> Session \cup {None}]
        /\ \A s \in SessionIds : Only(0)[s] # None => sessions[s] # None
    BY RecordsTyped
  <2>6. /\ loginChallenges' \in 0..MaxChallenges
        /\ terminals' \in [1..MaxTerminals -> Session \cup {None}]
        /\ attachCodes' \subseteq attachCodes
    BY <2>1, IdentityConstants DEF Typed, TypeOK
  <2>8. compared' \in Nat /\ lapsed' \in BOOLEAN
    BY <2>1 DEF ForgetFailures
  <2>7. era' \in 0..MaxRecoveries /\ {pendingOwner', pendingRecovery'} \subseteq Secrets \cup {None}
    BY <2>1 DEF Typed
  <2> QED
    BY <2>1, <2>2, <2>4, <2>5, <2>6, <2>7, <2>8, OpeningTyped
<1> QED
  BY <1>1, <1>2, <1>3

\* Login: failures, the lock, and the session a password, a code or a passkey opens.
LEMMA LoginTyped ==
    ASSUME Typed,
           \/ \E wrong \in BOOLEAN : failLogin(wrong)
           \/ LockLapses \/ beginLogin \/ completeLoginWithPasskey
           \/ \E code \in Window : completeLogin(code)
    PROVE  Typed'
<1> USE DEF Edited
<1>1. ASSUME NEW wrong \in BOOLEAN, failLogin(wrong)
      PROVE  Typed'
  <2>1. /\ compared' = (IF account.locked THEN compared ELSE compared + 1)
        /\ UNCHANGED <<step, pendingOwner, loginChallenges, sessions, attachCodes, terminals,
                       pendingRecovery, secrets, opened, era, top, reused, lapsed>>
    BY <1>1, Zenon DEF failLogin
  <2>2. account' \in Account /\ account' # None
    BY <1>1, FailEffect, IdentityConstants
  <2> QED
    BY <2>1, <2>2 DEF Typed, TypeOK
<1>2. CASE LockLapses
  <2>1. account' \in Account /\ account' # None
    BY <1>2, PasswordEffects, IdentityConstants
  <2> QED
    BY <1>2, <2>1 DEF LockLapses, Typed, TypeOK
<1>3. CASE beginLogin
  <2>1. account' \in Account /\ account' # None
    BY <1>3, PasswordEffects, IdentityConstants
  <2>2. CASE account.totp = None
    <3>1. Rests(FALSE, "password") \in Session
      BY RecordsTyped
    <3>2. sessions \in [SessionIds -> Session \cup {None}]
      BY DEF Typed, TypeOK
    <3>3. /\ createSession(sessions, Rests(FALSE, "password"))
          /\ compared' \in Nat /\ lapsed' \in BOOLEAN
          /\ UNCHANGED <<step, loginChallenges, pendingOwner, attachCodes, terminals,
                         pendingRecovery, secrets, era, top, reused>>
      BY <1>3, <2>2 DEF beginLogin, ForgetFailures
    <3> QED
      BY <2>1, <3>1, <3>2, <3>3, OpeningTyped DEF Typed, TypeOK
  <2>3. CASE account.totp # None
    <3>1. /\ loginChallenges < MaxChallenges /\ loginChallenges' = loginChallenges + 1
          /\ ForgetFailures
          /\ UNCHANGED <<sessions, opened, step, pendingOwner, attachCodes, terminals,
                         pendingRecovery, secrets, era, top, reused>>
      BY <1>3, <2>3, Zenon DEF beginLogin
    <3>2. loginChallenges' \in 0..MaxChallenges
      BY <3>1, IdentityConstants DEF Typed, TypeOK
    <3>3. compared' \in Nat /\ lapsed' \in BOOLEAN
      BY <3>1 DEF ForgetFailures
    <3> QED
      BY <2>1, <3>1, <3>2, <3>3 DEF Typed, TypeOK
  <2> QED
    BY <2>2, <2>3
<1>4. CASE completeLoginWithPasskey
  <2>1. account \in Account /\ account' \in Account
    BY <1>4, PasswordEffects
  <2>2. PICK p \in account.passkeys :
          createSession(sessions, [Rests(TRUE, "passkey") EXCEPT !.era = p])
    BY <1>4, Zenon DEF completeLoginWithPasskey
  <2>3. [Rests(TRUE, "passkey") EXCEPT !.era = p] \in Session
    <3>1. p \in 0..MaxRecoveries
      BY <2>1 DEF Account
    <3> QED
      BY <3>1, RecordsTyped DEF Session
  <2>4. /\ loginChallenges > 0 /\ loginChallenges' = loginChallenges - 1
        /\ ForgetFailures
        /\ UNCHANGED <<step, pendingOwner, attachCodes, terminals,
                       pendingRecovery, secrets, era, top, reused>>
    BY <1>4, Zenon DEF completeLoginWithPasskey
  <2>5. loginChallenges' \in 0..MaxChallenges /\ sessions \in [SessionIds -> Session \cup {None}]
    BY <2>4, IdentityConstants DEF Typed, TypeOK
  <2> QED
    BY <2>1, <2>2, <2>3, <2>4, <2>5, OpeningTyped DEF Typed, TypeOK, ForgetFailures
<1>5. ASSUME NEW code \in Window, completeLogin(code)
      PROVE  Typed'
  <2>1. account' \in Account
    BY <1>5, CodeEffects
  <2>2. /\ createSession(sessions, Rests(TRUE, "code")) /\ assertPresence(code)
        /\ loginChallenges > 0 /\ loginChallenges' = loginChallenges - 1
        /\ UNCHANGED <<step, pendingOwner, attachCodes, terminals, pendingRecovery, secrets,
                       era, compared, lapsed>>
    BY <1>5, Zenon DEF completeLogin
  <2>3. loginChallenges' \in 0..MaxChallenges /\ sessions \in [SessionIds -> Session \cup {None}]
    BY <2>2, IdentityConstants DEF Typed, TypeOK
  <2>4. top' \in [Secrets -> 0..(MaxStep + 1)] /\ reused' \in BOOLEAN
    BY <2>2, PresenceTyped
  <2>5. Rests(TRUE, "code") \in Session
    BY RecordsTyped
  <2> QED
    BY <2>1, <2>2, <2>3, <2>4, <2>5, OpeningTyped DEF Typed, TypeOK
<1> QED
  BY <1>1, <1>2, <1>3, <1>4, <1>5

\* Attach codes and remembered terminals.
LEMMA AttachTyped ==
    ASSUME Typed,
           \/ \E s \in SessionIds : mintAttachCode(s) \/ redeemAttachCode(s)
           \/ \E s \in SessionIds, t \in 1..MaxTerminals : rememberTerminal(t, s)
           \/ \E t \in 1..MaxTerminals : resumeTerminal(t) \/ revokeRememberedTerminal(t)
    PROVE  Typed'
<1>0. sessions \in [SessionIds -> Session \cup {None}]
  BY DEF Typed, TypeOK
<1>1. ASSUME NEW s \in SessionIds, mintAttachCode(s)
      PROVE  Typed'
  <2>1. s \in 1..opened
    BY <1>1 DEF mintAttachCode, Live, Typed, TypeOK, SessionIds
  <2> QED
    BY <1>1, <2>1 DEF mintAttachCode, Typed, TypeOK
<1>2. ASSUME NEW s \in SessionIds, redeemAttachCode(s)
      PROVE  Typed'
  <2>1. CASE s \in Live
    <3>1. sessions[s] \in Session
      BY <1>0, <2>1 DEF Live
    <3>2. [sessions[s] EXCEPT !.mfa = TRUE] \in Session
      BY <3>1 DEF Session
    <3>3. account \in Account
      BY <2>1, LiveOwner
    <3>4. /\ createSession(sessions, [sessions[s] EXCEPT !.mfa = TRUE])
          /\ attachCodes' \subseteq attachCodes
          /\ UNCHANGED <<step, account, pendingOwner, loginChallenges, terminals,
                         pendingRecovery, secrets, era, top, reused, compared, lapsed>>
      BY <1>2, <2>1 DEF redeemAttachCode
    <3> QED
      BY <1>0, <3>2, <3>3, <3>4, OpeningTyped DEF Typed, TypeOK
  <2>2. CASE s \notin Live
    BY <1>2, <2>2 DEF redeemAttachCode, Typed, TypeOK
  <2> QED
    BY <2>1, <2>2
<1>3. ASSUME NEW s \in SessionIds, NEW t \in 1..MaxTerminals, rememberTerminal(t, s)
      PROVE  Typed'
  <2>1. sessions[s] \in Session
    BY <1>0, <1>3 DEF rememberTerminal, Live
  <2>2. [sessions[s] EXCEPT !.terminal = TRUE] \in Session
    BY <2>1 DEF Session
  <2>3. terminals' \in [1..MaxTerminals -> Session \cup {None}]
    BY <1>3, <2>2 DEF rememberTerminal, Typed, TypeOK
  <2>4. account # None
    BY <1>3, LiveOwner DEF rememberTerminal
  <2> QED
    BY <1>3, <2>3, <2>4 DEF rememberTerminal, Typed, TypeOK
<1>4. ASSUME NEW t \in 1..MaxTerminals, resumeTerminal(t)
      PROVE  Typed'
  <2>1. terminals[t] \in Session
    BY <1>4 DEF resumeTerminal, Typed, TypeOK
  <2>2. [terminals[t] EXCEPT !.mfa = TRUE] \in Session
    BY <2>1 DEF Session
  <2>3. account \in Account
    BY <1>4 DEF resumeTerminal, Typed, TypeOK
  <2> QED
    BY <1>0, <1>4, <2>2, <2>3, OpeningTyped DEF resumeTerminal, Typed, TypeOK
<1>5. ASSUME NEW t \in 1..MaxTerminals, revokeRememberedTerminal(t)
      PROVE  Typed'
  BY <1>5 DEF revokeRememberedTerminal, Typed, TypeOK
<1> QED
  BY <1>1, <1>2, <1>3, <1>4, <1>5

\* What a signed-in person does with the account.
LEMMA SignedInTyped ==
    ASSUME Typed, NEW code \in Window, SignedIn(code)
    PROVE  Typed'
<1> USE DEF Edited
<1>1. /\ KeepSessions /\ account' \in Account /\ account' # None
      /\ UNCHANGED <<compared, lapsed>>
  BY SignedInEffect, IdentityConstants DEF LockKept
<1>2. secrets' \in 0..MaxSecrets
  BY SignedInEffect, IdentityConstants DEF newSecret, Typed
<1>3. top' \in [Secrets -> 0..(MaxStep + 1)] /\ reused' \in BOOLEAN
  BY SignedInEffect, PresenceTyped DEF passwordOnly, Typed
<1> QED
  BY <1>1, <1>2, <1>3 DEF KeepSessions, Typed, TypeOK

\* A change of password or of authenticator, which may end the other sessions.
LEMMA ChangeTyped ==
    ASSUME Typed, NEW code \in Window, NEW s \in SessionIds, NEW revokeOthers \in BOOLEAN,
           \/ changePassword(s, code, revokeOthers)
           \/ confirmMfaReplacement(s, code, revokeOthers)
    PROVE  Typed'
<1> USE DEF Edited
<1>1. /\ sessions' = IF revokeOthers THEN Only(s) ELSE sessions
      /\ UNCHANGED <<step, pendingOwner, loginChallenges, attachCodes, terminals,
                     pendingRecovery, secrets, opened, era>>
  BY Zenon DEF changePassword, confirmMfaReplacement
<1>2. account' \in Account /\ account' # None
  BY ChangeEffects, IdentityConstants
<1>3. compared' \in Nat /\ lapsed' \in BOOLEAN
  <2>1. ForgetFailures \/ UNCHANGED <<compared, lapsed>>
    BY ChangeEffects, Zenon DEF LockCleared, LockKept
  <2>2. CASE ForgetFailures
    BY <2>2 DEF ForgetFailures
  <2>3. CASE UNCHANGED <<compared, lapsed>>
    BY <2>3, Zenon DEF Typed
  <2> QED
    BY <2>1, <2>2, <2>3
<1>4. top' \in [Secrets -> 0..(MaxStep + 1)] /\ reused' \in BOOLEAN
  <2>1. CASE changePassword(s, code, revokeOthers)
    BY <2>1, ChangeEffects, PresenceTyped DEF passwordOnly, Typed
  <2>2. CASE confirmMfaReplacement(s, code, revokeOthers)
    <3>1. /\ account.pendingTotp # None /\ code + 1 \in Window
          /\ Accepted(account.pendingTotp, code + 1) /\ account # None
      BY <2>2, Zenon DEF confirmMfaReplacement, Asked
    <3>2. account.pendingTotp \in Secrets
      BY <3>1 DEF Typed, TypeOK, Account
    <3> QED
      BY <3>1, <3>2, AcceptedTyped, WindowTyped
  <2> QED
    BY <2>1, <2>2
<1>5. /\ sessions' \in [SessionIds -> Session \cup {None}]
      /\ \A x \in SessionIds : x > opened => sessions'[x] = None
  BY <1>1, RecordsTyped DEF Only, Typed, TypeOK
<1> QED
  BY <1>1, <1>2, <1>3, <1>4, <1>5 DEF Typed, TypeOK

\* A recovery begins, and ends with the first code of its authenticator.
LEMMA RecoveryTyped ==
    ASSUME Typed, beginRecovery \/ \E code \in Window : completeRecovery(code)
    PROVE  Typed'
<1>1. CASE beginRecovery
  BY <1>1, IdentityConstants DEF beginRecovery, newSecret, Secrets, Typed, TypeOK
<1>2. ASSUME NEW code \in Window, completeRecovery(code)
      PROVE  Typed'
  <2> DEFINE record == [Rests(TRUE, "code") EXCEPT !.era = era + 1]
  <2>1. /\ consumeTotp(pendingRecovery, code, 0) /\ createSession(Only(0), record)
        /\ pendingRecovery # None /\ pendingRecovery' = None /\ era' = era + 1
        /\ UNCHANGED <<step, pendingOwner, loginChallenges, attachCodes, terminals, secrets>>
    BY <1>2, Zenon DEF completeRecovery
  <2>2. account' \in Account /\ compared' \in Nat /\ lapsed' \in BOOLEAN
    <3>1. account' \in Account /\ ForgetFailures
      BY <1>2, CodeEffects, Zenon DEF Edited, LockCleared
    <3> QED
      BY <3>1 DEF ForgetFailures
  <2>3. era' \in 0..MaxRecoveries
    BY <2>1, IdentityConstants DEF Typed
  <2>4. record \in Session
    BY <2>1, <2>3, RecordsTyped DEF Session
  <2>5. /\ Only(0) \in [SessionIds -> Session \cup {None}]
        /\ \A s \in SessionIds : Only(0)[s] # None => sessions[s] # None
    BY RecordsTyped
  <2>6. pendingRecovery \in Secrets \cup {None}
    BY DEF Typed
  <2>7. top' \in [Secrets -> 0..(MaxStep + 1)] /\ reused' \in BOOLEAN
    BY <2>1, <2>6, ConsumedTyped
  <2> HIDE DEF record
  <2> QED
    BY <2>1, <2>2, <2>3, <2>4, <2>5, <2>7, OpeningTyped DEF Typed, TypeOK
<1> QED
  BY <1>1, <1>2

\* Sessions, codes and challenges end; time passes.
LEMMA EndingsTyped ==
    ASSUME Typed,
           \/ \E s \in SessionIds : sessionEnds(s) \/ revokeOtherSessions(s) \/ AttachCodeExpires(s)
           \/ ChallengeExpires \/ TimePasses
    PROVE  Typed'
<1> USE DEF KeepAccount
<1>1. ASSUME NEW s \in SessionIds, sessionEnds(s)
      PROVE  Typed'
  BY <1>1 DEF sessionEnds, Typed, TypeOK
<1>2. ASSUME NEW s \in SessionIds, revokeOtherSessions(s)
      PROVE  Typed'
  BY <1>2, RecordsTyped DEF revokeOtherSessions, Only, Typed, TypeOK
<1>3. ASSUME NEW s \in SessionIds, AttachCodeExpires(s)
      PROVE  Typed'
  BY <1>3 DEF AttachCodeExpires, Typed, TypeOK
<1>4. CASE ChallengeExpires
  BY <1>4, IdentityConstants DEF ChallengeExpires, Typed, TypeOK
<1>5. CASE TimePasses
  <2>1. step' \in 1..MaxStep
    BY <1>5, IdentityConstants DEF TimePasses, Typed, TypeOK
  <2> QED
    BY <1>5, <2>1, Zenon DEF TimePasses, Typed, TypeOK
<1> QED
  BY <1>1, <1>2, <1>3, <1>4, <1>5

\* Every operation keeps the types.
LEMMA TypedStep ==
    ASSUME Typed, Next
    PROVE  Typed'
<1>1. CASE seedDefaultOwnerIfNeeded \/ beginSetup \/ \E code \in Window : confirmSetup(code)
  BY <1>1, FirstRunTyped
<1>2. CASE \/ \E wrong \in BOOLEAN : failLogin(wrong)
           \/ LockLapses \/ beginLogin \/ completeLoginWithPasskey
           \/ \E code \in Window : completeLogin(code)
  BY <1>2, LoginTyped
<1>3. CASE \/ \E s \in SessionIds : mintAttachCode(s) \/ redeemAttachCode(s)
           \/ \E s \in SessionIds, t \in 1..MaxTerminals : rememberTerminal(t, s)
           \/ \E t \in 1..MaxTerminals : resumeTerminal(t) \/ revokeRememberedTerminal(t)
  BY <1>3, AttachTyped
<1>4. CASE \E code \in Window : SignedIn(code)
  BY <1>4, SignedInTyped
<1>5. CASE \E code \in Window, s \in SessionIds, revokeOthers \in BOOLEAN :
             \/ changePassword(s, code, revokeOthers)
             \/ confirmMfaReplacement(s, code, revokeOthers)
  BY <1>5, ChangeTyped
<1>6. CASE beginRecovery \/ \E code \in Window : completeRecovery(code)
  BY <1>6, RecoveryTyped
<1>7. CASE \/ \E s \in SessionIds :
                sessionEnds(s) \/ revokeOtherSessions(s) \/ AttachCodeExpires(s)
           \/ ChallengeExpires \/ TimePasses
  BY <1>7, EndingsTyped
<1>8. confirmPasskeyRegistration \/ cancelMfaReplacement => \E code \in Window : SignedIn(code)
  <2>1. step \in Window
    BY IdentityConstants DEF Window, Typed, TypeOK
  <2> QED
    BY <2>1, Zenon DEF SignedIn
<1> QED
  BY <1>1, <1>2, <1>3, <1>4, <1>5, <1>6, <1>7, <1>8, Zenon DEF Next, SignedIn

----------------------------------------------------------------------------
(* The second factor and the recovery                                      *)

\* A session that opens is as strong as what it rests on, and of this era unless a
\* terminal or a passkey opened it.
LEMMA OpeningCarried ==
    ASSUME Typed, Carried, Recovered, NEW record \in Session,
           NEW remaining \in [SessionIds -> Session \cup {None}],
           \A s \in SessionIds : remaining[s] # None => remaining[s] = sessions[s],
           createSession(remaining, record),
           record.mfa => record.basis # "password",
           record.era = era' \/ record.terminal \/ record.basis = "passkey",
           attachCodes' \subseteq attachCodes,
           \A t \in 1..MaxTerminals : terminals'[t] # None => terminals'[t] = terminals[t],
           era' = era \/ \A s \in SessionIds : remaining[s] = None
    PROVE  Carried' /\ Recovered'
<1>1. /\ opened + 1 \in SessionIds
      /\ \A s \in SessionIds : sessions'[s] = IF s = opened + 1 THEN record ELSE remaining[s]
  BY SessionsTyped
<1>2. SecondFactorIsCarried'
  BY <1>1 DEF Carried, SecondFactorIsCarried, Live
<1>3. \A s \in attachCodes' : s # opened + 1
  BY DEF Typed, TypeOK
<1>4. \A s \in attachCodes' \cap Live' : sessions'[s].mfa
  BY <1>1, <1>3 DEF Carried, Live
<1>5. \A t \in 1..MaxTerminals : terminals'[t] # None =>
        terminals'[t].basis # "password" /\ terminals'[t].terminal
  BY DEF Carried, Recovered
<1>6. RecoveryCutsOldSessions'
  BY <1>1 DEF Recovered, RecoveryCutsOldSessions, Live
<1> QED
  BY <1>2, <1>4, <1>5, <1>6 DEF Carried, Recovered

\* Where no session opens, no terminal is remembered and no code minted, nothing gets
\* stronger or older.
LEMMA ClosingCarried ==
    ASSUME Typed, Carried, Recovered,
           \A s \in SessionIds : sessions'[s] # None => sessions'[s] = sessions[s],
           attachCodes' \subseteq attachCodes,
           \A t \in 1..MaxTerminals : terminals'[t] # None => terminals'[t] = terminals[t],
           era' = era
    PROVE  Carried' /\ Recovered'
<1>1. SecondFactorIsCarried' /\ RecoveryCutsOldSessions'
  BY DEF Carried, Recovered, SecondFactorIsCarried, RecoveryCutsOldSessions, Live
<1>2. \A s \in attachCodes' \cap Live' : sessions'[s].mfa
  BY DEF Carried, Live
<1> QED
  BY <1>1, <1>2 DEF Carried, Recovered

\* Every operation keeps what sessions rest on in order: SecondFactorIsCarried and
\* RecoveryCutsOldSessions with what they need.
LEMMA CarriedStep ==
    ASSUME Typed, Carried, Recovered, Next
    PROVE  Carried' /\ Recovered'
<1> USE DEF Edited
<1>0. sessions \in [SessionIds -> Session \cup {None}]
  BY DEF Typed, TypeOK
<1>1. ASSUME NEW code \in Window, confirmSetup(code)
      PROVE  Carried' /\ Recovered'
  <2>1. /\ createSession(Only(0), Rests(TRUE, "code")) /\ attachCodes' = {} /\ era' = era
        /\ terminals' = [t \in DOMAIN terminals |-> None]
    BY <1>1, Zenon DEF confirmSetup
  <2>2. Rests(TRUE, "code").basis = "code" /\ Rests(TRUE, "code").era = era
    BY DEF Rests
  <2>3. \A t \in 1..MaxTerminals : terminals'[t] = None
    BY <2>1 DEF Typed, TypeOK
  <2> QED
    BY <2>1, <2>2, <2>3, RecordsTyped, OpeningCarried
<1>2. CASE beginLogin
  <2>1. CASE account.totp = None
    <3>1. /\ createSession(sessions, Rests(FALSE, "password"))
          /\ UNCHANGED <<attachCodes, terminals, era>>
      BY <1>2, <2>1, Zenon DEF beginLogin
    <3>2. ~Rests(FALSE, "password").mfa /\ Rests(FALSE, "password").era = era
      BY Zenon DEF Rests
    <3> QED
      BY <1>0, <3>1, <3>2, RecordsTyped, OpeningCarried
  <2>2. CASE account.totp # None
    <3>1. UNCHANGED <<sessions, attachCodes, terminals, era>>
      BY <1>2, <2>2, Zenon DEF beginLogin
    <3> QED
      BY <3>1, ClosingCarried
  <2> QED
    BY <2>1, <2>2
<1>3. ASSUME NEW code \in Window, completeLogin(code)
      PROVE  Carried' /\ Recovered'
  <2>1. /\ createSession(sessions, Rests(TRUE, "code"))
        /\ UNCHANGED <<attachCodes, terminals, era>>
    BY <1>3, Zenon DEF completeLogin
  <2>2. Rests(TRUE, "code").basis = "code" /\ Rests(TRUE, "code").era = era
    BY DEF Rests
  <2> QED
    BY <1>0, <2>1, <2>2, RecordsTyped, OpeningCarried
<1>4. CASE completeLoginWithPasskey
  <2>2. PICK p \in account.passkeys :
          createSession(sessions, [Rests(TRUE, "passkey") EXCEPT !.era = p])
    BY <1>4, Zenon DEF completeLoginWithPasskey
  <2>3. p \in 0..MaxRecoveries
    BY <1>4, <2>2, PasswordEffects DEF Account
  <2> DEFINE record == [Rests(TRUE, "passkey") EXCEPT !.era = p]
  <2>1. createSession(sessions, record) /\ UNCHANGED <<attachCodes, terminals, era>>
    BY <1>4, <2>2, Zenon DEF completeLoginWithPasskey
  <2>4. record \in Session
    BY <2>3, RecordsTyped DEF Session
  <2>5. record.basis = "passkey"
    BY DEF Rests
  <2> HIDE DEF record
  <2> QED
    BY <1>0, <2>1, <2>4, <2>5, OpeningCarried
<1>5. ASSUME NEW s \in SessionIds, mintAttachCode(s)
      PROVE  Carried' /\ Recovered'
  BY <1>5 DEF mintAttachCode, Carried, Recovered, SecondFactorIsCarried,
     RecoveryCutsOldSessions, Live
<1>6. ASSUME NEW s \in SessionIds, redeemAttachCode(s)
      PROVE  Carried' /\ Recovered'
  <2>1. CASE s \in Live
    <3> DEFINE record == [sessions[s] EXCEPT !.mfa = TRUE]
    <3>1. /\ createSession(sessions, record)
          /\ attachCodes' \subseteq attachCodes /\ UNCHANGED <<terminals, era>>
      BY <1>6, <2>1 DEF redeemAttachCode
    <3>2. sessions[s] \in Session
      BY <1>0, <2>1 DEF Live
    <3>3. /\ record \in Session /\ record.basis = sessions[s].basis
          /\ record.era = sessions[s].era /\ record.terminal = sessions[s].terminal
      BY <3>2 DEF Session
    <3>4. sessions[s].mfa
      BY <1>6, <2>1 DEF redeemAttachCode, Carried
    <3>5. record.basis # "password"
      BY <2>1, <3>3, <3>4 DEF Carried, SecondFactorIsCarried
    <3>6. record.era = era \/ record.terminal \/ record.basis = "passkey"
      BY <2>1, <3>3 DEF Recovered, RecoveryCutsOldSessions
    <3> HIDE DEF record
    <3> QED
      BY <1>0, <3>1, <3>3, <3>5, <3>6, OpeningCarried
  <2>2. CASE s \notin Live
    BY <1>6, <2>2, ClosingCarried DEF redeemAttachCode
  <2> QED
    BY <2>1, <2>2
<1>7. ASSUME NEW s \in SessionIds, NEW t \in 1..MaxTerminals, rememberTerminal(t, s)
      PROVE  Carried' /\ Recovered'
  <2> DEFINE record == [sessions[s] EXCEPT !.terminal = TRUE]
  <2>1. /\ s \in Live /\ sessions[s].mfa
        /\ terminals' = [terminals EXCEPT ![t] = record]
        /\ UNCHANGED <<sessions, attachCodes, era>>
    BY <1>7, Zenon DEF rememberTerminal
  <2>2. sessions[s] \in Session
    BY <1>0, <2>1 DEF Live
  <2>3. record.basis = sessions[s].basis /\ record.terminal
    BY <2>2, Zenon DEF Session
  <2>4. record.basis # "password"
    BY <2>1, <2>3 DEF Carried, SecondFactorIsCarried
  <2> HIDE DEF record
  <2>5. \A u \in 1..MaxTerminals : terminals'[u] = IF u = t THEN record ELSE terminals[u]
    BY <2>1 DEF Typed, TypeOK
  <2> QED
    BY <2>1, <2>3, <2>4, <2>5 DEF Carried, Recovered, SecondFactorIsCarried,
       RecoveryCutsOldSessions, Live
<1>8. ASSUME NEW t \in 1..MaxTerminals, resumeTerminal(t)
      PROVE  Carried' /\ Recovered'
  <2> DEFINE record == [terminals[t] EXCEPT !.mfa = TRUE]
  <2>1. /\ createSession(sessions, record) /\ terminals[t] # None
        /\ UNCHANGED <<attachCodes, terminals, era>>
    BY <1>8, Zenon DEF resumeTerminal
  <2>2. terminals[t] \in Session
    BY <2>1 DEF Typed, TypeOK
  <2>3. /\ record \in Session /\ record.basis = terminals[t].basis
        /\ record.terminal = terminals[t].terminal
    BY <2>2 DEF Session
  <2>4. record.basis # "password" /\ record.terminal
    BY <2>1, <2>3 DEF Carried, Recovered
  <2> HIDE DEF record
  <2> QED
    BY <1>0, <2>1, <2>3, <2>4, OpeningCarried
<1>9. ASSUME NEW code \in Window, completeRecovery(code)
      PROVE  Carried' /\ Recovered'
  <2> DEFINE record == [Rests(TRUE, "code") EXCEPT !.era = era + 1]
  <2>1. /\ createSession(Only(0), record) /\ era' = era + 1 /\ pendingRecovery # None
        /\ UNCHANGED <<attachCodes, terminals>>
    BY <1>9, Zenon DEF completeRecovery
  <2>2. era + 1 \in 0..MaxRecoveries
    BY <2>1, IdentityConstants DEF Typed
  <2>3. record \in Session
    BY <2>2, RecordsTyped DEF Session
  <2>4. record.basis = "code" /\ record.era = era + 1
    BY DEF Rests
  <2> HIDE DEF record
  <2> QED
    BY <2>1, <2>3, <2>4, RecordsTyped, OpeningCarried
<1>10. ASSUME NEW code \in Window, NEW s \in SessionIds, NEW revokeOthers \in BOOLEAN,
              changePassword(s, code, revokeOthers) \/ confirmMfaReplacement(s, code, revokeOthers)
       PROVE  Carried' /\ Recovered'
  <2>1. /\ sessions' = IF revokeOthers THEN Only(s) ELSE sessions
        /\ UNCHANGED <<attachCodes, terminals, era>>
    BY <1>10, Zenon DEF changePassword, confirmMfaReplacement
  <2> QED
    BY <2>1, ClosingCarried DEF Only
<1>11. CASE \E code \in Window : SignedIn(code)
  BY <1>11, SignedInEffect, ClosingCarried DEF KeepSessions
<1>12. CASE \E s \in SessionIds :
              sessionEnds(s) \/ revokeOtherSessions(s) \/ AttachCodeExpires(s)
  BY <1>12, ClosingCarried DEF sessionEnds, revokeOtherSessions, AttachCodeExpires, KeepAccount,
     Only, Typed, TypeOK
<1>13. CASE \E t \in 1..MaxTerminals : revokeRememberedTerminal(t)
  BY <1>13, ClosingCarried DEF revokeRememberedTerminal, Typed, TypeOK
<1>14. CASE \/ seedDefaultOwnerIfNeeded \/ beginSetup \/ LockLapses \/ beginRecovery
            \/ ChallengeExpires \/ TimePasses \/ \E wrong \in BOOLEAN : failLogin(wrong)
            \/ confirmPasskeyRegistration \/ cancelMfaReplacement
  <2>1. UNCHANGED <<sessions, attachCodes, terminals, era>>
    BY <1>14, Zenon DEF seedDefaultOwnerIfNeeded, beginSetup, LockLapses, beginRecovery,
       ChallengeExpires, TimePasses, failLogin, KeepAccount, KeepSessions,
       confirmPasskeyRegistration, cancelMfaReplacement
  <2> QED
    BY <2>1, ClosingCarried
<1> QED
  BY <1>1, <1>2, <1>3, <1>4, <1>5, <1>6, <1>7, <1>8, <1>9, <1>10, <1>11, <1>12, <1>13, <1>14,
     Zenon DEF Next, SignedIn

----------------------------------------------------------------------------
(* Guesses                                                                 *)

\* The limit of failed logins is a positive number.
LEMMA LimitPositive == LockAfter \in Nat /\ LockAfter > 0
BY IdentityConstants

\* Operations that leave the lock alone, or clear it with the right password.
LEMMA LockEdits ==
    ASSUME Typed, Lock, account' \in Account
    PROVE  /\ account \in Account /\ LockKept => Lock'
           /\ LockCleared => Lock'
<1>1. account' # None
  BY IdentityConstants
<1>2. ASSUME account \in Account, LockKept
      PROVE  Lock'
  <2>1. account # None
    BY <1>2, IdentityConstants
  <2> QED
    BY <1>1, <1>2, <2>1, Zenon DEF Lock, LockKept, Guarded
<1>3. ASSUME LockCleared
      PROVE  Lock'
  <2>1. account'.failed = 0 /\ ~account'.locked /\ compared' = 0 /\ ~lapsed'
    BY <1>3, Zenon DEF LockCleared, Guarded, ForgetFailures
  <2> QED
    BY <1>1, <2>1, IdentityConstants DEF Lock
<1> QED
  BY <1>2, <1>3

\* Every operation keeps the count of failures, the lock and its lapse in step.
LEMMA LockStep ==
    ASSUME Typed, Lock, Next
    PROVE  Lock'
<1> USE DEF Edited
<1>1. CASE seedDefaultOwnerIfNeeded
  <2>1. /\ account' = NewAccount(None, 0) /\ account = None /\ UNCHANGED <<compared, lapsed>>
    BY <1>1, Zenon DEF seedDefaultOwnerIfNeeded
  <2>2. account'.failed = 0 /\ ~account'.locked
    BY <2>1, Zenon DEF NewAccount
  <2> QED
    BY <2>1, <2>2, IdentityConstants DEF Lock
<1>2. ASSUME NEW wrong \in BOOLEAN, failLogin(wrong)
      PROVE  Lock'
  <2>1. /\ compared' = (IF account.locked THEN compared ELSE compared + 1)
        /\ lapsed' = lapsed
    BY <1>2, Zenon DEF failLogin
  <2>2. /\ account \in Account /\ account' # None /\ account # None
        /\ account'.failed = (IF account.failed < LockAfter THEN account.failed + 1
                                                           ELSE account.failed)
        /\ account'.locked = (account.locked \/ account.failed + 1 >= LockAfter)
    BY <1>2, FailEffect, IdentityConstants DEF Guarded
  <2>3. account.failed \in 0..LockAfter
    BY <2>2 DEF Account
  <2>4. CASE account.locked
    <3>1. account.failed = LockAfter
      BY <2>2, <2>4, Zenon DEF Lock
    <3>2. account'.failed = account.failed /\ compared' = compared
      BY <2>1, <2>2, <2>4, <3>1, LimitPositive
    <3>3. account'.locked
      BY <2>2, <2>4, Zenon
    <3> QED
      BY <2>1, <2>2, <2>4, <3>2, <3>3, Zenon DEF Lock
  <2>5. CASE ~account.locked /\ lapsed
    <3>1. account.failed = LockAfter /\ compared <= 0
      BY <2>2, <2>5 DEF Lock
    <3>2. account'.failed = LockAfter /\ compared' = compared + 1
      BY <2>1, <2>2, <2>5, <3>1, LimitPositive
    <3>4. account.failed + 1 >= LockAfter
      BY <3>1, LimitPositive
    <3>5. account'.locked
      BY <2>2, <3>4, Zenon
    <3>3. lapsed' /\ compared' <= 1
      BY <2>1, <2>5, <3>1, <3>2 DEF Typed
    <3> QED
      BY <2>2, <3>2, <3>3, <3>5 DEF Lock
  <2>6. CASE ~account.locked /\ ~lapsed
    <3>1. account.failed < LockAfter /\ compared <= account.failed
      BY <2>2, <2>6 DEF Lock
    <3>2. account'.failed = account.failed + 1 /\ compared' = compared + 1 /\ ~lapsed'
      BY <2>1, <2>2, <2>6, <3>1
    <3>3. compared' <= account'.failed /\ account'.failed <= LockAfter
      BY <2>3, <3>1, <3>2, IdentityConstants DEF Typed
    <3>4. account'.locked <=> account'.failed >= LockAfter
      BY <2>2, <2>6, <3>2
    <3> QED
      BY <2>2, <2>3, <3>2, <3>3, <3>4, IdentityConstants DEF Lock
  <2> QED
    BY <2>4, <2>5, <2>6
<1>3. CASE LockLapses
  <2>1. account.locked /\ compared' = 0 /\ lapsed' = TRUE
    BY <1>3, Zenon DEF LockLapses
  <2>2. account \in Account /\ account' \in Account
    BY <1>3, PasswordEffects
  <2>3. account'.failed = account.failed /\ ~account'.locked
    BY <1>3, PasswordEffects, Zenon DEF Guarded
  <2> QED
    BY <2>1, <2>2, <2>3, IdentityConstants DEF Lock
<1>4. CASE beginLogin \/ completeLoginWithPasskey
  BY <1>4, PasswordEffects, LockEdits
<1>5. ASSUME NEW code \in Window, completeLogin(code) \/ completeRecovery(code) \/ confirmSetup(code)
      PROVE  Lock'
  BY <1>5, CodeEffects, LockEdits, Zenon
<1>6. ASSUME NEW code \in Window, NEW s \in SessionIds, NEW revokeOthers \in BOOLEAN,
             changePassword(s, code, revokeOthers) \/ confirmMfaReplacement(s, code, revokeOthers)
      PROVE  Lock'
  BY <1>6, ChangeEffects, LockEdits, Zenon
<1>7. ASSUME NEW code \in Window, SignedIn(code)
      PROVE  Lock'
  BY <1>7, SignedInEffect, LockEdits, Zenon
<1>8. CASE UNCHANGED <<account, compared, lapsed>>
  BY <1>8 DEF Lock
<1>9. CASE confirmPasskeyRegistration \/ cancelMfaReplacement
  <2>1. step \in Window
    BY IdentityConstants DEF Window, Typed, TypeOK
  <2> QED
    BY <1>7, <1>9, <2>1, Zenon DEF SignedIn
<1>10. CASE \/ \E s \in SessionIds : \/ mintAttachCode(s) \/ redeemAttachCode(s)
                                     \/ AttachCodeExpires(s) \/ sessionEnds(s)
                                     \/ revokeOtherSessions(s)
                                     \/ \E t \in 1..MaxTerminals : rememberTerminal(t, s)
            \/ \E t \in 1..MaxTerminals : resumeTerminal(t) \/ revokeRememberedTerminal(t)
            \/ beginSetup \/ beginRecovery \/ ChallengeExpires \/ TimePasses
  <2>1. UNCHANGED <<account, compared, lapsed>>
    BY <1>10, Zenon DEF mintAttachCode, redeemAttachCode, AttachCodeExpires, sessionEnds,
       revokeOtherSessions, rememberTerminal, resumeTerminal, revokeRememberedTerminal,
       beginSetup, beginRecovery, ChallengeExpires, TimePasses, KeepAccount
  <2> QED
    BY <2>1, <1>8
<1> QED
  BY <1>1, <1>2, <1>3, <1>4, <1>5, <1>6, <1>7, <1>9, <1>10, Zenon DEF Next, SignedIn

----------------------------------------------------------------------------
(* Codes                                                                   *)

\* The authenticators in use, as the invariant has them before a step.
LEMMA Authenticators ==
    ASSUME Typed
    PROVE  /\ secrets \in Nat /\ pendingOwner \in Secrets \cup {None}
           /\ pendingRecovery \in Secrets \cup {None}
           /\ account \in Account =>
                /\ account # None
                /\ account.totp \in Secrets \cup {None}
                /\ account.pendingTotp \in Secrets \cup {None}
                /\ account.lastTotpStep \in Nat
           /\ \A k \in Secrets : k \in Nat /\ k # None /\ top[k] \in Nat
<1>1. \A k \in Secrets : k \in Nat /\ k # None /\ top[k] \in Nat
  BY IdentityConstants DEF Typed, Secrets
<1>2. account \in Account =>
        /\ account # None /\ account.totp \in Secrets \cup {None}
        /\ account.pendingTotp \in Secrets \cup {None} /\ account.lastTotpStep \in Nat
  BY IdentityConstants DEF Account
<1> QED
  BY <1>1, <1>2, IdentityConstants DEF Typed

\* A secret just given out is one no one holds, and no code was taken from it.
LEMMA NewSecretUnused ==
    ASSUME Typed, Codes, newSecret
    PROVE  /\ secrets' \in Secrets /\ secrets' = secrets + 1 /\ top[secrets'] = 0
           /\ secrets' # pendingOwner /\ secrets' # pendingRecovery
           /\ account \in Account => secrets' # account.totp /\ secrets' # account.pendingTotp
<1>1. secrets' \in Secrets /\ secrets' = secrets + 1 /\ secrets' > secrets
  BY IdentityConstants DEF newSecret, Secrets, Typed
<1>2. top[secrets'] = 0
  BY <1>1 DEF Codes
<1> QED
  BY <1>1, <1>2, Authenticators DEF Codes, Unused

\* An accepted code of the live authenticator, recorded as the last one used.
LEMMA PresenceCodes ==
    ASSUME Typed, Codes, NEW code \in Window, assertPresence(code)
    PROVE  /\ ~reused' /\ account \in Account /\ account.totp \in Secrets
           /\ account.totp <= secrets /\ code \in Nat
           /\ \A k \in Secrets : top'[k] = IF k = account.totp THEN code ELSE top[k]
           /\ account.totp # pendingOwner /\ account.totp # pendingRecovery
           /\ account.totp # account.pendingTotp
<1>1. /\ account \in Account /\ account.totp \in Secrets /\ code > account.lastTotpStep
      /\ \A k \in Secrets : top'[k] = IF k = account.totp THEN code ELSE top[k]
      /\ reused' = (reused \/ code <= top[account.totp])
  BY PresenceTyped
<1>2. /\ account.totp <= secrets /\ top[account.totp] <= account.lastTotpStep
      /\ account.totp # pendingOwner /\ account.totp # pendingRecovery
      /\ account.totp # account.pendingTotp
  BY <1>1, Authenticators DEF Codes, Apart
<1>3. code \in Nat /\ ~(code <= top[account.totp])
  BY <1>1, <1>2, Authenticators, WindowTyped
<1> QED
  BY <1>1, <1>2, <1>3, Zenon DEF Codes

\* Operations of a signed-in person: each of the five ways keeps codes moving forward.
LEMMA SignedInCodes ==
    ASSUME Typed, Codes, NEW code \in Window, SignedIn(code)
    PROVE  Codes'
<1> USE DEF Edited
<1>1. /\ account # None /\ account \in Account /\ account' \in Account /\ account' # None
      /\ UNCHANGED <<pendingOwner, pendingRecovery>>
  BY SignedInEffect, IdentityConstants DEF KeepSessions
<1>2. CASE /\ assertPresence(code) /\ UNCHANGED secrets
           /\ Edited(account.totp, code, account.pendingTotp)
  BY <1>1, <1>2, PresenceCodes, Authenticators DEF Codes, Unused, Apart
<1>3. CASE /\ assertPresence(code) /\ UNCHANGED secrets
           /\ Edited(None, account.lastTotpStep, None)
  BY <1>1, <1>3, PresenceCodes, Authenticators DEF Codes, Unused, Apart
<1>4. CASE newSecret /\ assertPresence(code) /\ Edited(account.totp, code, secrets')
  BY <1>1, <1>4, PresenceCodes, NewSecretUnused, Authenticators DEF Codes, Unused, Apart
<1>5. CASE newSecret /\ passwordOnly /\ Edited(account.totp, 0, secrets')
  BY <1>1, <1>5, NewSecretUnused, Authenticators DEF Codes, Unused, Apart, passwordOnly
<1>6. CASE /\ \/ Edited(account.totp, account.lastTotpStep, account.pendingTotp)
              \/ Edited(account.totp, account.lastTotpStep, None)
           /\ UNCHANGED <<top, reused, secrets>>
  BY <1>1, <1>6, Authenticators DEF Codes, Unused, Apart
<1> QED
  BY <1>2, <1>3, <1>4, <1>5, <1>6, SignedInEffect, Zenon

\* Every operation keeps codes moving forward.
LEMMA CodesStep ==
    ASSUME Typed, Codes, Next
    PROVE  Codes'
<1> USE DEF Edited
<1>1. CASE seedDefaultOwnerIfNeeded
  <2>1. /\ account' = NewAccount(None, 0)
        /\ UNCHANGED <<pendingOwner, pendingRecovery, secrets, top, reused>>
    BY <1>1, Zenon DEF seedDefaultOwnerIfNeeded
  <2>2. account'.totp = None /\ account'.pendingTotp = None
    BY <2>1, Zenon DEF NewAccount
  <2> QED
    BY <2>1, <2>2, Authenticators DEF Codes, Unused, Apart
<1>2. CASE beginSetup
  <2>1. /\ account = None /\ newSecret /\ pendingOwner' = secrets'
        /\ UNCHANGED <<account, pendingRecovery, top, reused>>
    BY <1>2, Zenon DEF beginSetup
  <2> QED
    BY <2>1, NewSecretUnused, Authenticators DEF Codes, Unused, Apart
<1>3. ASSUME NEW code \in Window, confirmSetup(code)
      PROVE  Codes'
  <2>1. /\ consumeTotp(pendingOwner, code, 0) /\ pendingOwner # None
        /\ pendingOwner' = None /\ pendingRecovery' = None /\ secrets' = secrets
    BY <1>3, Zenon DEF confirmSetup
  <2>2. /\ account' \in Account /\ account'.totp = pendingOwner
        /\ account'.lastTotpStep = code /\ account'.pendingTotp = None
    BY <1>3, CodeEffects, Zenon
  <2>3. /\ pendingOwner \in Secrets
        /\ \A k \in Secrets : top'[k] = IF k = pendingOwner THEN code ELSE top[k]
        /\ reused' = (reused \/ code <= top[pendingOwner])
    BY <2>1, Authenticators, ConsumedTyped
  <2>4. top[pendingOwner] = 0 /\ pendingOwner <= secrets /\ ~reused
    BY <2>1 DEF Codes, Unused
  <2>5. code \in Nat /\ ~(code <= 0)
    BY WindowTyped
  <2>6. ~reused'
    BY <2>3, <2>4, <2>5, Zenon
  <2> QED
    BY <2>1, <2>2, <2>3, <2>4, <2>5, <2>6, Authenticators DEF Codes, Unused, Apart
<1>4. CASE beginLogin \/ completeLoginWithPasskey \/ LockLapses
           \/ \E wrong \in BOOLEAN : failLogin(wrong)
  <2>1. UNCHANGED <<pendingOwner, pendingRecovery, secrets, top, reused>>
    BY <1>4, Zenon DEF beginLogin, completeLoginWithPasskey, LockLapses, failLogin
  <2>2. Edited(account.totp, account.lastTotpStep, account.pendingTotp)
    BY <1>4, PasswordEffects, FailEffect, Zenon
  <2> QED
    BY <2>1, <2>2, Authenticators DEF Codes, Unused, Apart
<1>5. ASSUME NEW code \in Window, completeLogin(code)
      PROVE  Codes'
  <2>1. assertPresence(code) /\ UNCHANGED <<pendingOwner, pendingRecovery, secrets>>
    BY <1>5, Zenon DEF completeLogin
  <2>2. Edited(account.totp, code, account.pendingTotp)
    BY <1>5, CodeEffects, Zenon
  <2> QED
    BY <2>1, <2>2, PresenceCodes, Authenticators DEF Codes, Unused, Apart
<1>6. ASSUME NEW code \in Window, completeRecovery(code)
      PROVE  Codes'
  <2>1. /\ consumeTotp(pendingRecovery, code, 0) /\ pendingRecovery # None
        /\ pendingRecovery' = None /\ UNCHANGED <<pendingOwner, secrets>>
    BY <1>6, Zenon DEF completeRecovery
  <2>2. Edited(pendingRecovery, code, account.pendingTotp)
    BY <1>6, CodeEffects, Zenon
  <2>3. /\ pendingRecovery \in Secrets
        /\ \A k \in Secrets : top'[k] = IF k = pendingRecovery THEN code ELSE top[k]
        /\ reused' = (reused \/ code <= top[pendingRecovery])
    BY <2>1, Authenticators, ConsumedTyped
  <2>4. top[pendingRecovery] = 0 /\ pendingRecovery <= secrets /\ ~reused
    BY <2>1 DEF Codes, Unused
  <2>5. code \in Nat /\ ~(code <= 0)
    BY WindowTyped
  <2>6. ~reused'
    BY <2>3, <2>4, <2>5, Zenon
  <2> QED
    BY <2>1, <2>2, <2>3, <2>4, <2>5, <2>6, Authenticators DEF Codes, Unused, Apart
<1>7. ASSUME NEW code \in Window, NEW s \in SessionIds, NEW revokeOthers \in BOOLEAN,
             changePassword(s, code, revokeOthers)
      PROVE  Codes'
  <2>1. UNCHANGED <<pendingOwner, pendingRecovery, secrets>>
    BY <1>7, Zenon DEF changePassword
  <2>2. CASE assertPresence(code) /\ Edited(account.totp, code, account.pendingTotp)
    BY <2>1, <2>2, PresenceCodes, Authenticators DEF Codes, Unused, Apart
  <2>3. CASE passwordOnly /\ Edited(account.totp, 0, account.pendingTotp)
    BY <2>1, <2>3, Authenticators DEF Codes, Unused, Apart, passwordOnly
  <2> QED
    BY <1>7, <2>2, <2>3, ChangeEffects, Zenon
<1>8. ASSUME NEW code \in Window, NEW s \in SessionIds, NEW revokeOthers \in BOOLEAN,
             confirmMfaReplacement(s, code, revokeOthers)
      PROVE  Codes'
  <2>1. /\ account.pendingTotp # None /\ {code, code + 1} \subseteq Window
        /\ Accepted(account.pendingTotp, code + 1)
        /\ UNCHANGED <<pendingOwner, pendingRecovery, secrets>>
    BY <1>8, Zenon DEF confirmMfaReplacement
  <2>2. Edited(account.pendingTotp, code + 1, None)
    BY <1>8, ChangeEffects, Zenon
  <2>3. account.pendingTotp \in Secrets /\ account # None
    BY <2>1, <2>2, Authenticators
  <2>4. code + 1 \in 1..(MaxStep + 1) /\ code + 1 \in Nat /\ ~(code + 1 <= 0)
    BY <2>1, WindowTyped
  <2>5. /\ \A k \in Secrets : top'[k] = IF k = account.pendingTotp THEN code + 1 ELSE top[k]
        /\ reused' = (reused \/ code + 1 <= top[account.pendingTotp])
    BY <2>1, <2>3, <2>4, AcceptedTyped
  <2>6. top[account.pendingTotp] = 0 /\ account.pendingTotp <= secrets /\ ~reused
    BY <2>1, <2>3 DEF Codes, Unused
  <2>7. ~reused'
    BY <2>4, <2>5, <2>6, Zenon
  <2> QED
    BY <2>1, <2>2, <2>3, <2>4, <2>5, <2>6, <2>7, Authenticators DEF Codes, Unused, Apart
<1>9. CASE beginRecovery
  <2>1. /\ newSecret /\ pendingRecovery' = secrets'
        /\ UNCHANGED <<account, pendingOwner, top, reused>>
    BY <1>9, Zenon DEF beginRecovery
  <2>2. account \in Account \cup {None}
    BY DEF Typed, TypeOK
  <2> QED
    BY <2>1, <2>2, NewSecretUnused, Authenticators DEF Codes, Unused, Apart
<1>10. ASSUME NEW code \in Window, SignedIn(code)
       PROVE  Codes'
  BY <1>10, SignedInCodes
<1>11. CASE confirmPasskeyRegistration \/ cancelMfaReplacement
  <2>1. step \in Window
    BY IdentityConstants DEF Window, Typed, TypeOK
  <2> QED
    BY <1>10, <1>11, <2>1, Zenon DEF SignedIn
<1>12. CASE \/ \E s \in SessionIds : \/ mintAttachCode(s) \/ redeemAttachCode(s)
                                     \/ AttachCodeExpires(s) \/ sessionEnds(s)
                                     \/ revokeOtherSessions(s)
                                     \/ \E t \in 1..MaxTerminals : rememberTerminal(t, s)
            \/ \E t \in 1..MaxTerminals : resumeTerminal(t) \/ revokeRememberedTerminal(t)
            \/ ChallengeExpires \/ TimePasses
  <2>1. UNCHANGED <<account, pendingOwner, pendingRecovery, secrets, top, reused>>
    BY <1>12, Zenon DEF mintAttachCode, redeemAttachCode, AttachCodeExpires, sessionEnds,
       revokeOtherSessions, rememberTerminal, resumeTerminal, revokeRememberedTerminal,
       ChallengeExpires, TimePasses, KeepAccount
  <2> QED
    BY <2>1 DEF Codes, Unused, Apart
<1> QED
  BY <1>1, <1>2, <1>3, <1>4, <1>5, <1>6, <1>7, <1>8, <1>9, <1>10, <1>11, <1>12,
     Zenon DEF Next, SignedIn

----------------------------------------------------------------------------
(* Theorems                                                                *)

\* The inductive invariant of the account, over every order of operations.
THEOREM Invariance == Spec => []IdentityInv
<1>1. Init => IdentityInv
  <2> SUFFICES ASSUME Init
               PROVE  IdentityInv
    OBVIOUS
  <2>1. Typed
    <3>1. TypeOK
      BY IdentityConstants DEF Init, TypeOK, SessionIds
    <3>2. reused \in BOOLEAN /\ lapsed \in BOOLEAN
      BY DEF Init
    <3>3. secrets \in 0..MaxSecrets /\ opened \in 0..MaxSessions /\ era \in 0..MaxRecoveries
      BY IdentityConstants DEF Init
    <3>4. top \in [Secrets -> 0..(MaxStep + 1)]
      <4>1. 0 \in 0..(MaxStep + 1)
        BY IdentityConstants
      <4> QED
        BY <4>1 DEF Init
    <3> QED
      BY <3>1, <3>2, <3>3, <3>4 DEF Init, Typed
  <2>2. Codes
    BY DEF Init, Codes, Unused, Apart
  <2>3. Carried /\ Recovered
    BY DEF Init, Carried, Recovered, SecondFactorIsCarried, RecoveryCutsOldSessions, Live
  <2>4. Lock
    BY DEF Init, Lock
  <2> QED
    BY <2>1, <2>2, <2>3, <2>4 DEF IdentityInv
<1>2. IdentityInv /\ [Next]_vars => IdentityInv'
  <2>1. ASSUME IdentityInv, Next
        PROVE  IdentityInv'
    BY <2>1, TypedStep, CodesStep, CarriedStep, LockStep DEF IdentityInv
  <2>2. ASSUME IdentityInv, UNCHANGED vars
        PROVE  IdentityInv'
    BY <2>2 DEF vars, IdentityInv, Typed, TypeOK, Codes, Unused, Apart, Carried, Recovered,
       Lock, SecondFactorIsCarried, RecoveryCutsOldSessions, Live
  <2> QED
    BY <2>1, <2>2
<1> QED
  BY <1>1, <1>2, PTL DEF Spec

\* Every variable of the account keeps its type.
THEOREM TypeCorrect == Spec => []TypeOK
BY Invariance, PTL DEF IdentityInv, Typed

\* consumeTotp and the operations that move authenticators around: no code is accepted
\* at or before one already accepted from the same authenticator.
THEOREM CodesAreTakenOnce == Spec => []CodesMoveForward
<1>1. IdentityInv => CodesMoveForward
  BY DEF IdentityInv, Codes, CodesMoveForward
<1> QED
  BY <1>1, Invariance, PTL

\* mintAttachCode, redeemAttachCode and the remembered terminals: a session marked mfa
\* rests on a second factor, through any chain of codes and terminals.
THEOREM NoSessionOutgrowsItsProof == Spec => []SecondFactorIsCarried
<1>1. IdentityInv => SecondFactorIsCarried
  BY DEF IdentityInv, Carried
<1> QED
  BY <1>1, Invariance, PTL

\* completeRecovery: a session in use afterwards was proved since, or came in by a
\* terminal or a passkey that the recovery leaves.
THEOREM RecoveryEndsTheOldEra == Spec => []RecoveryCutsOldSessions
<1>1. IdentityInv => RecoveryCutsOldSessions
  BY DEF IdentityInv, Recovered
<1> QED
  BY <1>1, Invariance, PTL

\* beginLogin: at most LockAfter wrong passwords are compared between two right ones,
\* and one for each lock that lapses.
THEOREM GuessesStaySlow == Spec => []GuessesAreSlowed
<1>1. IdentityInv => GuessesAreSlowed
  <2> SUFFICES ASSUME IdentityInv
               PROVE  GuessesAreSlowed
    OBVIOUS
  <2>1. CASE account = None
    <3>1. compared = 0 /\ ~lapsed
      BY <2>1, Zenon DEF IdentityInv, Lock
    <3> QED
      BY <3>1, LimitPositive DEF GuessesAreSlowed
  <2>2. CASE account # None /\ lapsed
    <3>1. compared <= (IF account.locked THEN 1 ELSE 0)
      BY <2>2, Zenon DEF IdentityInv, Lock
    <3> QED
      BY <2>2, <3>1 DEF GuessesAreSlowed, IdentityInv, Typed
  <2>3. CASE account # None /\ ~lapsed
    <3>1. account.failed \in 0..LockAfter
      BY <2>3 DEF IdentityInv, Typed, TypeOK, Account
    <3>2. compared <= account.failed
      BY <2>3, Zenon DEF IdentityInv, Lock
    <3> QED
      BY <2>3, <3>1, <3>2, LimitPositive DEF GuessesAreSlowed, IdentityInv, Typed
  <2> QED
    BY <2>1, <2>2, <2>3
<1> QED
  BY <1>1, Invariance, PTL
=============================================================================

------------------------------- MODULE SignIn -------------------------------
(***************************************************************************)
(* Signing in (shared/auth.js, core/src/passkey.js, core/src/oidc-client.js *)
(* and the /v2/auth routes of the core): one account in a JSON file, its    *)
(* second factor and recovery codes, passkeys, a linked external identity,  *)
(* and the sessions each of these opens.  Challenges, sign-in states and    *)
(* attempt counters live in the core's memory.  Two awaits matter: the      *)
(* check of a passkey's signature and the exchange with the provider.       *)
(***************************************************************************)
EXTENDS Integers, Sequences, FiniteSets, TLAPS

CONSTANTS
  Passkeys, Challenges, States,
  Codes,       \* recovery codes of one enrollment
  MaxEnroll,   \* bound: second-factor secrets generated
  MaxFails     \* ASMLTR_AUTH_MAX_FAILS

ASSUME Bounds == MaxEnroll \in Nat /\ MaxFails \in Nat \ {0}

VARIABLES
  accounts,      \* what accounts.json reads as: the account, or NoAccount
  secrets,       \* second-factor secrets generated so far
  fails, locked, \* failed attempts per key, and whether the key is locked out
  regCh,         \* the registration challenge held for the user
  pendingLogin,  \* login challenges issued and not consumed
  states,        \* external sign-in states issued and not consumed
  fresh,         \* challenges and states never issued
  awaiting,      \* passkey checks and external exchanges under way
  sessions,      \* sessions issued, with the factors they claim and what opened them
  opened         \* how many sessions each one-time proof opened

vars == <<accounts, secrets, fails, locked, regCh, pendingLogin, states, fresh, awaiting,
          sessions, opened>>
memory == <<fails, locked, regCh, pendingLogin, states, awaiting>>

RecoveryCodes == {"recovery"} \X (1..MaxEnroll) \X Codes
TotpCodes == {"totp"} \X (1..MaxEnroll)
NoCode == <<"none">>

\* Codes, challenges and states are random and long: no two of them are alike.
ASSUME Distinct ==
  /\ Challenges \cap States = {}
  /\ (Challenges \cup States) \cap (RecoveryCodes \cup TotpCodes \cup {NoCode}) = {}

Proofs == RecoveryCodes \cup Challenges \cup States
Keys == {"password", "passkey"}

Account(secret, enabled, pending, recovery, passkeys, linked) ==
  [secret |-> secret, enabled |-> enabled, pending |-> pending, recovery |-> recovery,
   passkeys |-> passkeys, linked |-> linked]
AccountRecords ==
  [secret : 0..MaxEnroll, enabled : BOOLEAN, pending : 0..MaxEnroll,
   recovery : SUBSET RecoveryCodes, passkeys : SUBSET Passkeys, linked : BOOLEAN]

\* load(): a file that is missing or does not parse reads as no account at all.
NoAccount == <<>>

Awaitable ==
  [op : {"register"}, key : Passkeys] \cup [op : {"login"}, key : Passkeys, challenge : Challenges]
    \cup [op : {"exchange"}, state : States]

TypeOK ==
  /\ accounts \in AccountRecords \cup {NoAccount}
  /\ secrets \in 0..MaxEnroll
  /\ fails \in [Keys -> 0..(MaxFails - 1)] /\ locked \in [Keys -> BOOLEAN]
  /\ regCh \subseteq Challenges /\ pendingLogin \subseteq Challenges /\ states \subseteq States
  /\ fresh \subseteq Challenges \cup States /\ awaiting \subseteq Awaitable
  /\ opened \in [Proofs -> Nat]

Init ==
  /\ accounts = NoAccount /\ secrets = 0
  /\ fails = [k \in Keys |-> 0] /\ locked = [k \in Keys |-> FALSE]
  /\ regCh = {} /\ pendingLogin = {} /\ states = {} /\ fresh = Challenges \cup States
  /\ awaiting = {} /\ sessions = {} /\ opened = [x \in Proofs |-> 0]

hasAccount == accounts # NoAccount
SignedIn == sessions # {}   \* a token issued once is good until its thirty days end

recordFail_NotReset(k) ==
  /\ fails' = [fails EXCEPT ![k] = @ + 1]
  /\ locked' = [locked EXCEPT ![k] = @ \/ fails[k] + 1 >= MaxFails]

recordFail(k) ==
  /\ fails' = [fails EXCEPT ![k] = (@ + 1) % MaxFails]
  /\ locked' = [locked EXCEPT ![k] = @ \/ fails[k] + 1 >= MaxFails]
recordSuccess(k) ==
  /\ fails' = [fails EXCEPT ![k] = 0] /\ locked' = [locked EXCEPT ![k] = FALSE]

issueSession(amr, proof) ==
  /\ sessions' = sessions \cup {[amr |-> amr, proof |-> proof]}
  /\ opened' = IF proof \in Proofs THEN [opened EXCEPT ![proof] = @ + 1] ELSE opened

---------------------------------------------------------------------------
createAccount ==
  /\ ~hasAccount
  /\ accounts' = Account(0, FALSE, 0, {}, {}, FALSE)
  /\ UNCHANGED <<secrets, memory, fresh, sessions, opened>>

\* What is left of the recovery codes once `code` was accepted.
Consumed_Kept(code) == accounts.recovery
Consumed(code) == accounts.recovery \ {code}

\* A TOTP code is good for its secret, as often as it is sent within its minute and a half.
verifyTotpCode(secret, code) == code = <<"totp", secret>>

verifySecondFactor(code) ==
  \/ (~accounts.enabled \/ verifyTotpCode(accounts.secret, code)) /\ UNCHANGED accounts
  \/ /\ accounts.enabled /\ code \in accounts.recovery
     /\ accounts' = [accounts EXCEPT !.recovery = Consumed(code)]

\* A right password: with 2FA off it is enough, with 2FA on it takes a TOTP code or a
\* recovery code.  Without a code, nothing is recorded for or against the caller.
login(code) ==
  /\ hasAccount /\ ~locked["password"]
  /\ verifySecondFactor(code)
  /\ recordSuccess("password")
  /\ IF accounts.enabled THEN issueSession({"pwd", "totp"}, code)
                          ELSE issueSession({"pwd"}, NoCode)
  /\ UNCHANGED <<secrets, regCh, pendingLogin, states, fresh, awaiting>>

\* A wrong password, or a wrong second factor after the right one.
loginFails ==
  /\ ~locked["password"]
  /\ recordFail("password")
  /\ UNCHANGED <<accounts, secrets, regCh, pendingLogin, states, fresh, awaiting, sessions, opened>>

lockExpires(k) ==
  /\ locked[k] /\ locked' = [locked EXCEPT ![k] = FALSE]
  /\ UNCHANGED <<accounts, secrets, fails, regCh, pendingLogin, states, fresh, awaiting,
                 sessions, opened>>

---------------------------------------------------------------------------
\* The totp record of an account that starts to enroll: the secret in use stays in use.
Enrolling_Over(a, s) == [a EXCEPT !.pending = s, !.secret = 0]
Enrolling(a, s) == [a EXCEPT !.pending = s]

totpBeginEnroll ==
  /\ SignedIn /\ hasAccount /\ secrets < MaxEnroll
  /\ secrets' = secrets + 1
  /\ accounts' = Enrolling(accounts, secrets + 1)
  /\ UNCHANGED <<memory, fresh, sessions, opened>>

totpConfirmEnroll ==
  /\ SignedIn /\ hasAccount /\ accounts.pending # 0
  /\ accounts' = [accounts EXCEPT !.secret = accounts.pending, !.enabled = TRUE, !.pending = 0,
                    !.recovery = {"recovery"} \X {accounts.pending} \X Codes]
  /\ UNCHANGED <<secrets, memory, fresh, sessions, opened>>

totpDisable ==
  /\ SignedIn /\ hasAccount
  /\ accounts' = [accounts EXCEPT !.secret = 0, !.enabled = FALSE, !.pending = 0, !.recovery = {}]
  /\ UNCHANGED <<secrets, memory, fresh, sessions, opened>>

---------------------------------------------------------------------------
\* One registration challenge per user: a second one replaces the first.
registerOptions(c) ==
  /\ SignedIn /\ c \in fresh /\ fresh' = fresh \ {c}
  /\ regCh' = {c}
  /\ UNCHANGED <<accounts, secrets, fails, locked, pendingLogin, states, awaiting, sessions, opened>>

registerVerify(k) ==
  /\ SignedIn /\ regCh # {}
  /\ regCh' = {}
  /\ awaiting' = awaiting \cup {[op |-> "register", key |-> k]}
  /\ UNCHANGED <<accounts, secrets, fails, locked, pendingLogin, states, fresh, sessions, opened>>

\* The signature checked out; it may also not, or the key may be registered already.
registerDone(k) ==
  /\ [op |-> "register", key |-> k] \in awaiting
  /\ awaiting' = awaiting \ {[op |-> "register", key |-> k]}
  /\ \/ UNCHANGED accounts
     \/ /\ hasAccount /\ k \notin accounts.passkeys
        /\ accounts' = [accounts EXCEPT !.passkeys = @ \cup {k}]
  /\ UNCHANGED <<secrets, fails, locked, regCh, pendingLogin, states, fresh, sessions, opened>>

removePasskey(k) ==
  /\ SignedIn /\ hasAccount /\ k \in accounts.passkeys
  /\ accounts' = [accounts EXCEPT !.passkeys = @ \ {k}]
  /\ UNCHANGED <<secrets, memory, fresh, sessions, opened>>

\* Usernameless: the lock looked at here is the one of the password route.
loginOptions(c) ==
  /\ c \in fresh \cap Challenges /\ ~locked["password"]
  /\ fresh' = fresh \ {c} /\ pendingLogin' = pendingLogin \cup {c}
  /\ UNCHANGED <<accounts, secrets, fails, locked, regCh, states, awaiting, sessions, opened>>

\* The challenges left once `c` was presented.
consumePending_Kept(c) == pendingLogin
consumePending(c) == pendingLogin \ {c}

\* The credential is read, the challenge consumed, and the signature check awaited.
loginVerify(c, k) ==
  /\ ~locked["passkey"] /\ hasAccount /\ k \in accounts.passkeys /\ c \in pendingLogin
  /\ pendingLogin' = consumePending(c)
  /\ awaiting' = awaiting \cup {[op |-> "login", key |-> k, challenge |-> c]}
  /\ UNCHANGED <<accounts, secrets, fails, locked, regCh, states, fresh, sessions, opened>>

\* An unknown credential, or a challenge not issued or already consumed.
loginVerifyFails ==
  /\ ~locked["passkey"]
  /\ recordFail("passkey")
  /\ UNCHANGED <<accounts, secrets, regCh, pendingLogin, states, fresh, awaiting, sessions, opened>>

\* The credential is not looked up again after the await.
loginVerified(c, k) ==
  LET check == [op |-> "login", key |-> k, challenge |-> c] IN
  /\ check \in awaiting /\ awaiting' = awaiting \ {check}
  /\ \/ recordSuccess("passkey") /\ issueSession({"passkey"}, c)
     \/ recordFail("passkey") /\ UNCHANGED <<sessions, opened>>
  /\ UNCHANGED <<accounts, secrets, regCh, pendingLogin, states, fresh>>

---------------------------------------------------------------------------
authorizeUrl(s) ==
  /\ s \in fresh \cap States /\ fresh' = fresh \ {s} /\ states' = states \cup {s}
  /\ UNCHANGED <<accounts, secrets, fails, locked, regCh, pendingLogin, awaiting, sessions, opened>>

\* checkState consumes the state before the code is exchanged with the provider.
callback(s) ==
  /\ s \in states /\ states' = states \ {s}
  /\ awaiting' = awaiting \cup {[op |-> "exchange", state |-> s]}
  /\ UNCHANGED <<accounts, secrets, fails, locked, regCh, pendingLogin, fresh, sessions, opened>>

linkExternal == hasAccount /\ accounts' = [accounts EXCEPT !.linked = TRUE]
findByExternal == hasAccount /\ accounts.linked

\* With a session the identity is linked; without one, a linked identity opens a session.
exchanged(s) ==
  /\ [op |-> "exchange", state |-> s] \in awaiting
  /\ awaiting' = awaiting \ {[op |-> "exchange", state |-> s]}
  /\ \/ UNCHANGED <<accounts, sessions, opened>>   \* the provider refused, or nothing is linked
     \/ SignedIn /\ linkExternal /\ UNCHANGED <<sessions, opened>>
     \/ findByExternal /\ issueSession({"ext"}, s) /\ UNCHANGED accounts
  /\ UNCHANGED <<secrets, fails, locked, regCh, pendingLogin, states, fresh>>

unlinkExternal ==
  /\ SignedIn /\ hasAccount /\ accounts.linked
  /\ accounts' = [accounts EXCEPT !.linked = FALSE]
  /\ UNCHANGED <<secrets, memory, fresh, sessions, opened>>

\* Five minutes for a challenge, ten for a state.
Expire ==
  /\ regCh' \in {regCh, {}} /\ pendingLogin' \in SUBSET pendingLogin /\ states' \in SUBSET states
  /\ UNCHANGED <<accounts, secrets, fails, locked, fresh, awaiting, sessions, opened>>

\* The core dies, possibly inside the write of accounts.json, which is not atomic.
Restart ==
  /\ UNCHANGED accounts \/ accounts' = NoAccount
  /\ fails' = [k \in Keys |-> 0] /\ locked' = [k \in Keys |-> FALSE]
  /\ regCh' = {} /\ pendingLogin' = {} /\ states' = {} /\ awaiting' = {}
  /\ UNCHANGED <<secrets, fresh, sessions, opened>>

Next ==
  \/ createAccount \/ loginFails \/ loginVerifyFails
  \/ \E code \in {NoCode} \cup TotpCodes \cup RecoveryCodes : login(code)
  \/ \E k \in Keys : lockExpires(k)
  \/ totpBeginEnroll \/ totpConfirmEnroll \/ totpDisable
  \/ \E c \in Challenges : registerOptions(c) \/ loginOptions(c)
  \/ \E k \in Passkeys : registerVerify(k) \/ registerDone(k) \/ removePasskey(k)
  \/ \E c \in Challenges, k \in Passkeys : loginVerify(c, k) \/ loginVerified(c, k)
  \/ \E s \in States : authorizeUrl(s) \/ callback(s) \/ exchanged(s)
  \/ unlinkExternal \/ Expire \/ Restart

Spec == Init /\ [][Next]_vars

---------------------------------------------------------------------------
\* A recovery code, a passkey challenge and a sign-in state each open at most one session,
\* whatever is retried, replayed, re-enrolled or restarted around them.
OpensOnce == \A x \in Proofs : opened[x] <= 1

\* While the second factor is on there is a secret to check a code against: an enrollment
\* begun and never confirmed locks nobody out.
SecondFactorUsable == hasAccount /\ accounts.enabled => accounts.secret # 0

\* An account that exists goes on existing: first-run setup opens once.
AccountsLast == [][hasAccount => hasAccount']_vars

---------------------------------------------------------------------------
(* Proofs, for any sets of passkeys, challenges, states and codes, and any  *)
(* number of enrollments and failed attempts: the inductive invariant.      *)

Asking(x) == x.op # "register"
ProofOf(x) == IF x.op = "login" THEN x.challenge ELSE x.state
Awaited(c) == \E x \in awaiting : Asking(x) /\ ProofOf(x) = c

\* A challenge or a state is in one place at a time on its way from fresh, to issued, to
\* awaited, and until it is there no longer it has opened nothing.
ProofInv ==
  /\ \A c \in fresh : opened[c] = 0 /\ c \notin pendingLogin /\ c \notin states /\ ~Awaited(c)
  /\ \A c \in pendingLogin \cup states : opened[c] = 0 /\ ~Awaited(c)
  /\ \A x \in awaiting : Asking(x) => opened[ProofOf(x)] = 0
  /\ \A x, y \in awaiting : Asking(x) /\ Asking(y) /\ ProofOf(x) = ProofOf(y) => x = y

\* The codes of an enrollment are good for nothing before it is confirmed, and each of them is
\* gone once it has been used: an account that begins anew gets new ones.
CodeInv ==
  /\ \A s \in 1..MaxEnroll, c \in Codes : s > secrets => opened[<<"recovery", s, c>>] = 0
  /\ hasAccount =>
       /\ accounts.pending <= secrets
       /\ accounts.pending # 0 => \A c \in Codes : opened[<<"recovery", accounts.pending, c>>] = 0
       /\ \A x \in accounts.recovery : opened[x] = 0 /\ x[2] # accounts.pending /\ x[2] <= secrets

IInv == TypeOK /\ ProofInv /\ CodeInv /\ SecondFactorUsable /\ OpensOnce

---------------------------------------------------------------------------
(* The proofs a caller may bring.                                           *)

LEMMA Shapes ==
  /\ \A x \in RecoveryCodes : x[2] \in 1..MaxEnroll /\ x[3] \in Codes /\ x = <<"recovery", x[2], x[3]>>
  /\ \A s \in 1..MaxEnroll, c \in Codes : <<"recovery", s, c>> \in RecoveryCodes
  /\ \A x \in TotpCodes \cup {NoCode} : x \notin Proofs
  /\ \A c \in Challenges \cup States : c \notin RecoveryCodes
  /\ Challenges \cap States = {}
  <1>1. ASSUME NEW x \in TotpCodes, x \in RecoveryCodes PROVE FALSE
    <2>1. x[1] = "totp" /\ x[1] = "recovery"
      BY <1>1 DEF TotpCodes, RecoveryCodes
    <2>. QED BY <2>1
  <1>2. NoCode \notin RecoveryCodes
    <2>1. NoCode[1] = "none" /\ \A x \in RecoveryCodes : x[1] = "recovery"
      BY DEF NoCode, RecoveryCodes
    <2>. QED BY <2>1
  <1>3. \A x \in RecoveryCodes : x[2] \in 1..MaxEnroll /\ x[3] \in Codes /\ x = <<"recovery", x[2], x[3]>>
    BY DEF RecoveryCodes
  <1>4. \A s \in 1..MaxEnroll, c \in Codes : <<"recovery", s, c>> \in RecoveryCodes
    BY DEF RecoveryCodes
  <1>. QED BY <1>1, <1>2, <1>3, <1>4, Distinct DEF Proofs

LEMMA Awaits ==
  /\ \A x \in Awaitable : /\ Asking(x) => ProofOf(x) \in Challenges \cup States
                          /\ x.op = "login" => ProofOf(x) = x.challenge
                          /\ x.op = "exchange" => ProofOf(x) = x.state
  /\ \A k \in Passkeys, c \in Challenges :
       LET x == [op |-> "login", key |-> k, challenge |-> c]
       IN x \in Awaitable /\ Asking(x) /\ ProofOf(x) = c
  /\ \A s \in States :
       LET x == [op |-> "exchange", state |-> s] IN x \in Awaitable /\ Asking(x) /\ ProofOf(x) = s
  /\ \A k \in Passkeys :
       LET x == [op |-> "register", key |-> k] IN x \in Awaitable /\ ~Asking(x)
  BY DEF Awaitable, Asking, ProofOf

---------------------------------------------------------------------------
(* What a step changes.                                                     *)

\* A step that opens nothing and issues nothing.
LEMMA ProofsKept ==
  ASSUME ProofInv, opened' = opened, fresh' \subseteq fresh, pendingLogin' \subseteq pendingLogin,
         states' \subseteq states, \A x \in awaiting' : Asking(x) => x \in awaiting
  PROVE  ProofInv'
  BY DEF ProofInv, Awaited

LEMMA CodesKept ==
  ASSUME CodeInv, accounts' = accounts, secrets' = secrets, opened' = opened
  PROVE  CodeInv'
  BY DEF CodeInv, hasAccount

LEMMA AccountKept == ASSUME SecondFactorUsable, accounts' = accounts PROVE SecondFactorUsable'
  BY DEF SecondFactorUsable, hasAccount

LEMMA OnceKept == ASSUME OpensOnce, opened' = opened PROVE OpensOnce'
  BY DEF OpensOnce

\* A proof that has opened nothing opens one session.
LEMMA Once ==
  ASSUME TypeOK, OpensOnce, NEW x \in Proofs, opened[x] = 0, opened' = [opened EXCEPT ![x] = @ + 1]
  PROVE  OpensOnce' /\ opened' \in [Proofs -> Nat] /\ \A y \in Proofs : y # x => opened'[y] = opened[y]
  BY DEF TypeOK, OpensOnce

\* The attempts are counted below the limit.
LEMMA Failed ==
  ASSUME TypeOK, NEW k \in Keys, recordFail(k)
  PROVE  fails' \in [Keys -> 0..(MaxFails - 1)] /\ locked' \in [Keys -> BOOLEAN]
  <1>1. fails[k] \in Nat /\ MaxFails \in Nat /\ MaxFails > 0
    BY Bounds DEF TypeOK
  <1>2. (fails[k] + 1) % MaxFails \in 0..(MaxFails - 1)
    BY <1>1
  <1>. QED BY <1>2 DEF TypeOK, recordFail

LEMMA Succeeded ==
  ASSUME TypeOK, NEW k \in Keys, recordSuccess(k)
  PROVE  fails' \in [Keys -> 0..(MaxFails - 1)] /\ locked' \in [Keys -> BOOLEAN]
  <1>1. 0 \in 0..(MaxFails - 1)
    BY Bounds
  <1>. QED BY <1>1 DEF TypeOK, recordSuccess

---------------------------------------------------------------------------
(* Passwords and the account.                                               *)

LEMMA LogsIn == ASSUME IInv, NEW code \in {NoCode} \cup TotpCodes \cup RecoveryCodes, login(code) PROVE IInv'
  <1>0. TypeOK /\ CodeInv /\ ProofInv /\ SecondFactorUsable /\ OpensOnce /\ accounts \in AccountRecords
    BY DEF IInv, TypeOK, login, hasAccount
  <1>1. /\ secrets' = secrets /\ regCh' = regCh /\ pendingLogin' = pendingLogin /\ states' = states
        /\ fresh' = fresh /\ awaiting' = awaiting /\ hasAccount
        /\ fails' \in [Keys -> 0..(MaxFails - 1)] /\ locked' \in [Keys -> BOOLEAN]
    <2>1. recordSuccess("password") /\ "password" \in Keys
      BY DEF login, Keys
    <2>. QED BY <1>0, <2>1, Succeeded DEF login
  <1>2. CASE (~accounts.enabled \/ verifyTotpCode(accounts.secret, code)) /\ UNCHANGED accounts
    <2>1. opened' = opened
      <3>1. CASE accounts.enabled
        <4>1. code = <<"totp", accounts.secret>>
          BY <1>2, <3>1 DEF verifyTotpCode
        <4>2. code \notin RecoveryCodes
          <5>1. code[1] = "totp" /\ \A x \in RecoveryCodes : x[1] = "recovery"
            BY <4>1 DEF RecoveryCodes
          <5>. QED BY <5>1
        <4>3. code \notin Proofs
          BY <4>2, Shapes
        <4>. QED BY <3>1, <4>3 DEF login, issueSession
      <3>2. CASE ~accounts.enabled
        BY <3>2, Shapes DEF login, issueSession
      <3>. QED BY <3>1, <3>2
    <2>2. TypeOK'
      BY <1>0, <1>1, <1>2, <2>1 DEF TypeOK
    <2>3. ProofInv' /\ CodeInv' /\ SecondFactorUsable' /\ OpensOnce'
      BY <1>0, <1>1, <1>2, <2>1, ProofsKept, CodesKept, AccountKept, OnceKept
    <2>. QED BY <2>2, <2>3 DEF IInv
  <1>3. CASE /\ accounts.enabled /\ code \in accounts.recovery
             /\ accounts' = [accounts EXCEPT !.recovery = Consumed(code)]
    <2>1. code \in RecoveryCodes /\ opened[code] = 0 /\ code \in Proofs
      BY <1>0, <1>1, <1>3 DEF AccountRecords, CodeInv, Proofs
    <2>2. opened' = [opened EXCEPT ![code] = @ + 1]
      BY <1>3, <2>1 DEF login, issueSession
    <2>3. OpensOnce' /\ opened' \in [Proofs -> Nat] /\ \A y \in Proofs : y # code => opened'[y] = opened[y]
      BY <1>0, <2>1, <2>2, Once
    <2>4. /\ accounts' \in AccountRecords /\ accounts'.recovery = accounts.recovery \ {code}
          /\ accounts'.pending = accounts.pending /\ accounts'.enabled = accounts.enabled
          /\ accounts'.secret = accounts.secret
      BY <1>0, <1>3 DEF AccountRecords, Consumed
    <2>5. TypeOK'
      BY <1>0, <1>1, <2>3, <2>4 DEF TypeOK
    <2>6. \A c \in Challenges \cup States : opened'[c] = opened[c]
      BY <2>1, <2>3, Shapes DEF Proofs
    <2>7. ProofInv'
      <3>1. \A x \in awaiting : Asking(x) => ProofOf(x) \in Challenges \cup States
        BY <1>0, Awaits DEF TypeOK
      <3>2. fresh \subseteq Challenges \cup States /\ pendingLogin \cup states \subseteq Challenges \cup States
        BY <1>0 DEF TypeOK
      <3>. QED BY <1>0, <1>1, <2>6, <3>1, <3>2 DEF ProofInv, Awaited
    <2>8. CodeInv'
      <3>1. \A s \in 1..MaxEnroll, c \in Codes : <<"recovery", s, c>> \in Proofs /\ <<"recovery", s, c>>[2] = s
        BY Shapes DEF Proofs
      <3>2. secrets \in Nat /\ code[2] \in 1..MaxEnroll /\ code[2] <= secrets /\ code[2] # accounts.pending
            /\ accounts.pending \in 0..MaxEnroll
        BY <1>0, <1>1, <1>3, <2>1, Shapes, Bounds DEF TypeOK, CodeInv, AccountRecords
      <3>3. \A s \in 1..MaxEnroll, c \in Codes : s > secrets => opened'[<<"recovery", s, c>>] = 0
        <4> TAKE s \in 1..MaxEnroll, c \in Codes
        <4> HAVE s > secrets
        <4>1. <<"recovery", s, c>>[2] # code[2]
          BY <3>1, <3>2
        <4>2. <<"recovery", s, c>> # code
          BY <4>1
        <4>. QED BY <1>0, <2>3, <3>1, <4>2 DEF CodeInv
      <3>4. accounts'.pending # 0 => \A c \in Codes : opened'[<<"recovery", accounts'.pending, c>>] = 0
        <4> HAVE accounts'.pending # 0
        <4> TAKE c \in Codes
        <4>1. accounts.pending \in 1..MaxEnroll
          BY <2>4, <3>2, Bounds
        <4>2. <<"recovery", accounts.pending, c>>[2] # code[2]
          BY <3>1, <3>2, <4>1
        <4>3. <<"recovery", accounts.pending, c>> # code
          BY <4>2
        <4>. QED BY <1>0, <1>1, <2>3, <2>4, <3>1, <4>1, <4>3 DEF CodeInv
      <3>5. \A x \in accounts'.recovery : opened'[x] = 0 /\ x[2] # accounts'.pending /\ x[2] <= secrets
        <4>1. \A x \in accounts'.recovery : x \in accounts.recovery /\ x # code /\ x \in Proofs
          BY <1>0, <2>4 DEF AccountRecords, Proofs
        <4>. QED BY <1>0, <1>1, <2>3, <2>4, <4>1 DEF CodeInv
      <3>. QED BY <1>0, <1>1, <2>4, <3>3, <3>4, <3>5 DEF CodeInv
    <2>9. SecondFactorUsable'
      BY <1>0, <1>1, <2>4 DEF SecondFactorUsable, hasAccount
    <2>. QED BY <2>3, <2>5, <2>7, <2>8, <2>9 DEF IInv
  <1>. QED BY <1>2, <1>3 DEF login, verifySecondFactor

\* A step that leaves the account and what proofs have opened alone, and gives no proof back.
LEMMA QuietStep ==
  ASSUME IInv, accounts' = accounts, secrets' = secrets, opened' = opened,
         fails' \in [Keys -> 0..(MaxFails - 1)], locked' \in [Keys -> BOOLEAN], regCh' \subseteq Challenges,
         fresh' \subseteq fresh, pendingLogin' \subseteq pendingLogin, states' \subseteq states,
         awaiting' \subseteq Awaitable, \A x \in awaiting' : Asking(x) => x \in awaiting
  PROVE  IInv'
  <1>1. TypeOK'
    BY DEF IInv, TypeOK
  <1>. QED BY <1>1, ProofsKept, CodesKept, AccountKept, OnceKept DEF IInv

LEMMA Counts == ASSUME IInv, loginFails \/ loginVerifyFails \/ \E k \in Keys : lockExpires(k) PROVE IInv'
  <1>1. fails' \in [Keys -> 0..(MaxFails - 1)] /\ locked' \in [Keys -> BOOLEAN]
    <2>1. "password" \in Keys /\ "passkey" \in Keys /\ TypeOK
      BY DEF Keys, IInv
    <2>2. ASSUME NEW k \in Keys, lockExpires(k)
          PROVE  fails' \in [Keys -> 0..(MaxFails - 1)] /\ locked' \in [Keys -> BOOLEAN]
      BY <2>1, <2>2 DEF lockExpires, TypeOK
    <2>. QED BY <2>1, <2>2, Failed DEF loginFails, loginVerifyFails
  <1>2. /\ accounts' = accounts /\ secrets' = secrets /\ opened' = opened /\ regCh' = regCh
        /\ fresh' = fresh /\ pendingLogin' = pendingLogin /\ states' = states /\ awaiting' = awaiting
    BY DEF loginFails, loginVerifyFails, lockExpires
  <1>. QED BY <1>1, <1>2, QuietStep DEF IInv, TypeOK

\* A step of the account alone.
LEMMA AccountStep ==
  ASSUME IInv, NEW a \in AccountRecords \cup {NoAccount}, accounts' = a, secrets' \in 0..MaxEnroll, secrets <= secrets',
         UNCHANGED <<memory, fresh, opened>>,
         a # NoAccount =>
           /\ a.enabled => a.secret # 0
           /\ a.pending <= secrets'
           /\ a.pending # 0 => \A c \in Codes : opened[<<"recovery", a.pending, c>>] = 0
           /\ \A x \in a.recovery : opened[x] = 0 /\ x[2] # a.pending /\ x[2] <= secrets'
  PROVE  IInv'
  <1>1. /\ fails' = fails /\ locked' = locked /\ regCh' = regCh /\ pendingLogin' = pendingLogin
        /\ states' = states /\ awaiting' = awaiting /\ fresh' = fresh /\ opened' = opened
    BY DEF memory
  <1>2. TypeOK'
    BY <1>1 DEF IInv, TypeOK
  <1>3. ProofInv' /\ OpensOnce'
    BY <1>1, ProofsKept, OnceKept DEF IInv
  <1>4. CodeInv'
    <2>1. \A s \in 1..MaxEnroll : s > secrets' => s > secrets
      BY Bounds DEF IInv, TypeOK
    <2>. QED BY <1>1, <2>1 DEF IInv, CodeInv, hasAccount
  <1>5. SecondFactorUsable'
    BY DEF SecondFactorUsable, hasAccount
  <1>. QED BY <1>2, <1>3, <1>4, <1>5 DEF IInv

LEMMA Creates == ASSUME IInv, createAccount PROVE IInv'
  <1> DEFINE a == Account(0, FALSE, 0, {}, {}, FALSE)
  <1>1. accounts' = a /\ secrets' = secrets /\ UNCHANGED <<memory, fresh, opened>>
    BY DEF createAccount
  <1>2. a \in AccountRecords /\ a.pending = 0 /\ a.recovery = {} /\ ~a.enabled
    <2>1. 0 \in 0..MaxEnroll
      BY Bounds
    <2>. QED BY <2>1 DEF Account, AccountRecords
  <1> HIDE DEF a
  <1>3. secrets' \in 0..MaxEnroll /\ secrets <= secrets' /\ a.pending <= secrets'
    BY <1>1, <1>2, Bounds DEF IInv, TypeOK
  <1>. QED BY <1>1, <1>2, <1>3, AccountStep

LEMMA Enrolls == ASSUME IInv, totpBeginEnroll \/ totpConfirmEnroll \/ totpDisable PROVE IInv'
  <1>0. /\ TypeOK /\ CodeInv /\ SecondFactorUsable /\ hasAccount /\ accounts \in AccountRecords
        /\ MaxEnroll \in Nat /\ secrets \in 0..MaxEnroll /\ UNCHANGED <<memory, fresh, opened>>
    BY Bounds DEF IInv, TypeOK, totpBeginEnroll, totpConfirmEnroll, totpDisable, hasAccount
  <1>1. /\ accounts.pending \in 0..MaxEnroll /\ accounts.pending <= secrets /\ accounts # NoAccount
        /\ accounts.pending # 0 => \A c \in Codes : opened[<<"recovery", accounts.pending, c>>] = 0
        /\ \A x \in accounts.recovery : /\ opened[x] = 0 /\ x[2] # accounts.pending /\ x[2] <= secrets
                                        /\ x \in RecoveryCodes /\ x[2] \in 1..MaxEnroll
    BY <1>0, Shapes DEF CodeInv, AccountRecords, hasAccount
  <1>2. CASE totpBeginEnroll
    <2> DEFINE a == [accounts EXCEPT !.pending = secrets + 1]
    <2>1. accounts' = a /\ secrets' = secrets + 1 /\ secrets + 1 \in 1..MaxEnroll
      BY <1>0, <1>2 DEF totpBeginEnroll, Enrolling
    <2>2. /\ a \in AccountRecords /\ a.pending = secrets + 1 /\ a.recovery = accounts.recovery
          /\ a.enabled = accounts.enabled /\ a.secret = accounts.secret
      BY <1>0, <2>1 DEF AccountRecords
    <2> HIDE DEF a
    <2>3. \A c \in Codes : opened[<<"recovery", a.pending, c>>] = 0
      BY <1>0, <2>1, <2>2 DEF CodeInv
    <2>4. \A x \in a.recovery : opened[x] = 0 /\ x[2] # a.pending /\ x[2] <= secrets'
      BY <1>0, <1>1, <2>1, <2>2
    <2>5. a.enabled => a.secret # 0
      BY <1>0, <2>2 DEF SecondFactorUsable
    <2>6. a.pending <= secrets' /\ secrets' \in 0..MaxEnroll /\ secrets <= secrets'
      BY <1>0, <2>1, <2>2
    <2>. QED BY <1>0, <2>1, <2>2, <2>3, <2>4, <2>5, <2>6, AccountStep
  <1>3. CASE totpConfirmEnroll
    <2> DEFINE new == {"recovery"} \X {accounts.pending} \X Codes
               a == [accounts EXCEPT !.secret = accounts.pending, !.enabled = TRUE, !.pending = 0, !.recovery = new]
    <2>1. accounts' = a /\ secrets' = secrets /\ accounts.pending \in 1..MaxEnroll
      BY <1>0, <1>1, <1>3 DEF totpConfirmEnroll
    <2>2. new \subseteq RecoveryCodes
      BY <2>1 DEF RecoveryCodes
    <2>3. \A x \in new : x[2] = accounts.pending /\ \E c \in Codes : x = <<"recovery", accounts.pending, c>>
      OBVIOUS
    <2> HIDE DEF new
    <2>4. a \in AccountRecords /\ a.pending = 0 /\ a.recovery = new /\ a.enabled /\ a.secret = accounts.pending
      <3>1. 0 \in 0..MaxEnroll
        BY <1>0
      <3>. QED BY <1>0, <1>1, <2>2, <3>1 DEF AccountRecords
    <2> HIDE DEF a
    <2>5. \A x \in a.recovery : opened[x] = 0 /\ x[2] # a.pending /\ x[2] <= secrets'
      BY <1>0, <1>1, <2>1, <2>3, <2>4
    <2>6. a.pending <= secrets' /\ secrets' \in 0..MaxEnroll /\ secrets <= secrets' /\ a.secret # 0
      BY <1>0, <2>1, <2>4
    <2>. QED BY <1>0, <2>1, <2>4, <2>5, <2>6, AccountStep
  <1>4. CASE totpDisable
    <2> DEFINE a == [accounts EXCEPT !.secret = 0, !.enabled = FALSE, !.pending = 0, !.recovery = {}]
    <2>1. accounts' = a /\ secrets' = secrets
      BY <1>4 DEF totpDisable
    <2>2. a \in AccountRecords /\ a.pending = 0 /\ a.recovery = {} /\ ~a.enabled
      <3>1. 0 \in 0..MaxEnroll
        BY <1>0
      <3>. QED BY <1>0, <3>1 DEF AccountRecords
    <2> HIDE DEF a
    <2>3. a.pending <= secrets' /\ secrets' \in 0..MaxEnroll /\ secrets <= secrets'
      BY <1>0, <2>1, <2>2
    <2>. QED BY <1>0, <2>1, <2>2, <2>3, AccountStep
  <1>. QED BY <1>2, <1>3, <1>4

\* A change of the passkeys or of the linked identity.
LEMMA Linked ==
  ASSUME IInv, NEW a \in AccountRecords, hasAccount, accounts' = a,
         a.enabled = accounts.enabled, a.secret = accounts.secret, a.pending = accounts.pending,
         a.recovery = accounts.recovery,
         secrets' = secrets, opened' = opened, fails' = fails, locked' = locked, regCh' = regCh,
         fresh' = fresh, pendingLogin' = pendingLogin, states' = states, awaiting' \subseteq awaiting
  PROVE  IInv'
  <1>1. TypeOK'
    BY DEF IInv, TypeOK
  <1>2. ProofInv' /\ OpensOnce'
    BY ProofsKept, OnceKept DEF IInv
  <1>3. CodeInv'
    BY DEF IInv, CodeInv, hasAccount
  <1>4. SecondFactorUsable'
    BY DEF IInv, SecondFactorUsable, hasAccount
  <1>. QED BY <1>1, <1>2, <1>3, <1>4 DEF IInv

---------------------------------------------------------------------------
(* Passkeys and the external provider.                                      *)

\* A challenge or a state that moves on: out of fresh into what is issued, or out of that into
\* what is awaited.
LEMMA Issues ==
  ASSUME IInv, (\E c \in Challenges : loginOptions(c)) \/ (\E s \in States : authorizeUrl(s))
  PROVE  IInv'
  <1>1. PICK c \in fresh : /\ fresh' = fresh \ {c}
                          /\ \/ c \in Challenges /\ pendingLogin' = pendingLogin \cup {c} /\ states' = states
                             \/ c \in States /\ states' = states \cup {c} /\ pendingLogin' = pendingLogin
    BY DEF loginOptions, authorizeUrl
  <1>2. /\ accounts' = accounts /\ secrets' = secrets /\ fails' = fails /\ locked' = locked /\ regCh' = regCh
        /\ awaiting' = awaiting /\ opened' = opened
    BY DEF loginOptions, authorizeUrl
  <1>3. TypeOK'
    BY <1>1, <1>2 DEF IInv, TypeOK
  <1>4. ProofInv'
    <2>1. opened[c] = 0 /\ ~Awaited(c)
      BY <1>1 DEF IInv, ProofInv
    <2>. QED BY <1>1, <1>2, <2>1 DEF IInv, ProofInv, Awaited
  <1>. QED BY <1>2, <1>3, <1>4, CodesKept, AccountKept, OnceKept DEF IInv

LEMMA Presents ==
  ASSUME IInv, NEW x \in Awaitable, NEW c, Asking(x), ProofOf(x) = c,
         \/ c \in pendingLogin /\ c \notin states /\ pendingLogin' = pendingLogin \ {c} /\ states' = states
         \/ c \in states /\ c \notin pendingLogin /\ states' = states \ {c} /\ pendingLogin' = pendingLogin,
         awaiting' = awaiting \cup {x},
         UNCHANGED <<accounts, secrets, fails, locked, regCh, fresh, opened>>
  PROVE  IInv'
  <1>1. /\ accounts' = accounts /\ secrets' = secrets /\ fails' = fails /\ locked' = locked /\ regCh' = regCh
        /\ fresh' = fresh /\ opened' = opened
    OBVIOUS
  <1>2. TypeOK'
    BY <1>1 DEF IInv, TypeOK
  <1>3. ProofInv'
    <2>1. opened[c] = 0 /\ ~Awaited(c) /\ c \notin fresh
      BY DEF IInv, ProofInv
    <2>2. pendingLogin' \cup states' \subseteq (pendingLogin \cup states) \ {c}
      OBVIOUS
    <2>3. \A d : Awaited(d)' => Awaited(d) \/ d = c
      BY DEF Awaited
    <2>4. \A d \in fresh' : opened'[d] = 0 /\ d \notin pendingLogin' /\ d \notin states' /\ ~Awaited(d)'
      BY <1>1, <2>1, <2>2, <2>3 DEF IInv, ProofInv
    <2>5. \A d \in pendingLogin' \cup states' : opened'[d] = 0 /\ ~Awaited(d)'
      BY <1>1, <2>2, <2>3 DEF IInv, ProofInv
    <2>6. \A y \in awaiting' : Asking(y) => opened'[ProofOf(y)] = 0
      BY <1>1, <2>1 DEF IInv, ProofInv
    <2>7. \A y, z \in awaiting' : Asking(y) /\ Asking(z) /\ ProofOf(y) = ProofOf(z) => y = z
      BY <2>1 DEF IInv, ProofInv, Awaited
    <2>. QED BY <2>4, <2>5, <2>6, <2>7 DEF ProofInv
  <1>. QED BY <1>1, <1>2, <1>3, CodesKept, AccountKept, OnceKept DEF IInv

\* What was awaited opens a session, and its proof is nowhere any more.
LEMMA Opens ==
  ASSUME IInv, NEW x \in awaiting, NEW c \in Challenges \cup States, Asking(x), ProofOf(x) = c,
         awaiting' = awaiting \ {x}, opened' = [opened EXCEPT ![c] = @ + 1],
         fails' \in [Keys -> 0..(MaxFails - 1)], locked' \in [Keys -> BOOLEAN],
         UNCHANGED <<accounts, secrets, regCh, pendingLogin, states, fresh>>
  PROVE  IInv'
  <1>1. /\ accounts' = accounts /\ secrets' = secrets /\ regCh' = regCh
        /\ pendingLogin' = pendingLogin /\ states' = states /\ fresh' = fresh
    OBVIOUS
  <1>2. c \in Proofs /\ opened[c] = 0 /\ Awaited(c)
    BY DEF Proofs, IInv, ProofInv, Awaited
  <1>3. OpensOnce' /\ opened' \in [Proofs -> Nat] /\ \A y \in Proofs : y # c => opened'[y] = opened[y]
    BY <1>2, Once DEF IInv
  <1>4. TypeOK'
    BY <1>1, <1>3 DEF IInv, TypeOK
  <1>5. ProofInv'
    <2>1. c \notin fresh /\ c \notin pendingLogin /\ c \notin states
      BY <1>2 DEF IInv, ProofInv
    <2>2. \A y \in awaiting' : Asking(y) => ProofOf(y) # c /\ ProofOf(y) \in Proofs
      <3>1. \A y \in awaiting : Asking(y) => ProofOf(y) \in Proofs
        BY Awaits DEF IInv, TypeOK, Proofs
      <3>. QED BY <3>1 DEF IInv, ProofInv
    <2>3. \A d \in fresh \cup pendingLogin \cup states : opened'[d] = opened[d]
      BY <1>3, <2>1 DEF IInv, TypeOK, Proofs
    <2>4. \A y \in awaiting' : Asking(y) => opened'[ProofOf(y)] = opened[ProofOf(y)]
      BY <1>3, <2>2
    <2>. QED BY <1>1, <2>3, <2>4 DEF IInv, ProofInv, Awaited
  <1>6. CodeInv'
    <2>1. \A y \in RecoveryCodes : opened'[y] = opened[y]
      BY <1>3, Shapes DEF Proofs
    <2>2. \A s \in 1..MaxEnroll, d \in Codes : <<"recovery", s, d>> \in RecoveryCodes
      BY Shapes
    <2>3. CASE ~hasAccount
      BY <1>1, <2>1, <2>2, <2>3 DEF IInv, CodeInv, hasAccount
    <2>4. CASE hasAccount
      <3>1. accounts \in AccountRecords /\ accounts.recovery \subseteq RecoveryCodes /\ accounts.pending \in 0..MaxEnroll
        BY <2>4 DEF IInv, TypeOK, hasAccount, AccountRecords
      <3>2. accounts.pending # 0 => accounts.pending \in 1..MaxEnroll
        BY <3>1, Bounds
      <3>. QED BY <1>1, <2>1, <2>2, <2>4, <3>1, <3>2 DEF IInv, CodeInv, hasAccount
    <2>. QED BY <2>3, <2>4
  <1>. QED BY <1>1, <1>3, <1>4, <1>5, <1>6, AccountKept DEF IInv

LEMMA Registers ==
  ASSUME IInv, \/ \E c \in Challenges : registerOptions(c)
               \/ \E k \in Passkeys : registerVerify(k) \/ registerDone(k) \/ removePasskey(k)
               \/ unlinkExternal
  PROVE  IInv'
  <1>0. /\ fails \in [Keys -> 0..(MaxFails - 1)] /\ locked \in [Keys -> BOOLEAN] /\ regCh \subseteq Challenges
        /\ awaiting \subseteq Awaitable /\ (hasAccount => accounts \in AccountRecords)
    BY DEF IInv, TypeOK, hasAccount
  <1>1. ASSUME NEW c \in Challenges, registerOptions(c) PROVE IInv'
    <2>1. regCh' \subseteq Challenges /\ fresh' \subseteq fresh
      BY <1>1 DEF registerOptions
    <2>2. /\ accounts' = accounts /\ secrets' = secrets /\ opened' = opened /\ fails' = fails
          /\ locked' = locked /\ pendingLogin' = pendingLogin /\ states' = states /\ awaiting' = awaiting
      BY <1>1 DEF registerOptions
    <2>. QED BY <1>0, <2>1, <2>2, QuietStep
  <1>2. ASSUME NEW k \in Passkeys, registerVerify(k) PROVE IInv'
    <2>1. awaiting' \subseteq Awaitable /\ \A x \in awaiting' : Asking(x) => x \in awaiting
      BY <1>0, <1>2, Awaits DEF registerVerify
    <2>2. /\ accounts' = accounts /\ secrets' = secrets /\ opened' = opened /\ fails' = fails
          /\ locked' = locked /\ pendingLogin' = pendingLogin /\ states' = states /\ fresh' = fresh /\ regCh' = {}
      BY <1>2 DEF registerVerify
    <2>. QED BY <1>0, <2>1, <2>2, QuietStep
  <1>3. ASSUME NEW k \in Passkeys, registerDone(k) PROVE IInv'
    <2>1. /\ secrets' = secrets /\ opened' = opened /\ fails' = fails /\ locked' = locked /\ regCh' = regCh
          /\ pendingLogin' = pendingLogin /\ states' = states /\ fresh' = fresh /\ awaiting' \subseteq awaiting
      BY <1>3 DEF registerDone
    <2>2. CASE UNCHANGED accounts
      BY <1>0, <2>1, <2>2, QuietStep
    <2>3. CASE hasAccount /\ accounts' = [accounts EXCEPT !.passkeys = @ \cup {k}]
      <3> DEFINE a == [accounts EXCEPT !.passkeys = @ \cup {k}]
      <3>1. /\ a \in AccountRecords /\ accounts' = a /\ a.enabled = accounts.enabled /\ a.secret = accounts.secret
            /\ a.pending = accounts.pending /\ a.recovery = accounts.recovery
        BY <1>0, <2>3 DEF AccountRecords
      <3> HIDE DEF a
      <3>. QED BY <2>1, <2>3, <3>1, Linked
    <2>. QED BY <1>3, <2>2, <2>3 DEF registerDone
  <1>4. ASSUME NEW k \in Passkeys, removePasskey(k) PROVE IInv'
    <2>1. /\ secrets' = secrets /\ opened' = opened /\ fails' = fails /\ locked' = locked /\ regCh' = regCh
          /\ pendingLogin' = pendingLogin /\ states' = states /\ fresh' = fresh /\ awaiting' = awaiting /\ hasAccount
      BY <1>4 DEF removePasskey, memory
    <2> DEFINE a == [accounts EXCEPT !.passkeys = @ \ {k}]
    <2>2. /\ a \in AccountRecords /\ accounts' = a /\ a.enabled = accounts.enabled /\ a.secret = accounts.secret
          /\ a.pending = accounts.pending /\ a.recovery = accounts.recovery
      BY <1>0, <1>4, <2>1 DEF AccountRecords, removePasskey
    <2> HIDE DEF a
    <2>. QED BY <2>1, <2>2, Linked
  <1>5. CASE unlinkExternal
    <2>1. /\ secrets' = secrets /\ opened' = opened /\ fails' = fails /\ locked' = locked /\ regCh' = regCh
          /\ pendingLogin' = pendingLogin /\ states' = states /\ fresh' = fresh /\ awaiting' = awaiting /\ hasAccount
      BY <1>5 DEF unlinkExternal, memory
    <2> DEFINE a == [accounts EXCEPT !.linked = FALSE]
    <2>2. /\ a \in AccountRecords /\ accounts' = a /\ a.enabled = accounts.enabled /\ a.secret = accounts.secret
          /\ a.pending = accounts.pending /\ a.recovery = accounts.recovery
      BY <1>0, <1>5, <2>1 DEF AccountRecords, unlinkExternal
    <2> HIDE DEF a
    <2>. QED BY <2>1, <2>2, Linked
  <1>. QED BY <1>1, <1>2, <1>3, <1>4, <1>5

LEMMA Verifies ==
  ASSUME IInv, NEW c \in Challenges, NEW k \in Passkeys, loginVerify(c, k) \/ loginVerified(c, k) PROVE IInv'
  <1> DEFINE x == [op |-> "login", key |-> k, challenge |-> c]
  <1>0. x \in Awaitable /\ Asking(x) /\ ProofOf(x) = c
    BY Awaits
  <1> HIDE DEF x
  <1>1. CASE loginVerify(c, k)
    <2>1. c \notin states
      BY Distinct DEF IInv, TypeOK
    <2>2. /\ c \in pendingLogin /\ pendingLogin' = pendingLogin \ {c} /\ awaiting' = awaiting \cup {x}
          /\ states' = states /\ UNCHANGED <<accounts, secrets, fails, locked, regCh, fresh, opened>>
      BY <1>1 DEF loginVerify, consumePending, x
    <2>. QED BY <1>0, <2>1, <2>2, Presents
  <1>2. CASE loginVerified(c, k)
    <2>0. "passkey" \in Keys /\ TypeOK
      BY DEF Keys, IInv
    <2>1. /\ x \in awaiting /\ awaiting' = awaiting \ {x}
          /\ UNCHANGED <<accounts, secrets, regCh, pendingLogin, states, fresh>>
          /\ \/ recordSuccess("passkey") /\ issueSession({"passkey"}, c)
             \/ recordFail("passkey") /\ UNCHANGED <<sessions, opened>>
      BY <1>2 DEF loginVerified, x
    <2>2. fails' \in [Keys -> 0..(MaxFails - 1)] /\ locked' \in [Keys -> BOOLEAN]
      BY <2>0, <2>1, Failed, Succeeded
    <2>3. CASE issueSession({"passkey"}, c)
      <3>1. opened' = [opened EXCEPT ![c] = @ + 1]
        BY <2>3 DEF issueSession, Proofs
      <3>. QED BY <1>0, <2>1, <2>2, <3>1, Opens
    <2>4. CASE UNCHANGED opened
      <3>1. awaiting' \subseteq Awaitable /\ regCh' \subseteq Challenges
        BY <2>0, <2>1 DEF TypeOK
      <3>. QED BY <2>1, <2>2, <2>4, <3>1, QuietStep
    <2>. QED BY <2>1, <2>3, <2>4
  <1>. QED BY <1>1, <1>2

LEMMA Exchanges ==
  ASSUME IInv, NEW s \in States, callback(s) \/ exchanged(s) PROVE IInv'
  <1> DEFINE x == [op |-> "exchange", state |-> s]
  <1>0. x \in Awaitable /\ Asking(x) /\ ProofOf(x) = s
    BY Awaits
  <1> HIDE DEF x
  <1>1. CASE callback(s)
    <2>1. s \notin pendingLogin
      BY Distinct DEF IInv, TypeOK
    <2>2. /\ s \in states /\ states' = states \ {s} /\ awaiting' = awaiting \cup {x}
          /\ pendingLogin' = pendingLogin /\ UNCHANGED <<accounts, secrets, fails, locked, regCh, fresh, opened>>
      BY <1>1 DEF callback, x
    <2>. QED BY <1>0, <2>1, <2>2, Presents
  <1>2. CASE exchanged(s)
    <2>0. /\ fails \in [Keys -> 0..(MaxFails - 1)] /\ locked \in [Keys -> BOOLEAN] /\ regCh \subseteq Challenges
          /\ awaiting \subseteq Awaitable /\ (hasAccount => accounts \in AccountRecords)
      BY DEF IInv, TypeOK, hasAccount
    <2>1. /\ x \in awaiting /\ awaiting' = awaiting \ {x}
          /\ secrets' = secrets /\ fails' = fails /\ locked' = locked /\ regCh' = regCh
          /\ pendingLogin' = pendingLogin /\ states' = states /\ fresh' = fresh
          /\ \/ UNCHANGED <<accounts, sessions, opened>>
             \/ SignedIn /\ linkExternal /\ UNCHANGED <<sessions, opened>>
             \/ findByExternal /\ issueSession({"ext"}, s) /\ UNCHANGED accounts
      BY <1>2 DEF exchanged, x
    <2>2. CASE UNCHANGED <<accounts, sessions, opened>>
      BY <2>0, <2>1, <2>2, QuietStep
    <2>3. CASE linkExternal /\ UNCHANGED opened
      <3> DEFINE a == [accounts EXCEPT !.linked = TRUE]
      <3>1. /\ a \in AccountRecords /\ accounts' = a /\ a.enabled = accounts.enabled /\ a.secret = accounts.secret
            /\ a.pending = accounts.pending /\ a.recovery = accounts.recovery /\ hasAccount
        BY <2>0, <2>3 DEF AccountRecords, linkExternal
      <3> HIDE DEF a
      <3>. QED BY <2>1, <2>3, <3>1, Linked
    <2>4. CASE issueSession({"ext"}, s) /\ UNCHANGED accounts
      <3>1. opened' = [opened EXCEPT ![s] = @ + 1]
        BY <2>4 DEF issueSession, Proofs
      <3>. QED BY <1>0, <2>0, <2>1, <2>4, <3>1, Opens
    <2>. QED BY <2>1, <2>2, <2>3, <2>4
  <1>. QED BY <1>1, <1>2

LEMMA Forgets == ASSUME IInv, Expire \/ Restart PROVE IInv'
  <1>1. /\ secrets' = secrets /\ opened' = opened /\ fresh' = fresh /\ awaiting' \subseteq awaiting
        /\ regCh' \subseteq regCh /\ pendingLogin' \subseteq pendingLogin /\ states' \subseteq states
        /\ accounts' = accounts \/ accounts' = NoAccount
    BY DEF Expire, Restart
  <1>2. fails' \in [Keys -> 0..(MaxFails - 1)] /\ locked' \in [Keys -> BOOLEAN]
    <2>1. 0 \in 0..(MaxFails - 1)
      BY Bounds
    <2>. QED BY <2>1 DEF IInv, TypeOK, Expire, Restart
  <1>3. regCh' \subseteq Challenges /\ awaiting' \subseteq Awaitable
    BY <1>1 DEF IInv, TypeOK
  <1>4. CASE accounts' = accounts
    BY <1>1, <1>2, <1>3, <1>4, QuietStep
  <1>5. CASE accounts' = NoAccount
    <2>1. TypeOK'
      BY <1>1, <1>2, <1>3, <1>5 DEF IInv, TypeOK
    <2>2. ProofInv' /\ OpensOnce'
      BY <1>1, ProofsKept, OnceKept DEF IInv
    <2>3. CodeInv' /\ SecondFactorUsable'
      BY <1>1, <1>5 DEF IInv, CodeInv, SecondFactorUsable, hasAccount
    <2>. QED BY <2>1, <2>2, <2>3 DEF IInv
  <1>. QED BY <1>1, <1>4, <1>5

---------------------------------------------------------------------------
(* The theorems.                                                            *)

LEMMA Initial == ASSUME Init PROVE IInv
  <1>1. TypeOK
    <2>1. 0 \in 0..MaxEnroll /\ 0 \in 0..(MaxFails - 1)
      BY Bounds
    <2>. QED BY <2>1 DEF Init, TypeOK
  <1>2. ProofInv
    BY DEF Init, ProofInv, Awaited, Proofs
  <1>3. CodeInv
    BY Shapes DEF Init, CodeInv, hasAccount, Proofs
  <1>4. SecondFactorUsable /\ OpensOnce
    BY DEF Init, SecondFactorUsable, OpensOnce, hasAccount
  <1>. QED BY <1>1, <1>2, <1>3, <1>4 DEF IInv

LEMMA Inductive == ASSUME IInv, [Next]_vars PROVE IInv'
  <1>1. CASE createAccount
    BY <1>1, Creates
  <1>2. CASE loginFails \/ loginVerifyFails \/ \E k \in Keys : lockExpires(k)
    BY <1>2, Counts
  <1>3. CASE \E code \in {NoCode} \cup TotpCodes \cup RecoveryCodes : login(code)
    BY <1>3, LogsIn
  <1>4. CASE totpBeginEnroll \/ totpConfirmEnroll \/ totpDisable
    BY <1>4, Enrolls
  <1>5. CASE \/ \E c \in Challenges : registerOptions(c)
             \/ \E k \in Passkeys : registerVerify(k) \/ registerDone(k) \/ removePasskey(k)
             \/ unlinkExternal
    BY <1>5, Registers
  <1>6. CASE (\E c \in Challenges : loginOptions(c)) \/ (\E s \in States : authorizeUrl(s))
    BY <1>6, Issues
  <1>7. CASE \E c \in Challenges, k \in Passkeys : loginVerify(c, k) \/ loginVerified(c, k)
    BY <1>7, Verifies
  <1>8. CASE \E s \in States : callback(s) \/ exchanged(s)
    BY <1>8, Exchanges
  <1>9. CASE Expire \/ Restart
    BY <1>9, Forgets
  <1>10. CASE UNCHANGED vars
    <2>1. /\ accounts' = accounts /\ secrets' = secrets /\ opened' = opened /\ fails' = fails /\ locked' = locked
          /\ regCh' = regCh /\ pendingLogin' = pendingLogin /\ states' = states /\ fresh' = fresh
          /\ awaiting' = awaiting
      BY <1>10 DEF vars
    <2>. QED BY <2>1, QuietStep DEF IInv, TypeOK
  <1>. QED BY <1>1, <1>2, <1>3, <1>4, <1>5, <1>6, <1>7, <1>8, <1>9, <1>10 DEF Next

LEMMA Invariant == Spec => []IInv
  <1>. QED BY Initial, Inductive, PTL DEF Spec

\* The state is as typed: an account file, attempts below the limit, and each challenge and
\* state where its kind belongs, whatever is lost in a restart.
THEOREM TypeCorrect == Spec => []TypeOK
  <1>1. IInv => TypeOK
    BY DEF IInv
  <1>. QED BY <1>1, Invariant, PTL

\* A recovery code, a passkey challenge and a sign-in state each open at most one session: a
\* challenge is gone before its check is awaited, a code before its session is issued, and an
\* enrollment confirmed anew, or an account begun anew, gets codes that never opened anything.
THEOREM OpenedOnce == Spec => []OpensOnce
  <1>1. IInv => OpensOnce
    BY DEF IInv
  <1>. QED BY <1>1, Invariant, PTL

\* An enrollment begun and never confirmed leaves the secret in use in place.
THEOREM FactorUsable == Spec => []SecondFactorUsable
  <1>1. IInv => SecondFactorUsable
    BY DEF IInv
  <1>. QED BY <1>1, Invariant, PTL
=============================================================================

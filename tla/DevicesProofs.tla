---------------------------- MODULE DevicesProofs ----------------------------
(* Proofs about the parts of MCDevices, for every value of its constants.    *)
EXTENDS MCDevices, SequenceTheorems, FiniteSetTheorems, WellFoundedInduction, TLAPS

---------------------------------------------------------------------------
(* A behaviour of the group is a behaviour of each of its parts.            *)

\* A step of the group is a step of a part or leaves its variables alone.
LEMMA Steps ==
  [Next]_vars =>
    /\ [Registry!Next]_registryVars /\ [Remote!Next]_shellsVars /\ [Dongle!Next]_dongleVars
    /\ [Net!Next]_netVars /\ [Screen!Next]_screenVars /\ [Room!Next]_roomVars
    /\ [Gateway!Next]_gatewayVars /\ [Talk!Next]_talkVars
  BY Zenon DEF Next, vars

\* Whatever is proved of the registry, a device's shells, its dongle, the mesh, ... on their own
\* holds where they are run together.
THEOREM EachOnItsOwn ==
  Spec => /\ Registry!Init /\ [][Registry!Next]_registryVars /\ Remote!Init /\ [][Remote!Next]_shellsVars
          /\ Dongle!Init /\ [][Dongle!Next]_dongleVars /\ Net!Init /\ [][Net!Next]_netVars
          /\ Screen!Init /\ [][Screen!Next]_screenVars /\ Room!Init /\ [][Room!Next]_roomVars
          /\ Gateway!Init /\ [][Gateway!Next]_gatewayVars /\ Talk!Init /\ [][Talk!Next]_talkVars
  <1>1. Init => /\ Registry!Init /\ Remote!Init /\ Dongle!Init /\ Net!Init /\ Screen!Init
                /\ Room!Init /\ Gateway!Init /\ Talk!Init
    BY Zenon DEF Init
  <1> QED
    BY <1>1, Steps, PTL DEF Spec

---------------------------------------------------------------------------
(* The device registry.                                                     *)

Callings == [at : {"idle", "health", "store", "bind"}, token : 0..MaxTokens, code : OnceCodes \cup {"none"}]

\* A code on its way to a credential is spent, in one request's hands, and was never redeemed.
CodesInv ==
  /\ redeemed \in [OnceCodes -> 0..1]
  /\ \A k \in OnceCodes :
       /\ registryCode[k] # "spent" => redeemed[k] = 0 /\ \A c \in Callers : caller[c].code # k
       /\ \A c \in Callers : caller[c].code = k => redeemed[k] = 0
       /\ \A c, d \in Callers : caller[c].code = k /\ caller[d].code = k => c = d

\* A token is at one place at a time: with the request that will bind it, in the row, or dropped.
TokensInv ==
  /\ tokens \in 0..MaxTokens /\ registryDropped \subseteq 1..tokens
  /\ row # Registry!Absent => row.hash \in 0..tokens /\ row.hash \notin registryDropped
  /\ \A c \in Callers :
       IF caller[c].at \in {"store", "bind"}
       THEN /\ caller[c].token \in 1..tokens /\ caller[c].token \notin registryDropped
            /\ row # Registry!Absent => row.hash # caller[c].token
            /\ \A d \in Callers : d # c => caller[d].token # caller[c].token
       ELSE caller[c].token = 0

RegistryTypes == Registry!TypeOK /\ deleting \in BOOLEAN /\ caller \in [Callers -> Callings]
RegistryInv == RegistryTypes /\ CodesInv /\ TokensInv

\* It holds at the start.
LEMMA RegistryInit == Registry!Init => RegistryInv
  <1> SUFFICES ASSUME Registry!Init PROVE RegistryInv
    OBVIOUS
  <1>1. MaxTokens \in Nat
    BY BoundsAssumption
  <1>2. CodesInv
    BY Nulls DEF Registry!Init, CodesInv, Registry!Idle
  <1>3. TokensInv
    BY <1>1 DEF Registry!Init, TokensInv, Registry!Idle
  <1>4. caller \in [Callers -> Callings] /\ \A c \in Callers : caller[c].at = "idle"
    BY <1>1 DEF Registry!Init, Callings, Registry!Idle
  <1>5. vault \in [token : 0..MaxTokens, sealed : BOOLEAN]
    BY <1>1 DEF Registry!Init
  <1>6. device = "absent" /\ row = Registry!Absent /\ deleting = FALSE
    BY DEF Registry!Init
  <1>7. registryCode \in [OnceCodes -> {"unminted", "live", "spent"}]
    BY DEF Registry!Init
  <1> QED BY <1>2, <1>3, <1>4, <1>5, <1>6, <1>7 DEF RegistryInv, RegistryTypes, Registry!TypeOK

\* What a step of a request makes of it.
LEMMA Recalled ==
  ASSUME NEW r \in Callings, NEW t
  PROVE  /\ [r EXCEPT !.at = "bind"] = [at |-> "bind", token |-> r.token, code |-> r.code]
         /\ [r EXCEPT !.at = "store", !.token = t] = [at |-> "store", token |-> t, code |-> r.code]
  <1>1. /\ [r EXCEPT !.at = "bind"] = [at |-> "bind", token |-> r.token, code |-> r.code]
        /\ [r EXCEPT !.at = "store"] = [at |-> "store", token |-> r.token, code |-> r.code]
    BY DEF Callings
  <1>2. [[at |-> "store", token |-> r.token, code |-> r.code] EXCEPT !.token = t]
          = [at |-> "store", token |-> t, code |-> r.code]
    OBVIOUS
  <1>3. [r EXCEPT !.at = "store", !.token = t] = [[r EXCEPT !.at = "store"] EXCEPT !.token = t]
    OBVIOUS
  <1> QED BY Zenon, <1>1, <1>2, <1>3

\* A caller that goes on, field by field.
LEMMA CallerSteps ==
  ASSUME caller \in [Callers -> Callings], NEW c \in Callers, NEW t
  PROVE  /\ [caller EXCEPT ![c].at = "bind"]
              = [caller EXCEPT ![c] = [at |-> "bind", token |-> caller[c].token, code |-> caller[c].code]]
         /\ [caller EXCEPT ![c].at = "store", ![c].token = t]
              = [caller EXCEPT ![c] = [at |-> "store", token |-> t, code |-> caller[c].code]]
  <1> DEFINE r == caller[c]
  <1>1. r \in Callings
    OBVIOUS
  <1>2. /\ [caller EXCEPT ![c].at = "bind"] = [caller EXCEPT ![c] = [r EXCEPT !.at = "bind"]]
        /\ [caller EXCEPT ![c].at = "store", ![c].token = t]
             = [caller EXCEPT ![c] = [r EXCEPT !.at = "store", !.token = t]]
    OBVIOUS
  <1> HIDE DEF r
  <1> QED BY <1>1, <1>2, Recalled DEF r

\* What a caller may be doing next.
LEMMA CallingTypes ==
  ASSUME caller \in [Callers -> Callings], NEW c \in Callers, MaxTokens \in Nat
  PROVE  /\ Registry!Idle \in Callings /\ caller[c].token \in 0..MaxTokens
         /\ \A at \in {"store", "bind"}, t \in 0..MaxTokens :
              [at |-> at, token |-> t, code |-> caller[c].code] \in Callings
  <1>1. Registry!Idle \in Callings
    BY DEF Callings, Registry!Idle
  <1>2. ASSUME NEW r \in Callings
        PROVE  /\ r.token \in 0..MaxTokens
               /\ \A at \in {"store", "bind"}, t \in 0..MaxTokens :
                    [at |-> at, token |-> t, code |-> r.code] \in Callings
    BY DEF Callings
  <1> QED BY <1>1, <1>2

\* What the vault can hold, and what a request takes from it.
LEMMA RegistryTypesStep == RegistryTypes /\ TokensInv /\ [Registry!Next]_registryVars => RegistryTypes'
  <1> SUFFICES ASSUME RegistryTypes, TokensInv, [Registry!Next]_registryVars PROVE RegistryTypes'
    OBVIOUS
  <1> USE DEF RegistryTypes, Registry!TypeOK
  <1>0. MaxTokens \in Nat /\ tokens \in 0..MaxTokens
    BY BoundsAssumption DEF TokensInv
  <1>1. CASE Registry!create \/ Registry!remove \/ Registry!removeTransport
    BY <1>1 DEF Registry!create, Registry!remove, Registry!removeTransport
  <1>2. CASE Registry!revoke
    BY <1>0, <1>2 DEF Registry!revoke, Registry!RevokedRow, Registry!Row
  <1>3. ASSUME NEW status \in {"active", "retired"}, Registry!update(status) PROVE RegistryTypes'
    BY <1>3 DEF Registry!update
  <1>4. ASSUME NEW b \in BOOLEAN, Registry!upsert(b) PROVE RegistryTypes'
    BY <1>0, <1>4 DEF Registry!upsert, Registry!Upserted, Registry!Row
  <1>5. ASSUME NEW k \in OnceCodes, Registry!mintCode(k) \/ Registry!expireCode(k) PROVE RegistryTypes'
    BY <1>5 DEF Registry!mintCode, Registry!expireCode
  <1>6. ASSUME NEW c \in Callers, NEW k \in OnceCodes \cup {"none"}, Registry!Begin(c, k),
               registryCode' \in [OnceCodes -> {"unminted", "live", "spent"}]
        PROVE  RegistryTypes'
    <2>1. caller' \in [Callers -> Callings]
      BY <1>0, <1>6 DEF Registry!Begin, Callings
    <2>2. \A d \in Callers : caller'[d].at \in {"idle", "health", "store", "bind"}
      BY <2>1 DEF Callings
    <2> QED BY <1>0, <1>6, <2>1, <2>2 DEF Registry!Begin, Registry!Row
  <1>7. ASSUME NEW c \in Callers, NEW k \in OnceCodes, Registry!redeem(c, k) PROVE RegistryTypes'
    BY <1>6, <1>7 DEF Registry!redeem
  <1>8. ASSUME NEW c \in Callers, Registry!issue(c) PROVE RegistryTypes'
    BY <1>6, <1>8 DEF Registry!issue
  <1>9. ASSUME NEW c \in Callers, NEW r \in Callings, caller' = [caller EXCEPT ![c] = r],
               UNCHANGED <<device, row, registryCode, deleting>>,
               vault' \in [token : 0..MaxTokens, sealed : BOOLEAN]
        PROVE  RegistryTypes'
    <2>1. caller' \in [Callers -> Callings]
      BY <1>9
    <2> QED BY <1>9, <2>1 DEF Callings
  <1>10. ASSUME NEW c \in Callers, Registry!Checked(c) PROVE RegistryTypes'
    <2>1. \/ caller' = [caller EXCEPT ![c] = Registry!Idle]
          \/ /\ caller' = [caller EXCEPT ![c].at = "store", ![c].token = tokens + 1]
             /\ tokens + 1 \in 0..MaxTokens
      BY <1>0, <1>10 DEF Registry!Checked
    <2>2. UNCHANGED <<device, row, registryCode, deleting, vault>>
      BY <1>10 DEF Registry!Checked
    <2>3. CASE caller' = [caller EXCEPT ![c] = Registry!Idle]
      BY <1>0, <1>9, <2>2, <2>3, CallingTypes
    <2>4. CASE /\ caller' = [caller EXCEPT ![c].at = "store", ![c].token = tokens + 1]
               /\ tokens + 1 \in 0..MaxTokens
      <3>1. caller' = [caller EXCEPT ![c] = [at |-> "store", token |-> tokens + 1, code |-> caller[c].code]]
        BY <2>4, CallerSteps
      <3> QED BY <1>0, <1>9, <2>2, <2>4, <3>1, CallingTypes
    <2> QED BY <2>1, <2>3, <2>4
  <1>11. ASSUME NEW c \in Callers, Registry!Stores(c) PROVE RegistryTypes'
    <2>1. vault' \in [token : 0..MaxTokens, sealed : BOOLEAN]
      BY <1>0, <1>11, CallingTypes DEF Registry!Stores
    <2>2. UNCHANGED <<device, row, registryCode, deleting>>
      BY <1>11 DEF Registry!Stores
    <2>3. CASE caller' = [caller EXCEPT ![c] = Registry!Idle]
      BY <1>0, <1>9, <2>1, <2>2, <2>3, CallingTypes
    <2>4. CASE caller' = [caller EXCEPT ![c].at = "bind"]
      <3>1. caller' = [caller EXCEPT ![c] = [at |-> "bind", token |-> caller[c].token, code |-> caller[c].code]]
        BY <2>4, CallerSteps
      <3> QED BY <1>0, <1>9, <2>1, <2>2, <3>1, CallingTypes
    <2> QED BY <1>11, <2>3, <2>4 DEF Registry!Stores
  <1>12. ASSUME NEW c \in Callers, Registry!bindCredential(c) PROVE RegistryTypes'
    <2>1. Registry!Idle \in Callings /\ caller[c].token \in 0..MaxTokens
      BY <1>0, CallingTypes
    <2>2. caller' \in [Callers -> Callings]
      BY <1>12, <2>1 DEF Registry!bindCredential
    <2>3. \A d \in Callers : caller'[d].at \in {"idle", "health", "store", "bind"}
      BY <2>2 DEF Callings
    <2> QED BY <1>12, <2>1, <2>2, <2>3 DEF Registry!bindCredential, Registry!Row
  <1>13. CASE Registry!Seal
    BY <1>13 DEF Registry!Seal
  <1>14. CASE Registry!VaultDeletes
    <2>1. vault' \in [token : 0..MaxTokens, sealed : BOOLEAN]
      BY <1>0, <1>14 DEF Registry!VaultDeletes
    <2> QED BY <1>14, <2>1 DEF Registry!VaultDeletes
  <1>15. CASE Registry!Restart
    <2>1. caller' \in [Callers -> Callings] /\ \A d \in Callers : caller'[d].at = "idle"
      BY <1>0, <1>15 DEF Registry!Restart, Callings, Registry!Idle
    <2> QED BY <1>15, <2>1 DEF Registry!Restart
  <1>16. CASE UNCHANGED registryVars
    BY <1>16 DEF registryVars
  <1> QED
    BY <1>1, <1>2, <1>3, <1>4, <1>5, <1>7, <1>8, <1>10, <1>11, <1>12, <1>13, <1>14, <1>15, <1>16
       DEF Registry!Next

\* A code is handed to one request only, and its redemption ends with the request.
LEMMA CodesStep == CodesInv /\ RegistryTypes /\ [Registry!Next]_registryVars => CodesInv'
  <1> SUFFICES ASSUME CodesInv, RegistryTypes, [Registry!Next]_registryVars PROVE CodesInv'
    OBVIOUS
  <1>0. MaxTokens \in Nat /\ caller \in [Callers -> Callings]
        /\ registryCode \in [OnceCodes -> {"unminted", "live", "spent"}]
    BY BoundsAssumption DEF RegistryTypes, Registry!TypeOK
  <1>1. CASE UNCHANGED <<caller, redeemed, registryCode>>
    BY <1>1 DEF CodesInv
  <1>2. CASE Registry!remove \/ \E k \in OnceCodes : Registry!mintCode(k) \/ Registry!expireCode(k)
    <2>1. /\ UNCHANGED <<caller, redeemed>>
          /\ \A k \in OnceCodes : registryCode[k] = "spent" => registryCode'[k] = "spent"
      BY <1>0, <1>2 DEF Registry!remove, Registry!mintCode, Registry!expireCode
    <2> QED BY <2>1 DEF CodesInv
  <1>3. ASSUME NEW c \in Callers, NEW k \in OnceCodes, Registry!redeem(c, k) PROVE CodesInv'
    <2>1. /\ registryCode' = [registryCode EXCEPT ![k] = "spent"] /\ registryCode[k] = "live"
          /\ caller' = [caller EXCEPT ![c] = [at |-> "health", token |-> 0, code |-> k]]
          /\ UNCHANGED redeemed
      BY <1>3 DEF Registry!redeem, Registry!Begin, Registry!Usable
    <2> QED BY <1>0, <2>1 DEF CodesInv
  <1>4. ASSUME NEW c \in Callers, Registry!issue(c) PROVE CodesInv'
    <2>1. /\ caller' = [caller EXCEPT ![c] = [at |-> "health", token |-> 0, code |-> "none"]]
          /\ UNCHANGED <<redeemed, registryCode>>
      BY <1>4 DEF Registry!issue, Registry!Begin
    <2> QED BY <1>0, <2>1, Nulls DEF CodesInv
  <1>5. ASSUME NEW c \in Callers, caller' = [caller EXCEPT ![c] = Registry!Idle],
               UNCHANGED <<registryCode, redeemed>>
        PROVE  CodesInv'
    BY <1>0, <1>5, Nulls DEF CodesInv, Registry!Idle
  <1>6. ASSUME NEW c \in Callers, NEW at, NEW t, UNCHANGED <<registryCode, redeemed>>,
               caller' = [caller EXCEPT ![c] = [at |-> at, token |-> t, code |-> caller[c].code]]
        PROVE  CodesInv'
    BY <1>0, <1>6 DEF CodesInv
  <1>7. ASSUME NEW c \in Callers, Registry!Checked(c) \/ Registry!Stores(c) PROVE CodesInv'
    <2>1. UNCHANGED <<registryCode, redeemed>>
      BY <1>7 DEF Registry!Checked, Registry!Stores
    <2>2. CASE caller' = [caller EXCEPT ![c] = Registry!Idle]
      BY <1>5, <2>1, <2>2
    <2>3. CASE caller' = [caller EXCEPT ![c].at = "bind"]
      <3>1. caller' = [caller EXCEPT ![c] = [at |-> "bind", token |-> caller[c].token, code |-> caller[c].code]]
        BY <1>0, <2>3, CallerSteps
      <3> QED BY <1>6, <2>1, <3>1
    <2>4. CASE caller' = [caller EXCEPT ![c].at = "store", ![c].token = tokens + 1]
      <3>1. caller' = [caller EXCEPT ![c] = [at |-> "store", token |-> tokens + 1, code |-> caller[c].code]]
        BY <1>0, <2>4, CallerSteps
      <3> QED BY <1>6, <2>1, <3>1
    <2> QED BY <1>7, <2>2, <2>3, <2>4 DEF Registry!Checked, Registry!Stores
  <1>8. ASSUME NEW c \in Callers, Registry!bindCredential(c) PROVE CodesInv'
    <2>1. /\ caller' = [caller EXCEPT ![c] = Registry!Idle] /\ UNCHANGED registryCode
          /\ redeemed' = [k \in OnceCodes |-> redeemed[k] + (IF caller[c].code = k THEN 1 ELSE 0)]
      BY <1>8 DEF Registry!bindCredential
    <2> QED BY <1>0, <2>1, Nulls DEF CodesInv, Registry!Idle
  <1>9. CASE Registry!Restart
    <2>1. (\A c \in Callers : caller'[c].code = "none") /\ UNCHANGED <<redeemed, registryCode>>
      BY <1>9 DEF Registry!Restart, Registry!Idle
    <2> QED BY <2>1, Nulls DEF CodesInv
  <1> QED
    BY <1>1, <1>2, <1>3, <1>4, <1>7, <1>8, <1>9 DEF Registry!Next, Registry!create,
       Registry!removeTransport, Registry!revoke, Registry!update, Registry!upsert, Registry!Seal,
       Registry!VaultDeletes, registryVars

\* A token a revoke took out of the row is in nobody's hands.
LEMMA TokensStep == TokensInv /\ RegistryTypes /\ [Registry!Next]_registryVars => TokensInv'
  <1> SUFFICES ASSUME TokensInv, RegistryTypes, [Registry!Next]_registryVars PROVE TokensInv'
    OBVIOUS
  <1>0. /\ MaxTokens \in Nat /\ caller \in [Callers -> Callings]
        /\ row = Registry!Absent \/ row \in [hash : 0..MaxTokens, enabled : BOOLEAN, revoked : BOOLEAN]
    BY BoundsAssumption DEF RegistryTypes, Registry!TypeOK
  <1>1. ASSUME UNCHANGED <<caller, tokens, registryDropped>>,
               row' # Registry!Absent => \/ row # Registry!Absent /\ row'.hash = row.hash
                                         \/ row'.hash = 0
        PROVE  TokensInv'
    BY <1>0, <1>1 DEF TokensInv
  <1>2. CASE Registry!revoke
    <2>1. /\ row # Registry!Absent /\ row' = Registry!Row(0, FALSE, TRUE) /\ row'.hash = 0
          /\ registryDropped' = registryDropped \cup ({row.hash} \ {0})
          /\ UNCHANGED <<caller, tokens>>
      BY <1>2 DEF Registry!revoke, Registry!RevokedRow, Registry!Row
    <2>0. MaxTokens \in Nat /\ row # Registry!Absent /\ row'.hash = 0
          /\ registryDropped' = registryDropped \cup ({row.hash} \ {0})
      BY <1>0, <2>1
    <2>2. registryDropped' \subseteq 1..tokens
      <3>1. row.hash \in 0..tokens /\ registryDropped \subseteq 1..tokens /\ tokens \in Nat
        BY <1>0, <2>1 DEF TokensInv
      <3>2. row.hash # 0 => row.hash \in 1..tokens
        BY <3>1
      <3> QED BY Zenon, <2>0, <3>1, <3>2
    <2>3. tokens \in 0..MaxTokens /\ 0 \in 0..tokens /\ 0 \notin registryDropped'
      BY <2>0, <2>2 DEF TokensInv
    <2>4. ASSUME NEW c \in Callers
          PROVE  IF caller[c].at \in {"store", "bind"}
                 THEN /\ caller[c].token \in 1..tokens /\ caller[c].token \notin registryDropped'
                      /\ row' # Registry!Absent => row'.hash # caller[c].token
                      /\ \A d \in Callers : d # c => caller[d].token # caller[c].token
                 ELSE caller[c].token = 0
      BY <2>0, <2>3 DEF TokensInv
    <2> QED BY <2>1, <2>2, <2>3, <2>4 DEF TokensInv
  <1>3. ASSUME NEW b \in BOOLEAN, Registry!upsert(b) PROVE TokensInv'
    <2>1. row # Registry!Absent => row'.hash = row.hash
      BY <1>0, <1>3 DEF Registry!upsert, Registry!Upserted
    <2>2. row = Registry!Absent => row'.hash = 0
      BY <1>3 DEF Registry!upsert, Registry!Upserted, Registry!Row
    <2> QED BY <1>1, <1>3, <2>1, <2>2 DEF Registry!upsert
  <1>4. ASSUME NEW c \in Callers, NEW k, Registry!Begin(c, k) PROVE TokensInv'
    <2>1. /\ caller' = [caller EXCEPT ![c] = [at |-> "health", token |-> 0, code |-> k]]
          /\ row' # Registry!Absent => \/ row # Registry!Absent /\ row'.hash = row.hash
                                       \/ row'.hash = 0
          /\ caller[c] = Registry!Idle /\ UNCHANGED <<tokens, registryDropped>>
      BY <1>4 DEF Registry!Begin, Registry!Row
    <2> QED BY <1>0, <2>1 DEF TokensInv
  <1>5. ASSUME NEW c \in Callers, caller' = [caller EXCEPT ![c] = Registry!Idle],
               UNCHANGED <<row, tokens, registryDropped>>
        PROVE  TokensInv'
    BY <1>0, <1>5 DEF TokensInv, Registry!Idle
  <1>6. ASSUME NEW c \in Callers, Registry!Checked(c) PROVE TokensInv'
    <2>1. CASE caller' = [caller EXCEPT ![c] = Registry!Idle] /\ UNCHANGED tokens
      BY <1>5, <1>6, <2>1 DEF Registry!Checked
    <2>2. CASE /\ tokens' = tokens + 1
               /\ caller' = [caller EXCEPT ![c].at = "store", ![c].token = tokens + 1]
      <3>1. caller' = [caller EXCEPT ![c] = [at |-> "store", token |-> tokens + 1, code |-> caller[c].code]]
        BY <1>0, <2>2, CallerSteps
      <3>2. tokens + 1 \in 1..MaxTokens /\ UNCHANGED <<row, registryDropped>>
        BY <1>0, <1>6 DEF Registry!Checked, TokensInv
      <3>3. \A d \in Callers : caller[d].token \in 0..tokens
        BY <1>0 DEF TokensInv
      <3> QED BY <1>0, <2>2, <3>1, <3>2, <3>3 DEF TokensInv
    <2> QED BY <1>6, <2>1, <2>2 DEF Registry!Checked
  <1>7. ASSUME NEW c \in Callers, Registry!Stores(c) PROVE TokensInv'
    <2>1. CASE caller' = [caller EXCEPT ![c] = Registry!Idle]
      BY <1>5, <1>7, <2>1 DEF Registry!Stores
    <2>2. CASE caller' = [caller EXCEPT ![c].at = "bind"]
      <3>1. caller' = [caller EXCEPT ![c] = [at |-> "bind", token |-> caller[c].token, code |-> caller[c].code]]
        BY <1>0, <2>2, CallerSteps
      <3>2. caller[c].at = "store" /\ UNCHANGED <<row, tokens, registryDropped>>
        BY <1>7 DEF Registry!Stores
      <3> QED BY <1>0, <3>1, <3>2 DEF TokensInv
    <2> QED BY <1>7, <2>1, <2>2 DEF Registry!Stores
  <1>8. ASSUME NEW c \in Callers, Registry!bindCredential(c) PROVE TokensInv'
    <2>1. /\ caller[c].at = "bind" /\ caller' = [caller EXCEPT ![c] = Registry!Idle]
          /\ row' # Registry!Absent => row'.hash = caller[c].token
          /\ UNCHANGED <<tokens, registryDropped>>
      BY <1>8 DEF Registry!bindCredential, Registry!Row
    <2> QED BY <1>0, <2>1 DEF TokensInv, Registry!Idle
  <1>9. CASE Registry!Restart
    <2>1. /\ \A c \in Callers : caller'[c].at = "idle" /\ caller'[c].token = 0
          /\ UNCHANGED <<row, tokens, registryDropped>>
      BY <1>9 DEF Registry!Restart, Registry!Idle
    <2> QED BY <1>0, <2>1 DEF TokensInv
  <1>10. CASE Registry!remove \/ Registry!removeTransport
    BY <1>1, <1>10 DEF Registry!remove, Registry!removeTransport
  <1>11. CASE UNCHANGED <<row, caller, tokens, registryDropped>>
    BY <1>1, <1>11
  <1> QED
    BY <1>2, <1>3, <1>4, <1>6, <1>7, <1>8, <1>9, <1>10, <1>11 DEF Registry!Next, Registry!create,
       Registry!update, Registry!mintCode, Registry!expireCode, Registry!redeem, Registry!issue,
       Registry!Seal, Registry!VaultDeletes, registryVars

\* A step keeps it.
LEMMA RegistryStep == RegistryInv /\ [Registry!Next]_registryVars => RegistryInv'
  BY RegistryTypesStep, CodesStep, TokensStep DEF RegistryInv

\* A code becomes at most one credential, and a token that a revoke dropped never works again: for any
\* number of codes, machines and tokens, whatever the vault answers and whenever the core dies.
THEOREM OneCredential ==
  Spec => [](Registry!TypeOK /\ Registry!OneCredentialPerCode /\ Registry!DroppedStaysDropped)
  <1>1. RegistryInv => Registry!TypeOK /\ Registry!OneCredentialPerCode /\ Registry!DroppedStaysDropped
    BY DEF RegistryInv, RegistryTypes, CodesInv, TokensInv, Registry!OneCredentialPerCode,
       Registry!DroppedStaysDropped, Registry!Accepted
  <1> QED BY <1>1, RegistryInit, RegistryStep, EachOnItsOwn, PTL

---------------------------------------------------------------------------
(* Sequences and numbers.                                                   *)

\* What is left of a sequence, one element later.
LEMMA Suffixes ==
  ASSUME NEW S, NEW s \in Seq(S), NEW c \in S, NEW n \in 1..(Len(s) + 1)
  PROVE  /\ Append(SubSeq(s, n, Len(s)), c) = SubSeq(Append(s, c), n, Len(Append(s, c)))
         /\ n <= Len(s) => Tail(SubSeq(s, n, Len(s))) = SubSeq(s, n + 1, Len(s))
         /\ Len(SubSeq(s, n, Len(s))) = Len(s) + 1 - n /\ SubSeq(s, n, Len(s)) \in Seq(S)
         /\ SubSeq(s, Len(s) + 1, Len(s)) = <<>>
  <1>1. /\ Len(SubSeq(s, n, Len(s))) = Len(s) + 1 - n
        /\ \A i \in 1..(Len(s) + 1 - n) : SubSeq(s, n, Len(s))[i] = s[n + i - 1]
        /\ SubSeq(s, n, Len(s)) \in Seq(S)
    BY SubSeqProperties
  <1>2. Append(SubSeq(s, n, Len(s)), c) = SubSeq(Append(s, c), n, Len(Append(s, c)))
    OBVIOUS
  <1>3. n <= Len(s) => Tail(SubSeq(s, n, Len(s))) = SubSeq(s, n + 1, Len(s))
    OBVIOUS
  <1>4. SubSeq(s, Len(s) + 1, Len(s)) = <<>>
    OBVIOUS
  <1> QED BY <1>1, <1>2, <1>3, <1>4

\* A set of naturals that is not empty has a least one.
LEMMA Least == \A S \in SUBSET Nat : S # {} => \E m \in S : \A n \in S : m <= n
  <1> SUFFICES ASSUME NEW S \in SUBSET Nat, S # {} PROVE \E m \in S : \A n \in S : m <= n
    OBVIOUS
  <1> DEFINE R == OpToRel(<, Nat)
  <1>1. IsWellFoundedOn(R, Nat)
    BY NatLessThanWellFounded
  <1>2. \A n, m \in Nat : n < m => <<n, m>> \in R
    BY DEF OpToRel
  <1> HIDE DEF R
  <1>3. PICK m \in S : \A n \in S : ~(<<n, m>> \in R)
    BY <1>1, WFMin
  <1>4. \A n \in S : ~(n < m)
    BY <1>2, <1>3
  <1> QED
    BY <1>4

---------------------------------------------------------------------------
(* Shells on a device.                                                      *)

\* The end of a shell's output, whole or as long as a full scrollback.
Ending(text, w) == \E n \in 1..(Len(text) + 1) :
  w = SubSeq(text, n, Len(text)) /\ (n > 1 => Len(w) >= Scrollback)

Chunks == [n : Nat, by : Principals]

ShellsInv ==
  /\ Remote!TypeOK /\ printed \in Seq(Chunks)
  /\ Ending(printed, buffer)
  /\ watching = Remote!NoWatcher \/ \E w : watching = <<w>> /\ Ending(printed, w)

\* It holds at the start.
LEMMA ShellsInit == Remote!Init => ShellsInv
  <1> SUFFICES ASSUME Remote!Init PROVE ShellsInv
    OBVIOUS
  <1>1. Scrollback \in Nat
    BY BoundsAssumption
  <1>2. Remote!TypeOK
    BY <1>1 DEF Remote!Init, Remote!TypeOK
  <1>3. printed = <<>> /\ buffer = <<>> /\ watching = Remote!NoWatcher
    BY DEF Remote!Init
  <1>4. Ending(printed, buffer)
    BY <1>3 DEF Ending
  <1> QED BY <1>2, <1>3, <1>4 DEF ShellsInv

\* A step keeps it.
LEMMA ShellsStep == ShellsInv /\ [Remote!Next]_shellsVars => ShellsInv'
  <1> SUFFICES ASSUME ShellsInv, [Remote!Next]_shellsVars PROVE ShellsInv'
    OBVIOUS
  <1>0. Scrollback \in Nat \ {0}
    BY BoundsAssumption
  <1> USE <1>0 DEF ShellsInv
  <1>1. ASSUME UNCHANGED <<printed, buffer, watching>>, Remote!TypeOK' PROVE ShellsInv'
    BY <1>1 DEF Ending
  <1>2. ASSUME NEW p \in Principals, Remote!update(p) PROVE ShellsInv'
    BY <1>1, <1>2 DEF Remote!update, Remote!ensureOwnerGrants, Remote!TypeOK
  <1>3. ASSUME NEW p \in Principals, NEW e, Remote!grant(p, e) PROVE ShellsInv'
    BY <1>1, <1>3 DEF Remote!grant, Remote!TypeOK
  <1>4. ASSUME NEW p \in Principals, Remote!revokeGrant(p) PROVE ShellsInv'
    BY <1>1, <1>4 DEF Remote!revokeGrant, Remote!TypeOK
  <1>5. CASE Remote!setTransport \/ Remote!revoke
    BY <1>1, <1>5 DEF Remote!setTransport, Remote!revoke, Remote!TypeOK
  <1>6. ASSUME NEW s \in Shells, NEW p \in Principals, Remote!open(s, p) \/ Remote!run(s, p)
        PROVE  ShellsInv'
    BY <1>1, <1>6 DEF Remote!open, Remote!run, Remote!TypeOK
  <1>7. ASSUME NEW s \in Shells, Remote!opened(s) \/ Remote!close(s) \/ Remote!closeSession(s)
        PROVE  ShellsInv'
    BY <1>1, <1>7 DEF Remote!opened, Remote!close, Remote!closeSession, Remote!TypeOK
  <1>8. ASSUME NEW s \in Shells, NEW p \in Principals, Remote!write(s, p) PROVE ShellsInv'
    <2> DEFINE chunk == [n |-> Len(printed) + 1, by |-> p]
    <2>1. /\ chunk \in Chunks /\ printed' = Append(printed, chunk)
          /\ buffer' = Remote!Trimmed(Append(buffer, chunk))
          /\ watching' = IF watching = Remote!NoWatcher THEN Remote!NoWatcher
                         ELSE <<Append(watching[1], chunk)>>
          /\ UNCHANGED <<owner, enabled, allow, forbid, shell, by, audit>>
      BY <1>8 DEF Remote!write, Chunks
    <2> HIDE DEF chunk
    <2>2. printed' \in Seq(Chunks) /\ Len(printed') = Len(printed) + 1
      BY <2>1, AppendProperties
    <2>3. ASSUME NEW w, Ending(printed, w)
          PROVE  /\ Ending(printed', Append(w, chunk)) /\ w \in Seq(Chunks)
                 /\ Len(Append(w, chunk)) = Len(w) + 1
                 /\ Len(w) = Scrollback => Ending(printed', Tail(Append(w, chunk)))
      <3>1. PICK n \in 1..(Len(printed) + 1) :
              w = SubSeq(printed, n, Len(printed)) /\ (n > 1 => Len(w) >= Scrollback)
        BY <2>3 DEF Ending
      <3>2. w \in Seq(Chunks) /\ Len(w) = Len(printed) + 1 - n
        BY <2>1, <3>1, Suffixes
      <3>3. Append(w, chunk) = SubSeq(printed', n, Len(printed')) /\ n \in 1..(Len(printed') + 1)
        BY <2>1, <2>2, <3>1, Suffixes
      <3>4. Len(Append(w, chunk)) = Len(w) + 1
        BY <2>1, <3>2
      <3>5. Ending(printed', Append(w, chunk))
        BY <3>1, <3>3, <3>4, <3>2 DEF Ending
      <3>6. ASSUME Len(w) = Scrollback PROVE Ending(printed', Tail(Append(w, chunk)))
        <4>1. n <= Len(printed') /\ n + 1 \in 1..(Len(printed') + 1)
          BY <2>2, <3>1, <3>2, <3>6
        <4>2. Tail(Append(w, chunk)) = SubSeq(printed', n + 1, Len(printed'))
          BY <2>1, <2>2, <3>3, <4>1, Suffixes
        <4>3. Len(Tail(Append(w, chunk))) >= Scrollback
          BY <2>1, <3>2, <3>6
        <4>4. ASSUME NEW t, NEW m \in 1..(Len(printed') + 1), t = SubSeq(printed', m, Len(printed')),
                     Len(t) >= Scrollback
              PROVE  Ending(printed', t)
          BY <4>4 DEF Ending
        <4> QED BY Zenon, <4>1, <4>2, <4>3, <4>4
      <3> QED BY <3>2, <3>4, <3>5, <3>6
    <2>4. Ending(printed', buffer') /\ Len(buffer') <= Scrollback
      <3>1. Len(buffer) <= Scrollback /\ Len(buffer) \in Nat
        BY <2>3 DEF Remote!TypeOK
      <3>2. CASE Len(buffer) < Scrollback
        <4>1. buffer' = Append(buffer, chunk)
          BY <2>1, <2>3, <3>1, <3>2 DEF Remote!Trimmed
        <4>2. Len(buffer') <= Scrollback
          BY <2>3, <3>1, <3>2, <4>1
        <4> QED BY <2>3, <3>1, <4>1, <4>2
      <3>3. CASE Len(buffer) = Scrollback
        <4>1. buffer' = Tail(Append(buffer, chunk))
          BY <2>1, <2>3, <3>1, <3>3 DEF Remote!Trimmed
        <4>2. Len(buffer') <= Scrollback
          BY <2>1, <2>3, <3>3, <4>1
        <4> QED BY <2>3, <3>3, <4>1, <4>2
      <3> QED BY <3>1, <3>2, <3>3
    <2>5. watching' = Remote!NoWatcher \/ \E w : watching' = <<w>> /\ Ending(printed', w)
      <3>1. CASE watching = Remote!NoWatcher
        BY <2>1, <3>1
      <3>2. CASE watching # Remote!NoWatcher
        <4>1. PICK w : watching = <<w>> /\ Ending(printed, w)
          BY <3>2
        <4>2. watching' = <<Append(w, chunk)>>
          BY <2>1, <3>2, <4>1
        <4> QED BY <2>3, <4>1, <4>2
      <3> QED BY <3>1, <3>2
    <2>6. Remote!TypeOK'
      BY <2>1, <2>4 DEF Remote!TypeOK
    <2> QED BY <2>2, <2>4, <2>5, <2>6 DEF Ending
  <1>9. CASE Remote!subscribe
    BY <1>9 DEF Remote!subscribe, Remote!Replay, Ending, Remote!TypeOK
  <1>10. CASE Remote!Restart
    <2>1. /\ printed' = <<>> /\ buffer' = <<>> /\ watching' = Remote!NoWatcher
          /\ shell' = [s \in Shells |-> IF shell[s] = "none" THEN "none" ELSE "gone"]
          /\ UNCHANGED <<owner, enabled, allow, forbid, by, audit>>
      BY <1>10 DEF Remote!Restart
    <2>2. Ending(printed', buffer')
      BY <2>1 DEF Ending
    <2>3. Remote!TypeOK'
      BY <2>1 DEF Remote!TypeOK
    <2> QED BY <2>1, <2>2, <2>3
  <1>11. CASE UNCHANGED shellsVars
    BY <1>1, <1>11 DEF shellsVars, Remote!TypeOK
  <1> QED
    BY <1>2, <1>3, <1>4, <1>5, <1>6, <1>7, <1>8, <1>9, <1>10, <1>11 DEF Remote!Next

\* What a watcher was sent is the output whole, back to where the scrollback began when it joined, for
\* any scrollback and any number of shells, through grants that change and cores that die.
THEOREM WatchersSeeAll == Spec => [](Remote!TypeOK /\ Remote!WatchedWhole)
  <1>1. ShellsInv => Remote!TypeOK /\ Remote!WatchedWhole
    BY DEF ShellsInv, Ending, Remote!WatchedWhole
  <1> QED BY <1>1, ShellsInit, ShellsStep, EachOnItsOwn, PTL

\* Nobody with a forbid row opens a shell, runs a command or types, at any step.
THEOREM ForbiddenStayOut == Spec => Remote!ForbidWins
  <1> DEFINE Refused ==
        /\ \A s \in Shells, p \in forbid : ~Remote!open(s, p) /\ ~Remote!run(s, p)
        /\ (printed' # printed /\ printed' # <<>>) => printed'[Len(printed')].by \notin forbid
  <1>1. ShellsInv /\ [Remote!Next]_shellsVars => [Refused]_(Remote!vars)
    <2> SUFFICES ASSUME ShellsInv, [Remote!Next]_shellsVars PROVE Refused
      OBVIOUS
    <2>1. \A s \in Shells, p \in forbid : ~Remote!open(s, p) /\ ~Remote!run(s, p)
      BY DEF Remote!open, Remote!run, Remote!resolveDeviceGrants, Remote!Capable
    <2>2. \/ UNCHANGED printed \/ printed' = <<>>
          \/ \E s \in Shells, p \in Principals : Remote!write(s, p)
      BY DEF Remote!Next, Remote!setTransport, Remote!revoke, Remote!subscribe, Remote!Restart,
         Remote!update, Remote!revokeGrant, Remote!grant, Remote!open, Remote!run, Remote!opened,
         Remote!close, Remote!closeSession, shellsVars
    <2>3. ASSUME NEW s \in Shells, NEW p \in Principals, Remote!write(s, p)
          PROVE  printed'[Len(printed')].by \notin forbid
      <3> DEFINE chunk == [n |-> Len(printed) + 1, by |-> p]
      <3>1. chunk \in Chunks /\ printed' = Append(printed, chunk) /\ p \notin forbid /\ chunk.by = p
        BY <2>3 DEF Remote!write, Remote!resolveDeviceGrants, Remote!Capable, Chunks, ShellsInv
      <3> HIDE DEF chunk
      <3>2. printed'[Len(printed')] = chunk
        BY <3>1, AppendProperties DEF ShellsInv
      <3> QED BY <3>1, <3>2
    <2> QED BY <2>1, <2>2, <2>3
  <1> QED BY <1>1, ShellsInit, ShellsStep, EachOnItsOwn, PTL DEF Remote!ForbidWins

---------------------------------------------------------------------------
(* The Portal dongle.                                                       *)

Requests == [at : {"free", "held", "left", "answered"}, got : 0..MaxCommands]
In(c, q) == \E i \in 1..Len(q) : q[i] = c
Distinct(q) == \A m, n \in 1..Len(q) : m # n => q[m] # q[n]

\* One frame was there before another, on the host too.
Follows(read, run) ==
  /\ \A m \in 1..Len(read) : In(read[m], run)
  /\ \A m, n \in 1..Len(read) : m < n =>
       \E i, j \in 1..Len(run) : i < j /\ run[i] = read[m] /\ run[j] = read[n]

DongleTypes ==
  /\ pushed \in 0..MaxCommands /\ execQ \in Seq(1..pushed) /\ ran \in Seq(1..pushed)
  /\ poll \in [Polls -> Requests] /\ waiters \in Seq(Polls)
  /\ host \in {"locked", "shell", "ready", "loop"}
  /\ ioBuf \in Seq(1..pushed) /\ drained \in Seq(1..pushed)
  /\ dongleMinted \in Nat /\ cached \in 0..dongleMinted /\ stored \in 0..dongleMinted

\* A command is at one place at a time: at the relay, with one request of the phone, or run.
OnePlace ==
  /\ Distinct(execQ) /\ Distinct(ran)
  /\ \A c \in 1..pushed : ~(In(c, execQ) /\ In(c, ran))
  /\ \A p \in Polls : poll[p].at = "answered" =>
       /\ poll[p].got \in 1..pushed /\ ~In(poll[p].got, execQ) /\ ~In(poll[p].got, ran)
       /\ \A q \in Polls : q # p /\ poll[q].at = "answered" => poll[q].got # poll[p].got

DongleInv == DongleTypes /\ OnePlace /\ Follows(drained \o ioBuf, ran)

\* It holds at the start.
LEMMA DongleInit == Dongle!Init => DongleInv
  <1> SUFFICES ASSUME Dongle!Init PROVE DongleInv
    OBVIOUS
  <1>1. MaxCommands \in Nat
    BY BoundsAssumption
  <1>2. /\ pushed = 0 /\ execQ = <<>> /\ ran = <<>> /\ waiters = <<>> /\ ioBuf = <<>> /\ drained = <<>>
        /\ host = "locked" /\ cached = 0 /\ stored = 0 /\ dongleMinted = 0
        /\ poll = [p \in Polls |-> [at |-> "free", got |-> 0]]
    BY DEF Dongle!Init
  <1>3. DongleTypes
    BY <1>1, <1>2 DEF DongleTypes, Requests
  <1>4. OnePlace
    BY <1>2 DEF OnePlace, Distinct, In
  <1>5. Follows(drained \o ioBuf, ran)
    BY <1>2 DEF Follows
  <1> QED BY <1>3, <1>4, <1>5 DEF DongleInv

\* Taking the oldest command leaves the others, and it is not among them.
LEMMA Taken ==
  ASSUME NEW S, NEW q \in Seq(S), q # <<>>
  PROVE  /\ Head(q) \in S /\ Tail(q) \in Seq(S) /\ In(Head(q), q)
         /\ \A c : In(c, Tail(q)) => In(c, q)
         /\ Distinct(q) => Distinct(Tail(q)) /\ ~In(Head(q), Tail(q))
  <1>1. /\ Head(q) = q[1] /\ Head(q) \in S /\ Tail(q) \in Seq(S) /\ Len(Tail(q)) = Len(q) - 1
        /\ Len(q) \in Nat \ {0} /\ \A i \in 1..Len(Tail(q)) : Tail(q)[i] = q[i + 1]
    BY HeadTailProperties
  <1> QED BY <1>1 DEF In, Distinct

\* A sequence and one element more.
LEMMA Added ==
  ASSUME NEW S, NEW q \in Seq(S), NEW e
  PROVE  /\ \A c : In(c, Append(q, e)) <=> In(c, q) \/ c = e
         /\ Distinct(q) /\ ~In(e, q) => Distinct(Append(q, e))
         /\ \A c : In(c, q) => c \in S
         /\ Len(Append(q, e)) = Len(q) + 1 /\ Append(q, e)[Len(q) + 1] = e
         /\ \A i \in 1..Len(q) : Append(q, e)[i] = q[i]
  <1>1. /\ Len(Append(q, e)) = Len(q) + 1 /\ Len(q) \in Nat /\ Append(q, e)[Len(q) + 1] = e
        /\ \A i \in 1..Len(q) : Append(q, e)[i] = q[i]
    OBVIOUS
  <1>2. \A c : In(c, q) => c \in S
    BY DEF In
  <1>3. ASSUME NEW c PROVE In(c, Append(q, e)) <=> In(c, q) \/ c = e
    BY <1>1 DEF In
  <1>4. ASSUME Distinct(q), ~In(e, q) PROVE Distinct(Append(q, e))
    BY <1>1, <1>4 DEF In, Distinct
  <1> QED BY <1>1, <1>2, <1>3, <1>4

\* What was not yet run is not in the way of what is run next.
LEMMA FollowsOn ==
  ASSUME NEW S, NEW read \in Seq(S), NEW run \in Seq(S), NEW c \in S, Follows(read, run)
  PROVE  Follows(Append(read, c), Append(run, c))
  <1>1. /\ Len(Append(run, c)) = Len(run) + 1 /\ Append(run, c)[Len(run) + 1] = c /\ Len(run) \in Nat
        /\ \A i \in 1..Len(run) : Append(run, c)[i] = run[i]
    BY Added
  <1>2. /\ Len(Append(read, c)) = Len(read) + 1 /\ Append(read, c)[Len(read) + 1] = c
        /\ Len(read) \in Nat /\ \A i \in 1..Len(read) : Append(read, c)[i] = read[i]
    BY Added
  <1> DEFINE fs == Append(read, c)
  <1> DEFINE rs == Append(run, c)
  <1> HIDE DEF fs, rs
  <1>3. ASSUME NEW m \in 1..Len(fs) PROVE In(fs[m], rs)
    BY <1>1, <1>2, <1>3 DEF In, Follows, fs, rs
  <1>4. ASSUME NEW m \in 1..Len(fs), NEW n \in 1..Len(fs), m < n
        PROVE  \E i, j \in 1..Len(rs) : i < j /\ rs[i] = fs[m] /\ rs[j] = fs[n]
    <2>1. m \in 1..Len(read) /\ fs[m] = read[m]
      BY <1>2, <1>4 DEF fs
    <2>2. CASE n = Len(read) + 1
      <3>1. PICK i \in 1..Len(run) : run[i] = read[m]
        BY <2>1 DEF Follows, In
      <3>2. /\ i \in 1..Len(rs) /\ Len(run) + 1 \in 1..Len(rs) /\ i < Len(run) + 1
            /\ rs[i] = fs[m] /\ rs[Len(run) + 1] = fs[n]
        BY <1>1, <1>2, <2>1, <2>2, <3>1 DEF fs, rs
      <3> QED BY <3>2
    <2>3. CASE n \in 1..Len(read)
      <3>1. PICK i \in 1..Len(run), j \in 1..Len(run) : i < j /\ run[i] = read[m] /\ run[j] = read[n]
        BY <1>4, <2>1, <2>3 DEF Follows
      <3>2. i \in 1..Len(rs) /\ j \in 1..Len(rs) /\ rs[i] = fs[m] /\ rs[j] = fs[n]
        BY <1>1, <1>2, <2>1, <2>3, <3>1 DEF fs, rs
      <3> QED BY <3>1, <3>2
    <2> QED BY <1>2, <2>2, <2>3 DEF fs
  <1> QED BY <1>3, <1>4 DEF Follows, fs, rs

\* What follows a run up to its end does so up to any earlier point.
LEMMA FollowsUntil ==
  ASSUME NEW S, NEW a \in Seq(S), NEW b \in Seq(S), NEW run, Follows(a \o b, run)
  PROVE  Follows(a, run)
  <1>1. /\ Len(a) \in Nat /\ Len(a \o b) = Len(a) + Len(b) /\ Len(b) \in Nat
        /\ \A m \in 1..Len(a) : (a \o b)[m] = a[m]
    OBVIOUS
  <1> DEFINE all == a \o b
  <1>2. Follows(all, run)
    OBVIOUS
  <1> HIDE DEF all
  <1>3. \A m \in 1..Len(a) : m \in 1..Len(all) /\ all[m] = a[m]
    BY <1>1 DEF all
  <1> QED BY <1>2, <1>3 DEF Follows

\* Commands are numbered as they are queued.
LEMMA Numbered ==
  ASSUME NEW n \in Nat, NEW q \in Seq(1..n)
  PROVE  q \in Seq(1..(n + 1)) /\ Append(q, n + 1) \in Seq(1..(n + 1)) /\ Append(q, n + 1) # <<>>
  <1>1. q \in Seq(1..(n + 1)) /\ n + 1 \in 1..(n + 1)
    OBVIOUS
  <1> QED BY <1>1, AppendProperties

\* A queue that one request leaves is a queue of requests.
LEMMA LeftIs ==
  ASSUME NEW S, NEW q \in Seq(S), NEW i \in DOMAIN q
  PROVE  Dongle!RemoveAt(q, i) \in Seq(S)
  <1>1. Len(q) \in Nat /\ i \in 1..Len(q)
    OBVIOUS
  <1>2. SubSeq(q, 1, i - 1) \in Seq(S)
    BY <1>1
  <1>3. SubSeq(q, i + 1, Len(q)) \in Seq(S)
    BY <1>1
  <1> QED BY <1>2, <1>3, ConcatProperties DEF Dongle!RemoveAt

\* A step keeps it.
LEMMA DongleTypesStep == DongleTypes /\ OnePlace /\ [Dongle!Next]_dongleVars => DongleTypes'
  <1> SUFFICES ASSUME DongleTypes, OnePlace, [Dongle!Next]_dongleVars PROVE DongleTypes'
    OBVIOUS
  <1>0. MaxCommands \in Nat
    BY BoundsAssumption
  <1> USE <1>0 DEF DongleTypes, Dongle!relay, Dongle!target, Dongle!bytes, Dongle!key
  <1>1. CASE Dongle!pushExec
    <2>1. /\ pushed' = pushed + 1 /\ pushed' \in 0..MaxCommands
          /\ UNCHANGED <<host, ran, ioBuf, drained, signer, cached, stored, dongleMinted>>
      BY <1>1 DEF Dongle!pushExec
    <2> DEFINE q == Append(execQ, pushed + 1)
    <2>2. q \in Seq(1..pushed') /\ q # <<>>
      <3>1. pushed \in Nat /\ execQ \in Seq(1..pushed)
        OBVIOUS
      <3>2. q \in Seq(1..(pushed + 1)) /\ q # <<>>
        BY Zenon, <3>1, Numbered
      <3> HIDE DEF q
      <3> QED BY <2>1, <3>2
    <2>3. ran \in Seq(1..pushed') /\ ioBuf \in Seq(1..pushed') /\ drained \in Seq(1..pushed')
      BY <2>1
    <2>4. Head(q) \in 1..pushed' /\ Tail(q) \in Seq(1..pushed')
      BY <2>2, Taken
    <2>5. CASE waiters = <<>>
      BY <1>1, <2>1, <2>2, <2>3, <2>5 DEF Dongle!pushExec
    <2>6. CASE waiters # <<>>
      <3>1. /\ Head(waiters) \in Polls /\ Tail(waiters) \in Seq(Polls) /\ waiters' = Tail(waiters)
            /\ execQ' = Tail(q)
            /\ \/ poll' = [poll EXCEPT ![Head(waiters)] = [at |-> "free", got |-> 0]]
               \/ poll' = [poll EXCEPT ![Head(waiters)] = [at |-> "answered", got |-> Head(q)]]
        <4>1. Head(waiters) \in Polls /\ Tail(waiters) \in Seq(Polls)
          BY <2>6
        <4> QED BY <1>1, <2>6, <4>1 DEF Dongle!pushExec, Dongle!Shift
      <3>2. Head(q) \in 0..MaxCommands
        BY <2>1, <2>4
      <3> HIDE DEF q
      <3>3. \A c \in 0..MaxCommands : [at |-> "answered", got |-> c] \in Requests /\ [at |-> "free", got |-> 0] \in Requests
        BY DEF Requests
      <3>4. poll' \in [Polls -> Requests]
        BY <3>1, <3>2, <3>3
      <3> QED BY <2>1, <2>3, <2>4, <3>1, <3>4
    <2> QED BY <2>5, <2>6
  <1>2. ASSUME NEW p \in Polls, NEW wait \in BOOLEAN, Dongle!nextExec(p, wait) PROVE DongleTypes'
    <2>1. UNCHANGED <<pushed, host, ran, ioBuf, drained, cached, stored, dongleMinted>>
      BY <1>2 DEF Dongle!nextExec
    <2>2. CASE execQ # <<>>
      <3>1. /\ Head(execQ) \in 1..pushed /\ execQ' = Tail(execQ) /\ Tail(execQ) \in Seq(1..pushed)
            /\ UNCHANGED waiters
            /\ poll' = [poll EXCEPT ![p] = [at |-> "answered", got |-> Head(execQ)]]
        BY <1>2, <2>2, Taken DEF Dongle!nextExec, Dongle!Shift
      <3>2. [at |-> "answered", got |-> Head(execQ)] \in Requests
        BY <3>1 DEF Requests
      <3>3. poll' \in [Polls -> Requests]
        BY <3>1, <3>2
      <3> QED BY <2>1, <3>1, <3>3
    <2>3. CASE execQ = <<>>
      <3>1. waiters' = Append(waiters, p) /\ poll' = [poll EXCEPT ![p].at = "held"] /\ UNCHANGED execQ
        BY <1>2, <2>3 DEF Dongle!nextExec
      <3>2. poll' \in [Polls -> Requests]
        BY <3>1 DEF Requests
      <3> QED BY <2>1, <3>1, <3>2
    <2> QED BY <2>2, <2>3
  <1>3. ASSUME NEW p \in Polls, Dongle!waitEnds(p) PROVE DongleTypes'
    <2>1. PICK i \in DOMAIN waiters : waiters' = Dongle!RemoveAt(waiters, i)
      BY <1>3 DEF Dongle!waitEnds
    <2>2. /\ poll' = [poll EXCEPT ![p].at = "free"]
          /\ UNCHANGED <<pushed, execQ, host, ran, ioBuf, drained, cached, stored, dongleMinted>>
      BY <1>3 DEF Dongle!waitEnds
    <2>3. waiters' \in Seq(Polls)
      BY Zenon, <2>1, LeftIs
    <2>4. poll' \in [Polls -> Requests]
      BY <2>2 DEF Requests
    <2> QED BY <2>2, <2>3, <2>4
  <1>4. ASSUME NEW p \in Polls, Dongle!PhoneLeaves(p) PROVE DongleTypes'
    <2>1. poll' \in [Polls -> Requests]
      BY <1>4 DEF Dongle!PhoneLeaves, Requests
    <2> QED BY <1>4, <2>1 DEF Dongle!PhoneLeaves
  <1>5. ASSUME NEW p \in Polls, Dongle!Carry(p) PROVE DongleTypes'
    <2>1. poll[p].got \in 1..pushed
      BY <1>5 DEF OnePlace, Dongle!Carry
    <2>2. poll' \in [Polls -> Requests]
      BY <1>5 DEF Dongle!Carry, Requests
    <2>3. /\ \/ ran' = Append(ran, poll[p].got) /\ ioBuf' = Append(ioBuf, poll[p].got)
             \/ UNCHANGED <<ran, ioBuf>>
          /\ UNCHANGED <<pushed, execQ, waiters, host, drained, cached, stored, dongleMinted>>
      BY <1>5 DEF Dongle!Carry
    <2>4. ran' \in Seq(1..pushed) /\ ioBuf' \in Seq(1..pushed)
      <3>1. Append(ran, poll[p].got) \in Seq(1..pushed) /\ Append(ioBuf, poll[p].got) \in Seq(1..pushed)
        BY <2>1, AppendProperties
      <3> QED BY <2>3, <3>1
    <2> QED BY <2>2, <2>3, <2>4
  <1>6. CASE Dongle!drainIo
    BY <1>6 DEF Dongle!drainIo, Dongle!Drain
  <1>7. CASE Dongle!terminalOpen \/ Dongle!probe \/ Dongle!replBootstrap
    BY <1>7 DEF Dongle!terminalOpen, Dongle!probe, Dongle!replBootstrap
  <1>8. ASSUME NEW s \in Signers, Dongle!ensureKey(s) \/ Dongle!KeyRead(s) \/ Dongle!KeyStored(s)
        PROVE  DongleTypes'
    BY <1>8 DEF Dongle!ensureKey, Dongle!KeyRead, Dongle!KeyStored
  <1>9. CASE Dongle!Restart
    <2>1. poll' \in [Polls -> Requests]
      BY <1>9 DEF Dongle!Restart, Requests
    <2>2. /\ execQ' = <<>> /\ waiters' = <<>> /\ ioBuf' = <<>> /\ cached' = 0
          /\ UNCHANGED <<pushed, host, ran, drained, stored, dongleMinted>>
      BY <1>9 DEF Dongle!Restart
    <2>3. execQ' \in Seq(1..pushed) /\ waiters' \in Seq(Polls) /\ ioBuf' \in Seq(1..pushed)
      BY <2>2
    <2>4. cached' \in 0..dongleMinted
      BY <2>2
    <2> QED BY <2>1, <2>2, <2>3, <2>4
  <1>10. CASE UNCHANGED dongleVars
    BY <1>10 DEF dongleVars
  <1> QED
    BY <1>1, <1>2, <1>3, <1>4, <1>5, <1>6, <1>7, <1>8, <1>9, <1>10 DEF Dongle!Next

\* A step keeps it.
LEMMA OnePlaceStep == DongleTypes /\ OnePlace /\ [Dongle!Next]_dongleVars => OnePlace'
  <1> SUFFICES ASSUME DongleTypes, OnePlace, [Dongle!Next]_dongleVars PROVE OnePlace'
    OBVIOUS
  <1>0. /\ pushed \in Nat /\ execQ \in Seq(1..pushed) /\ ran \in Seq(1..pushed)
        /\ poll \in [Polls -> Requests]
    BY BoundsAssumption DEF DongleTypes
  <1>1. ASSUME UNCHANGED <<pushed, execQ, ran>>,
               \A p \in Polls : poll'[p].at = "answered" => poll'[p] = poll[p]
        PROVE  OnePlace'
    BY <1>1 DEF OnePlace
  <1>2. CASE Dongle!pushExec
    <2> DEFINE q == Append(execQ, pushed + 1)
    <2>1. pushed' = pushed + 1 /\ UNCHANGED ran
      BY <1>2 DEF Dongle!pushExec, Dongle!target
    <2>2. /\ ~In(pushed + 1, execQ) /\ ~In(pushed + 1, ran)
          /\ \A p \in Polls : poll[p].at = "answered" => poll[p].got # pushed + 1
      BY <1>0 DEF In, OnePlace
    <2>3. /\ q \in Seq(1..pushed') /\ q # <<>> /\ Distinct(q)
          /\ \A c : In(c, q) <=> In(c, execQ) \/ c = pushed + 1
      <3>1. execQ \in Seq(1..(pushed + 1)) /\ pushed + 1 \in 1..(pushed + 1) /\ Distinct(execQ)
        BY <1>0 DEF OnePlace
      <3>2. q \in Seq(1..pushed') /\ q # <<>>
        BY <2>1, <3>1, AppendProperties
      <3> QED BY <1>0, <2>2, <3>1, <3>2, Added
    <2> HIDE DEF q
    <2>4. \A c : In(c, ran) => c \in 1..pushed
      BY <1>0 DEF In
    <2>5. /\ \A c : ~(In(c, q) /\ In(c, ran))
          /\ \A p \in Polls : poll[p].at = "answered" =>
               poll[p].got \in 1..pushed' /\ ~In(poll[p].got, q) /\ ~In(poll[p].got, ran)
      BY <1>0, <2>1, <2>2, <2>3, <2>4 DEF OnePlace
    <2>6. CASE waiters = <<>>
      <3>1. execQ' = q /\ UNCHANGED poll
        BY <1>2, <2>6 DEF Dongle!pushExec, q
      <3> QED BY <2>1, <2>3, <2>5, <3>1 DEF OnePlace
    <2>7. CASE waiters # <<>>
      <3>1. /\ Head(waiters) \in Polls /\ execQ' = Tail(q)
            /\ \/ poll' = [poll EXCEPT ![Head(waiters)] = [at |-> "free", got |-> 0]]
               \/ poll' = [poll EXCEPT ![Head(waiters)] = [at |-> "answered", got |-> Head(q)]]
        <4>1. Head(waiters) \in Polls
          BY <2>7 DEF DongleTypes
        <4> QED BY <1>2, <2>7, <4>1 DEF Dongle!pushExec, Dongle!Shift, q
      <3>2. /\ Head(q) \in 1..pushed' /\ In(Head(q), q) /\ (\A c : In(c, Tail(q)) => In(c, q))
            /\ Distinct(Tail(q)) /\ ~In(Head(q), Tail(q))
        BY <2>3, Taken
      <3>3. /\ \A c : ~(In(c, Tail(q)) /\ In(c, ran))
            /\ \A p \in Polls : poll[p].at = "answered" =>
                 /\ poll[p].got \in 1..pushed' /\ poll[p].got # Head(q)
                 /\ ~In(poll[p].got, Tail(q)) /\ ~In(poll[p].got, ran)
        BY <2>5, <3>2
      <3>4. ASSUME poll' = [poll EXCEPT ![Head(waiters)] = [at |-> "free", got |-> 0]] PROVE OnePlace'
        BY <1>0, <2>1, <3>1, <3>2, <3>3, <3>4 DEF OnePlace
      <3>5. ASSUME poll' = [poll EXCEPT ![Head(waiters)] = [at |-> "answered", got |-> Head(q)]]
            PROVE  OnePlace'
        BY <1>0, <2>1, <2>5, <3>1, <3>2, <3>3, <3>5 DEF OnePlace
      <3> QED BY <3>1, <3>4, <3>5
    <2> QED BY <2>6, <2>7
  <1>3. ASSUME NEW p \in Polls, NEW wait \in BOOLEAN, Dongle!nextExec(p, wait) PROVE OnePlace'
    <2>1. CASE execQ # <<>>
      <3>1. /\ execQ' = Tail(execQ) /\ UNCHANGED <<pushed, ran>>
            /\ poll' = [poll EXCEPT ![p] = [at |-> "answered", got |-> Head(execQ)]]
        BY <1>3, <2>1 DEF Dongle!nextExec, Dongle!Shift, Dongle!target
      <3>2. /\ Head(execQ) \in 1..pushed /\ In(Head(execQ), execQ)
            /\ \A c : In(c, Tail(execQ)) => In(c, execQ)
            /\ Distinct(Tail(execQ)) /\ ~In(Head(execQ), Tail(execQ))
        BY <1>0, <2>1, Taken DEF OnePlace
      <3> QED BY <1>0, <3>1, <3>2 DEF OnePlace
    <2>2. CASE execQ = <<>>
      BY <1>0, <1>1, <1>3, <2>2 DEF Dongle!nextExec, Dongle!target, Requests
    <2> QED BY <2>1, <2>2
  <1>4. ASSUME NEW p \in Polls, Dongle!waitEnds(p) \/ Dongle!PhoneLeaves(p) PROVE OnePlace'
    BY <1>0, <1>1, <1>4 DEF Dongle!waitEnds, Dongle!PhoneLeaves, Dongle!target, Requests
  <1>5. ASSUME NEW p \in Polls, Dongle!Carry(p) PROVE OnePlace'
    <2>1. /\ poll[p].at = "answered" /\ poll' = [poll EXCEPT ![p] = [at |-> "free", got |-> 0]]
          /\ UNCHANGED <<pushed, execQ>>
          /\ ran' = Append(ran, poll[p].got) \/ UNCHANGED ran
      BY <1>5 DEF Dongle!Carry
    <2>2. CASE UNCHANGED ran
      BY <1>0, <1>1, <2>1, <2>2
    <2>3. CASE ran' = Append(ran, poll[p].got)
      <3>1. /\ poll[p].got \in 1..pushed /\ ~In(poll[p].got, execQ) /\ ~In(poll[p].got, ran)
            /\ \A q \in Polls : q # p /\ poll[q].at = "answered" => poll[q].got # poll[p].got
        BY <2>1 DEF OnePlace
      <3>2. /\ Distinct(ran') /\ \A c : In(c, ran') <=> In(c, ran) \/ c = poll[p].got
        BY <1>0, <2>3, <3>1, Added DEF OnePlace
      <3> QED BY <1>0, <2>1, <3>1, <3>2 DEF OnePlace
    <2> QED BY <2>1, <2>2, <2>3
  <1>6. CASE Dongle!Restart
    <2>1. /\ execQ' = <<>> /\ UNCHANGED <<pushed, ran>>
          /\ poll' = [p \in Polls |-> IF poll[p].at = "answered" THEN poll[p] ELSE [at |-> "free", got |-> 0]]
      BY <1>6 DEF Dongle!Restart, Dongle!target
    <2>2. \A p \in Polls : poll'[p].at = "answered" => poll'[p] = poll[p] /\ poll[p].at = "answered"
      BY <2>1
    <2>3. Distinct(execQ') /\ \A c : ~In(c, execQ')
      BY <2>1 DEF Distinct, In
    <2> QED BY <2>1, <2>2, <2>3 DEF OnePlace
  <1>7. CASE UNCHANGED <<pushed, execQ, ran, poll>>
    BY <1>1, <1>7
  <1> QED
    BY <1>2, <1>3, <1>4, <1>5, <1>6, <1>7 DEF Dongle!Next, Dongle!drainIo, Dongle!terminalOpen,
       Dongle!probe, Dongle!replBootstrap, Dongle!ensureKey, Dongle!KeyRead, Dongle!KeyStored,
       Dongle!relay, Dongle!target, dongleVars

\* A step keeps it.
LEMMA DongleStep == DongleInv /\ [Dongle!Next]_dongleVars => DongleInv'
  <1> SUFFICES ASSUME DongleInv, [Dongle!Next]_dongleVars PROVE Follows(drained \o ioBuf, ran)'
    BY DongleTypesStep, OnePlaceStep DEF DongleInv
  <1>0. /\ ran \in Seq(1..pushed) /\ ioBuf \in Seq(1..pushed) /\ drained \in Seq(1..pushed)
        /\ Follows(drained \o ioBuf, ran)
    BY DEF DongleInv, DongleTypes
  <1>1. ASSUME NEW p \in Polls, Dongle!Carry(p) PROVE Follows(drained \o ioBuf, ran)'
    <2>1. CASE ran' = Append(ran, poll[p].got) /\ ioBuf' = Append(ioBuf, poll[p].got) /\ UNCHANGED drained
      <3>1. poll[p].got \in 1..pushed
        BY <1>1 DEF DongleInv, OnePlace, Dongle!Carry
      <3>2. (drained \o ioBuf)' = Append(drained \o ioBuf, poll[p].got)
        BY <1>0, <2>1, <3>1
      <3>3. drained \o ioBuf \in Seq(1..pushed)
        BY <1>0
      <3> QED BY <1>0, <2>1, <3>1, <3>2, <3>3, FollowsOn
    <2>2. CASE UNCHANGED <<ran, ioBuf, drained>>
      BY <1>0, <2>2
    <2> QED BY <1>1, <2>1, <2>2 DEF Dongle!Carry
  <1>2. CASE Dongle!drainIo
    <2>1. /\ (drained \o ioBuf)' = drained \o ioBuf /\ UNCHANGED ran
      BY <1>0, <1>2 DEF Dongle!drainIo, Dongle!Drain, Dongle!target
    <2> QED BY <1>0, <2>1
  <1>3. CASE Dongle!Restart
    <2>1. (drained \o ioBuf)' = drained /\ UNCHANGED ran
      BY <1>0, <1>3 DEF Dongle!Restart, Dongle!target
    <2>2. Follows(drained, ran)
      BY <1>0, FollowsUntil
    <2> QED BY <2>1, <2>2
  <1>4. CASE UNCHANGED <<ran, ioBuf, drained>>
    BY <1>0, <1>4
  <1> QED
    BY <1>1, <1>2, <1>3, <1>4 DEF Dongle!Next, Dongle!pushExec, Dongle!nextExec, Dongle!waitEnds,
       Dongle!PhoneLeaves, Dongle!terminalOpen, Dongle!probe, Dongle!replBootstrap, Dongle!ensureKey,
       Dongle!KeyRead, Dongle!KeyStored, Dongle!target, Dongle!bytes, dongleVars

\* No command runs twice on the host and the driver reads the outputs once and in the host's order, for
\* any number of commands and of requests held at the relay, however often the phone or the core dies.
THEOREM CommandsRunOnce == Spec => [](Dongle!TypeOK /\ Dongle!RunsOnce)
  <1>1. DongleInv => Dongle!TypeOK /\ Dongle!RunsOnce
    <2> SUFFICES ASSUME DongleInv PROVE Dongle!TypeOK /\ Dongle!RunsOnce
      OBVIOUS
    <2>1. Follows(drained, ran)
      BY FollowsUntil DEF DongleInv, DongleTypes
    <2>2. Dongle!RunsOnce
      BY <2>1 DEF DongleInv, OnePlace, Distinct, Follows, Dongle!RunsOnce
    <2>3. MaxCommands \in Nat
      BY BoundsAssumption
    <2>4. execQ \in Seq(1..MaxCommands) /\ ran \in Seq(1..MaxCommands)
      BY <2>3 DEF DongleInv, DongleTypes
    <2>5. Dongle!Range(waiters) \subseteq Polls
      BY DEF DongleInv, DongleTypes, Dongle!Range
    <2>6. \A p \in Polls : poll[p].at \in {"free", "held", "left", "answered"}
      BY DEF DongleInv, DongleTypes, Requests
    <2> QED BY <2>2, <2>4, <2>5, <2>6 DEF Dongle!TypeOK, Dongle!Commands, DongleInv, DongleTypes
  <1> QED BY <1>1, DongleInit, DongleStep, EachOnItsOwn, PTL

---------------------------------------------------------------------------
(* Mesh enrollment.                                                         *)

Stages == {"idle", "site", "id", "secret", "host", "ssh", "rd", "done"}
Enrolments == [at : Stages, status : {"ok", "degraded"}, site : (-1)..MaxPasswords, crossed : BOOLEAN]
Planes == [admin : 0..MaxPasswords, org : BOOLEAN, idp : {"none", "pending", "real"}, linked : BOOLEAN,
           site : 0..MaxPasswords, client : BOOLEAN, resources : SUBSET Net!Wires]
Safes == [admin : 0..MaxPasswords, newtId : 0..MaxPasswords, newtSecret : 0..MaxPasswords]

NetTypes ==
  /\ cloud \in Planes /\ safe \in Safes /\ netMade \in 0..MaxPasswords
  /\ prov \in [at : {"idle", "store", "org", "idp", "client", "done"}, set : 0..MaxPasswords]
  /\ listed \in BOOLEAN /\ netWire \in [Net!Wires -> {"none", "live", "revoked"}] /\ codes \in 0..MaxCodes
  /\ enrol \in [Enrols -> Enrolments]
  /\ newt \in 0..MaxPasswords
  /\ down \in [at : {"idle", "vault", "cli", "drop", "done"}, removed : SUBSET Net!Wires]

\* What a report that is not degraded so far has behind it in the control plane, stage by stage.
Behind(r, plane) ==
  /\ r.at \in {"id", "secret"} => r.site \in 1..MaxPasswords /\ plane.site # 0
  /\ r.at \in {"host", "ssh", "rd", "done"} /\ r.status = "ok" => plane.site # 0
  /\ r.at \in {"ssh", "rd", "done"} /\ r.status = "ok" => plane.client
  /\ r.at \in {"rd", "done"} /\ r.status = "ok" => "ssh" \in plane.resources
  /\ r.at = "done" /\ r.status = "ok" => "rd" \in plane.resources

\* Nothing that a report leans on is taken out of the control plane.
Grown(old, new) ==
  /\ old.site # 0 => new.site # 0
  /\ old.client => new.client
  /\ old.resources \subseteq new.resources

\* A teardown under way has crossed every enrolment there is.
Crossing ==
  /\ down.at \notin {"idle", "done"} => \A e \in Enrols : enrol[e].at # "idle" => enrol[e].crossed
  /\ Net!LandsInFleet

NetInv == NetTypes /\ (\A e \in Enrols : Behind(enrol[e], cloud)) /\ Crossing

\* It holds at the start.
LEMMA NetInit == Net!Init => NetInv
  <1> SUFFICES ASSUME Net!Init PROVE NetInv
    OBVIOUS
  <1>0. MaxPasswords \in Nat /\ MaxCodes \in Nat
    BY BoundsAssumption
  <1>1. /\ cloud = [admin |-> 0, org |-> FALSE, idp |-> "none", linked |-> FALSE, site |-> 0,
                    client |-> FALSE, resources |-> {}]
        /\ safe = [admin |-> 0, newtId |-> 0, newtSecret |-> 0] /\ netMade = 0
        /\ prov = [at |-> "idle", set |-> 0]
        /\ listed = FALSE /\ netWire = [w \in Net!Wires |-> "none"] /\ codes = 0
        /\ enrol = [e \in Enrols |-> [at |-> "idle", status |-> "ok", site |-> 0, crossed |-> FALSE]]
        /\ newt = 0 /\ down = [at |-> "idle", removed |-> {}]
    BY DEF Net!Init
  <1>2. cloud \in Planes /\ safe \in Safes
    BY <1>0, <1>1 DEF Planes, Safes
  <1>3. enrol \in [Enrols -> Enrolments] /\ \A e \in Enrols : enrol[e].at = "idle"
    BY <1>0, <1>1 DEF Enrolments, Stages
  <1>4. NetTypes
    <2>1. netMade \in 0..MaxPasswords /\ newt \in 0..MaxPasswords /\ codes \in 0..MaxCodes
      BY <1>0, <1>1
    <2>4. listed \in BOOLEAN /\ netWire \in [Net!Wires -> {"none", "live", "revoked"}]
      BY <1>1
    <2>2. prov \in [at : {"idle", "store", "org", "idp", "client", "done"}, set : 0..MaxPasswords]
      BY <1>0, <1>1
    <2>3. down \in [at : {"idle", "vault", "cli", "drop", "done"}, removed : SUBSET Net!Wires]
      BY <1>1
    <2> QED BY <1>2, <1>3, <2>1, <2>2, <2>3, <2>4 DEF NetTypes
  <1>5. Crossing
    BY <1>1, <1>3 DEF Crossing, Net!LandsInFleet
  <1> QED BY <1>3, <1>4, <1>5 DEF NetInv, Behind

\* What a step of an enrolment makes of its report.
LEMMA ReportedAt ==
  ASSUME NEW r \in Enrolments, NEW a
  PROVE  [r EXCEPT !.at = a] = [at |-> a, status |-> r.status, site |-> r.site, crossed |-> r.crossed]
  BY DEF Enrolments

\* A report of a site.
LEMMA ReportedSite ==
  ASSUME NEW r \in Enrolments, NEW a, NEW s
  PROVE  [r EXCEPT !.at = a, !.site = s] = [at |-> a, status |-> r.status, site |-> s, crossed |-> r.crossed]
  <1>1. [r EXCEPT !.at = a, !.site = s] = [[r EXCEPT !.at = a] EXCEPT !.site = s]
    OBVIOUS
  <1>2. [[at |-> a, status |-> r.status, site |-> r.site, crossed |-> r.crossed] EXCEPT !.site = s]
          = [at |-> a, status |-> r.status, site |-> s, crossed |-> r.crossed]
    OBVIOUS
  <1> QED BY Zenon, <1>1, <1>2, ReportedAt

\* A report of trouble.
LEMMA ReportedDegraded ==
  ASSUME NEW r \in Enrolments, NEW a
  PROVE  Net!Degraded([r EXCEPT !.at = a])
           = [at |-> a, status |-> "degraded", site |-> r.site, crossed |-> r.crossed]
  <1>1. [[at |-> a, status |-> r.status, site |-> r.site, crossed |-> r.crossed] EXCEPT !.status = "degraded"]
          = [at |-> a, status |-> "degraded", site |-> r.site, crossed |-> r.crossed]
    OBVIOUS
  <1>2. ASSUME NEW q, q = [at |-> a, status |-> r.status, site |-> r.site, crossed |-> r.crossed]
        PROVE  Net!Degraded(q) = [at |-> a, status |-> "degraded", site |-> r.site, crossed |-> r.crossed]
    BY Zenon, <1>1, <1>2 DEF Net!Degraded
  <1>3. [r EXCEPT !.at = a] = [at |-> a, status |-> r.status, site |-> r.site, crossed |-> r.crossed]
    BY Zenon, ReportedAt
  <1> QED BY Zenon, <1>2, <1>3

\* A report of a site in trouble.
LEMMA ReportedLost ==
  ASSUME NEW r \in Enrolments, NEW a, NEW s
  PROVE  Net!Degraded([r EXCEPT !.at = a, !.site = s])
           = [at |-> a, status |-> "degraded", site |-> s, crossed |-> r.crossed]
  <1>1. [[at |-> a, status |-> r.status, site |-> s, crossed |-> r.crossed] EXCEPT !.status = "degraded"]
          = [at |-> a, status |-> "degraded", site |-> s, crossed |-> r.crossed]
    OBVIOUS
  <1>2. ASSUME NEW q, q = [at |-> a, status |-> r.status, site |-> s, crossed |-> r.crossed]
        PROVE  Net!Degraded(q) = [at |-> a, status |-> "degraded", site |-> s, crossed |-> r.crossed]
    BY Zenon, <1>1, <1>2 DEF Net!Degraded
  <1>3. [r EXCEPT !.at = a, !.site = s] = [at |-> a, status |-> r.status, site |-> s, crossed |-> r.crossed]
    BY Zenon, ReportedSite
  <1> QED BY Zenon, <1>2, <1>3

\* A report between its start and its end.
LEMMA NetReports ==
  ASSUME NetTypes, NEW e \in Enrols, Behind(enrol[e], cloud),
         Net!enrollSite(e) \/ Net!vaultPut(e) \/ Net!ensureHostClient(e) \/ Net!addResource(e)
  PROVE  /\ \E r \in Enrolments :
              /\ enrol' = [enrol EXCEPT ![e] = r] /\ r.at # "idle" /\ r.crossed = enrol[e].crossed
              /\ Behind(r, cloud')
         /\ enrol[e].at # "idle" /\ cloud' \in Planes /\ Grown(cloud, cloud')
         /\ safe' \in Safes /\ netMade' \in 0..MaxPasswords
         /\ UNCHANGED <<prov, listed, netWire, codes, newt, down>>
  <1> DEFINE q == enrol[e]
  <1>0. MaxPasswords \in Nat /\ q \in Enrolments /\ Behind(q, cloud) /\ cloud \in Planes
        /\ safe \in Safes /\ netMade \in 0..MaxPasswords
    BY BoundsAssumption DEF NetTypes
  <1> DEFINE Rec(a, st, s) == [at |-> a, status |-> st, site |-> s, crossed |-> q.crossed]
  <1>1. ASSUME NEW a \in Stages \ {"idle"}, NEW st \in {"ok", "degraded"}, NEW s \in (-1)..MaxPasswords,
               enrol' = [enrol EXCEPT ![e] = Rec(a, st, s)], Behind(Rec(a, st, s), cloud')
        PROVE  \E r \in Enrolments :
                 /\ enrol' = [enrol EXCEPT ![e] = r] /\ r.at # "idle" /\ r.crossed = enrol[e].crossed
                 /\ Behind(r, cloud')
    <2>1. Rec(a, st, s) \in Enrolments /\ Rec(a, st, s).at # "idle" /\ Rec(a, st, s).crossed = q.crossed
      BY <1>0, <1>1 DEF Enrolments, Stages
    <2> QED BY Zenon, <1>1, <2>1
  <1>2. q.site \in (-1)..MaxPasswords /\ q.status \in {"ok", "degraded"} /\ -1 \in (-1)..MaxPasswords
    BY <1>0 DEF Enrolments
  <1>3. CASE Net!enrollSite(e)
    <2>1. /\ q.at = "site" /\ UNCHANGED <<safe, prov, listed, netWire, codes, newt, down>>
          /\ \/ /\ cloud.site # 0 /\ enrol' = [enrol EXCEPT ![e] = [q EXCEPT !.at = "host"]]
                /\ UNCHANGED <<cloud, netMade>>
             \/ /\ netMade < MaxPasswords /\ netMade' = netMade + 1
                /\ cloud' = [cloud EXCEPT !.site = netMade + 1]
                /\ enrol' = [enrol EXCEPT ![e] = [q EXCEPT !.at = "id", !.site = netMade + 1]]
             \/ /\ enrol' = [enrol EXCEPT ![e] = Net!Degraded([q EXCEPT !.at = "host", !.site = -1])]
                /\ UNCHANGED <<cloud, netMade>>
      BY <1>3 DEF Net!enrollSite, Net!registry, NetTypes
    <2> HIDE DEF q
    <2>2. CASE cloud.site # 0 /\ enrol' = [enrol EXCEPT ![e] = [q EXCEPT !.at = "host"]] /\ UNCHANGED <<cloud, netMade>>
      <3>1. enrol' = [enrol EXCEPT ![e] = Rec("host", q.status, q.site)]
        BY Zenon, <1>0, <2>2, ReportedAt
      <3>2. Behind(Rec("host", q.status, q.site), cloud')
        BY <2>2 DEF Behind
      <3> QED BY <1>0, <1>1, <1>2, <2>1, <2>2, <3>1, <3>2 DEF Grown, Stages, q
    <2>3. CASE /\ netMade < MaxPasswords /\ netMade' = netMade + 1 /\ cloud' = [cloud EXCEPT !.site = netMade + 1]
               /\ enrol' = [enrol EXCEPT ![e] = [q EXCEPT !.at = "id", !.site = netMade + 1]]
      <3>0. [q EXCEPT !.at = "id", !.site = netMade + 1] = Rec("id", q.status, netMade + 1)
        BY Zenon, <1>0, ReportedSite
      <3>1. enrol' = [enrol EXCEPT ![e] = Rec("id", q.status, netMade + 1)]
        BY <2>3, <3>0
      <3>2. /\ netMade' \in 1..MaxPasswords /\ cloud' \in Planes /\ cloud'.site # 0
            /\ cloud'.client = cloud.client /\ cloud'.resources = cloud.resources
        BY <1>0, <2>3 DEF Planes
      <3>3. Behind(Rec("id", q.status, netMade + 1), cloud') /\ netMade + 1 \in (-1)..MaxPasswords
        BY <1>0, <2>3, <3>2 DEF Behind
      <3>4. \E r \in Enrolments :
              /\ enrol' = [enrol EXCEPT ![e] = r] /\ r.at # "idle" /\ r.crossed = enrol[e].crossed
              /\ Behind(r, cloud')
        BY <1>1, <1>2, <3>1, <3>3 DEF Stages
      <3>5. safe' \in Safes /\ netMade' \in 0..MaxPasswords /\ enrol[e].at # "idle"
        BY <1>0, <2>1, <3>2 DEF q
      <3>6. Grown(cloud, cloud')
        BY <3>2 DEF Grown
      <3> QED BY <2>1, <3>2, <3>4, <3>5, <3>6
    <2>4. CASE /\ enrol' = [enrol EXCEPT ![e] = Net!Degraded([q EXCEPT !.at = "host", !.site = -1])]
               /\ UNCHANGED <<cloud, netMade>>
      <3>1. enrol' = [enrol EXCEPT ![e] = Rec("host", "degraded", -1)]
        BY Zenon, <1>0, <2>4, ReportedLost
      <3>2. Behind(Rec("host", "degraded", -1), cloud')
        BY DEF Behind
      <3> QED BY <1>0, <1>1, <1>2, <2>1, <2>4, <3>1, <3>2 DEF Grown, Stages, q
    <2> QED BY <2>1, <2>2, <2>3, <2>4
  <1>4. CASE Net!vaultPut(e)
    <2>1. /\ q.at \in {"id", "secret"} /\ UNCHANGED <<cloud, netMade, prov, listed, netWire, codes, newt, down>>
          /\ \/ /\ q.at = "id" /\ enrol' = [enrol EXCEPT ![e] = [q EXCEPT !.at = "secret"]]
                /\ safe' = [safe EXCEPT !.newtId = q.site]
             \/ /\ q.at = "secret" /\ enrol' = [enrol EXCEPT ![e] = [q EXCEPT !.at = "host"]]
                /\ safe' = [safe EXCEPT !.newtSecret = q.site]
             \/ /\ enrol' = [enrol EXCEPT ![e] = Net!Degraded([q EXCEPT !.at = "host", !.site = -1])]
                /\ UNCHANGED safe
      BY <1>4 DEF Net!vaultPut, Net!registry, NetTypes
    <2> HIDE DEF q
    <2>2. q.site \in 1..MaxPasswords /\ cloud.site # 0
      BY <1>0, <2>1 DEF Behind
    <2>3. safe' \in Safes
      BY <1>0, <2>1, <2>2 DEF Safes
    <2>4. CASE q.at = "id" /\ enrol' = [enrol EXCEPT ![e] = [q EXCEPT !.at = "secret"]]
      <3>1. enrol' = [enrol EXCEPT ![e] = Rec("secret", q.status, q.site)]
        BY Zenon, <1>0, <2>4, ReportedAt
      <3>2. Behind(Rec("secret", q.status, q.site), cloud')
        BY <2>1, <2>2 DEF Behind
      <3> QED BY <1>0, <1>1, <1>2, <2>1, <2>3, <2>4, <3>1, <3>2 DEF Grown, Stages, q
    <2>5. CASE q.at = "secret" /\ enrol' = [enrol EXCEPT ![e] = [q EXCEPT !.at = "host"]]
      <3>1. enrol' = [enrol EXCEPT ![e] = Rec("host", q.status, q.site)]
        BY Zenon, <1>0, <2>5, ReportedAt
      <3>2. Behind(Rec("host", q.status, q.site), cloud')
        BY <2>1, <2>2 DEF Behind
      <3> QED BY <1>0, <1>1, <1>2, <2>1, <2>3, <2>5, <3>1, <3>2 DEF Grown, Stages, q
    <2>6. CASE enrol' = [enrol EXCEPT ![e] = Net!Degraded([q EXCEPT !.at = "host", !.site = -1])]
      <3>1. enrol' = [enrol EXCEPT ![e] = Rec("host", "degraded", -1)]
        BY Zenon, <1>0, <2>6, ReportedLost
      <3>2. Behind(Rec("host", "degraded", -1), cloud')
        BY DEF Behind
      <3> QED BY <1>0, <1>1, <1>2, <2>1, <2>3, <3>1, <3>2 DEF Grown, Stages, q
    <2> QED BY <2>1, <2>4, <2>5, <2>6
  <1>5. CASE Net!ensureHostClient(e)
    <2>1. /\ q.at = "host" /\ UNCHANGED <<safe, netMade, prov, listed, netWire, codes, newt, down>>
          /\ \/ /\ cloud' = [cloud EXCEPT !.client = TRUE]
                /\ enrol' = [enrol EXCEPT ![e] = [q EXCEPT !.at = "ssh"]]
             \/ /\ enrol' = [enrol EXCEPT ![e] = Net!Degraded([q EXCEPT !.at = "ssh"])]
                /\ UNCHANGED cloud
             \/ /\ enrol' = [enrol EXCEPT ![e] = Net!Degraded([q EXCEPT !.at = "ssh"])]
                /\ cloud' = [cloud EXCEPT !.client = TRUE]
      BY <1>5 DEF Net!ensureHostClient, Net!registry, NetTypes
    <2> HIDE DEF q
    <2>2. CASE /\ cloud' = [cloud EXCEPT !.client = TRUE] /\ enrol' = [enrol EXCEPT ![e] = [q EXCEPT !.at = "ssh"]]
      <3>1. enrol' = [enrol EXCEPT ![e] = Rec("ssh", q.status, q.site)]
        BY Zenon, <1>0, <2>2, ReportedAt
      <3>2. /\ cloud' \in Planes /\ cloud'.site = cloud.site /\ cloud'.client
            /\ cloud'.resources = cloud.resources
        BY <1>0, <2>2 DEF Planes
      <3>3. Behind(Rec("ssh", q.status, q.site), cloud')
        BY <1>0, <2>1, <3>2 DEF Behind
      <3>4. \E r \in Enrolments :
              /\ enrol' = [enrol EXCEPT ![e] = r] /\ r.at # "idle" /\ r.crossed = enrol[e].crossed
              /\ Behind(r, cloud')
        BY <1>1, <1>2, <3>1, <3>3 DEF Stages
      <3>5. safe' \in Safes /\ netMade' \in 0..MaxPasswords /\ enrol[e].at # "idle"
        BY <1>0, <2>1 DEF q
      <3>6. Grown(cloud, cloud')
        BY <3>2 DEF Grown
      <3> QED BY <2>1, <3>2, <3>4, <3>5, <3>6
    <2>3. CASE enrol' = [enrol EXCEPT ![e] = Net!Degraded([q EXCEPT !.at = "ssh"])] /\ UNCHANGED cloud
      <3>1. enrol' = [enrol EXCEPT ![e] = Rec("ssh", "degraded", q.site)]
        BY Zenon, <1>0, <2>3, ReportedDegraded
      <3>2. Behind(Rec("ssh", "degraded", q.site), cloud')
        BY DEF Behind
      <3> QED BY <1>0, <1>1, <1>2, <2>1, <2>3, <3>1, <3>2 DEF Grown, Stages, q
    <2>4. CASE /\ enrol' = [enrol EXCEPT ![e] = Net!Degraded([q EXCEPT !.at = "ssh"])]
               /\ cloud' = [cloud EXCEPT !.client = TRUE]
      <3>1. enrol' = [enrol EXCEPT ![e] = Rec("ssh", "degraded", q.site)]
        BY Zenon, <1>0, <2>4, ReportedDegraded
      <3>2. /\ cloud' \in Planes /\ cloud'.site = cloud.site /\ cloud'.client
            /\ cloud'.resources = cloud.resources
        BY <1>0, <2>4 DEF Planes
      <3>3. Behind(Rec("ssh", "degraded", q.site), cloud')
        BY DEF Behind
      <3>4. \E r \in Enrolments :
              /\ enrol' = [enrol EXCEPT ![e] = r] /\ r.at # "idle" /\ r.crossed = enrol[e].crossed
              /\ Behind(r, cloud')
        BY <1>1, <1>2, <3>1, <3>3 DEF Stages
      <3>5. safe' \in Safes /\ netMade' \in 0..MaxPasswords /\ enrol[e].at # "idle"
        BY <1>0, <2>1 DEF q
      <3>6. Grown(cloud, cloud')
        BY <3>2 DEF Grown
      <3> QED BY <2>1, <3>2, <3>4, <3>5, <3>6
    <2> QED BY <2>1, <2>2, <2>3, <2>4
  <1>6. CASE Net!addResource(e)
    <2> DEFINE next == IF q.at = "ssh" THEN "rd" ELSE "done"
    <2>1. /\ q.at \in {"ssh", "rd"} /\ UNCHANGED <<safe, netMade, prov, listed, netWire, codes, newt, down>>
          /\ \/ /\ cloud.site # 0 /\ cloud' = [cloud EXCEPT !.resources = @ \cup {q.at}]
                /\ enrol' = [enrol EXCEPT ![e] = [q EXCEPT !.at = next]]
             \/ /\ enrol' = [enrol EXCEPT ![e] = Net!Degraded([q EXCEPT !.at = next])]
                /\ UNCHANGED cloud
      BY <1>6 DEF Net!addResource, Net!registry, Net!Wires, NetTypes
    <2>2. next \in {"rd", "done"} /\ (next = "rd" <=> q.at = "ssh")
      OBVIOUS
    <2> HIDE DEF q, next
    <2>3. CASE /\ cloud.site # 0 /\ cloud' = [cloud EXCEPT !.resources = @ \cup {q.at}]
               /\ enrol' = [enrol EXCEPT ![e] = [q EXCEPT !.at = next]]
      <3>1. enrol' = [enrol EXCEPT ![e] = Rec(next, q.status, q.site)]
        BY Zenon, <1>0, <2>3, ReportedAt
      <3>2. /\ cloud' \in Planes /\ cloud'.site = cloud.site /\ cloud'.client = cloud.client
            /\ cloud'.resources = cloud.resources \cup {q.at}
        BY <1>0, <2>1, <2>3 DEF Planes, Net!Wires
      <3>3. Behind(Rec(next, q.status, q.site), cloud')
        BY <1>0, <2>1, <2>2, <2>3, <3>2 DEF Behind
      <3> QED BY <1>0, <1>1, <1>2, <2>1, <2>2, <3>1, <3>2, <3>3 DEF Grown, Stages, q
    <2>4. CASE enrol' = [enrol EXCEPT ![e] = Net!Degraded([q EXCEPT !.at = next])] /\ UNCHANGED cloud
      <3>1. enrol' = [enrol EXCEPT ![e] = Rec(next, "degraded", q.site)]
        BY Zenon, <1>0, <2>4, ReportedDegraded
      <3>2. Behind(Rec(next, "degraded", q.site), cloud')
        BY <2>2 DEF Behind
      <3> QED BY <1>0, <1>1, <1>2, <2>1, <2>2, <2>4, <3>1, <3>2 DEF Grown, Stages, q
    <2> QED BY <2>1, <2>3, <2>4
  <1> QED BY <1>3, <1>4, <1>5, <1>6

\* A step keeps it.
LEMMA NetTypesStep == NetInv /\ [Net!Next]_netVars => NetTypes'
  <1> SUFFICES ASSUME NetInv, [Net!Next]_netVars PROVE NetTypes'
    OBVIOUS
  <1>0. /\ MaxPasswords \in Nat /\ MaxCodes \in Nat /\ NetTypes /\ cloud \in Planes /\ safe \in Safes
        /\ netMade \in 0..MaxPasswords
        /\ prov \in [at : {"idle", "store", "org", "idp", "client", "done"}, set : 0..MaxPasswords]
        /\ down \in [at : {"idle", "vault", "cli", "drop", "done"}, removed : SUBSET Net!Wires]
        /\ netWire \in [Net!Wires -> {"none", "live", "revoked"}] /\ codes \in 0..MaxCodes
        /\ enrol \in [Enrols -> Enrolments]
    BY BoundsAssumption DEF NetInv, NetTypes
  <1> USE DEF Net!registry
  <1>1. CASE Net!ensureAdmin
    <2>1. /\ UNCHANGED <<safe, listed, netWire, codes, enrol, newt, down>>
          /\ \/ prov' = [at |-> "org", set |-> 0] /\ UNCHANGED <<cloud, netMade>>
             \/ /\ netMade' \in 1..MaxPasswords /\ prov' = [at |-> "store", set |-> netMade']
                /\ cloud' = [cloud EXCEPT !.admin = netMade']
      BY <1>0, <1>1 DEF Net!ensureAdmin
    <2>2. cloud' \in Planes
      BY <1>0, <2>1 DEF Planes
    <2>3. prov' \in [at : {"idle", "store", "org", "idp", "client", "done"}, set : 0..MaxPasswords]
      BY <1>0, <2>1
    <2>4. netMade' \in 0..MaxPasswords
      BY <1>0, <2>1
    <2> QED BY <1>0, <2>1, <2>2, <2>3, <2>4 DEF NetTypes
  <1>2. CASE Net!storeAdmin
    <2>1. safe' \in Safes
      BY <1>0, <1>2 DEF Net!storeAdmin, Safes
    <2>2. prov' \in [at : {"idle", "store", "org", "idp", "client", "done"}, set : 0..MaxPasswords]
      BY <1>0, <1>2 DEF Net!storeAdmin
    <2> QED BY <1>0, <1>2, <2>1, <2>2 DEF Net!storeAdmin, NetTypes
  <1>3. CASE Net!ensureOrg \/ Net!ensureOidc \/ Net!ProvisionStops
    <2>1. /\ UNCHANGED <<safe, netMade, listed, netWire, codes, enrol, newt, down>>
          /\ \E a \in {"idle", "idp", "client", "done"} : prov' = [prov EXCEPT !.at = a]
          /\ \/ UNCHANGED cloud \/ cloud' = [cloud EXCEPT !.org = TRUE]
             \/ cloud' = [cloud EXCEPT !.linked = TRUE] \/ cloud' = [cloud EXCEPT !.idp = "pending"]
             \/ \E i \in {"pending", "real"} : cloud' = [cloud EXCEPT !.idp = i, !.linked = TRUE]
      BY <1>3 DEF Net!ensureOrg, Net!ensureOidc, Net!ProvisionStops
    <2>2. cloud' \in Planes
      BY ZenonT(30), <1>0, <2>1 DEF Planes
    <2>3. prov' \in [at : {"idle", "store", "org", "idp", "client", "done"}, set : 0..MaxPasswords]
      BY <1>0, <2>1
    <2> QED BY <1>0, <2>1, <2>2, <2>3 DEF NetTypes
  <1>4. ASSUME NEW e \in Enrols, Net!enroll(e) PROVE NetTypes'
    <2>1. /\ UNCHANGED <<cloud, safe, netMade, prov, newt, down>> /\ listed' = TRUE
          /\ netWire' = [w \in Net!Wires |-> IF netWire[w] = "none" THEN "live" ELSE netWire[w]]
          /\ codes' \in 0..MaxCodes
          /\ enrol' = [enrol EXCEPT ![e] = [at |-> "site", status |-> "ok", site |-> 0,
                                            crossed |-> down.at \notin {"idle", "done"}]]
      BY <1>0, <1>4 DEF Net!enroll, Net!Upserted
    <2>2. [at |-> "site", status |-> "ok", site |-> 0, crossed |-> down.at \notin {"idle", "done"}] \in Enrolments
      BY <1>0 DEF Enrolments, Stages
    <2>3. enrol' \in [Enrols -> Enrolments]
      BY <1>0, <2>1, <2>2
    <2>4. netWire' \in [Net!Wires -> {"none", "live", "revoked"}]
      BY <1>0, <2>1
    <2> QED BY <1>0, <2>1, <2>3, <2>4 DEF NetTypes
  <1>5. ASSUME NEW e \in Enrols,
               Net!enrollSite(e) \/ Net!vaultPut(e) \/ Net!ensureHostClient(e) \/ Net!addResource(e)
        PROVE  NetTypes'
    <2>1. PICK r \in Enrolments : enrol' = [enrol EXCEPT ![e] = r]
      BY <1>0, <1>5, NetReports DEF NetInv
    <2>2. enrol' \in [Enrols -> Enrolments]
      BY <1>0, <2>1
    <2>3. /\ cloud' \in Planes /\ safe' \in Safes /\ netMade' \in 0..MaxPasswords
          /\ UNCHANGED <<prov, listed, netWire, codes, newt, down>>
      BY <1>0, <1>5, NetReports DEF NetInv
    <2> QED BY <1>0, <2>2, <2>3 DEF NetTypes
  <1>6. CASE Net!installPlan
    <2>1. safe.newtSecret \in 0..MaxPasswords
      BY <1>0 DEF Safes
    <2> QED BY <1>0, <1>6, <2>1 DEF Net!installPlan, NetTypes
  <1>7. CASE Net!ExpireCode
    <2>1. codes' \in 0..MaxCodes
      BY <1>0, <1>7 DEF Net!ExpireCode
    <2> QED BY <1>0, <1>7, <2>1 DEF Net!ExpireCode, NetTypes
  <1>8. CASE Net!teardown
    <2>1. /\ UNCHANGED <<cloud, safe, netMade, prov, listed, codes, newt>>
          /\ down' = [at |-> "vault", removed |-> {}]
          /\ netWire' = [w \in Net!Wires |-> IF netWire[w] = "none" THEN "none" ELSE "revoked"]
          /\ enrol' = [e \in Enrols |-> [enrol[e] EXCEPT !.crossed = TRUE]]
      BY <1>8 DEF Net!teardown, Net!Revoked
    <2>2. \A r \in Enrolments : [r EXCEPT !.crossed = TRUE] \in Enrolments
      BY DEF Enrolments
    <2>3. enrol' \in [Enrols -> Enrolments]
      BY <1>0, <2>1, <2>2
    <2>4. netWire' \in [Net!Wires -> {"none", "live", "revoked"}]
      BY <2>1
    <2>5. down' \in [at : {"idle", "vault", "cli", "drop", "done"}, removed : SUBSET Net!Wires]
      BY <2>1
    <2> QED BY <1>0, <2>1, <2>3, <2>4, <2>5 DEF NetTypes
  <1>9. CASE Net!meshCli
    <2>1. /\ UNCHANGED <<cloud, safe, netMade, prov, listed, netWire, codes, enrol, newt>>
          /\ \/ down' = [down EXCEPT !.at = "cli"]
             \/ \E gone \in {{}, Net!Wires} : down' = [at |-> "drop", removed |-> gone]
      BY <1>9 DEF Net!meshCli
    <2>2. down' \in [at : {"idle", "vault", "cli", "drop", "done"}, removed : SUBSET Net!Wires]
      BY <1>0, <2>1
    <2> QED BY <1>0, <2>1, <2>2 DEF NetTypes
  <1>10. CASE Net!dropTransports
    <2>1. /\ down' = [down EXCEPT !.at = "done"] /\ netWire' = [w \in Net!Wires |-> "none"]
          /\ newt' \in {0, newt} /\ UNCHANGED <<cloud, safe, netMade, prov, listed, codes, enrol>>
      BY <1>10 DEF Net!dropTransports
    <2>2. down' \in [at : {"idle", "vault", "cli", "drop", "done"}, removed : SUBSET Net!Wires]
      BY <1>0, <2>1
    <2>3. netWire' \in [Net!Wires -> {"none", "live", "revoked"}]
      BY <2>1
    <2>4. newt' \in 0..MaxPasswords
      BY <1>0, <2>1 DEF NetTypes
    <2> QED BY <1>0, <2>1, <2>2, <2>3, <2>4 DEF NetTypes
  <1>11. CASE Net!revoke
    <2>1. netWire' \in [Net!Wires -> {"none", "live", "revoked"}]
      BY <1>11 DEF Net!revoke, Net!Revoked
    <2> QED BY <1>0, <1>11, <2>1 DEF Net!revoke, NetTypes
  <1>12. CASE Net!victoryLap \/ UNCHANGED netVars
    BY <1>0, <1>12 DEF Net!victoryLap, Net!vars, netVars, NetTypes
  <1> QED
    BY <1>1, <1>2, <1>3, <1>4, <1>5, <1>6, <1>7, <1>8, <1>9, <1>10, <1>11, <1>12 DEF Net!Next

\* A step keeps it.
LEMMA BehindStep == NetInv /\ [Net!Next]_netVars => \A e \in Enrols : Behind(enrol'[e], cloud')
  <1> SUFFICES ASSUME NetInv, [Net!Next]_netVars PROVE \A e \in Enrols : Behind(enrol'[e], cloud')
    OBVIOUS
  <1>0. /\ cloud \in Planes /\ enrol \in [Enrols -> Enrolments] /\ \A e \in Enrols : Behind(enrol[e], cloud)
    BY DEF NetInv, NetTypes
  <1>1. ASSUME NEW r, NEW new, Behind(r, cloud), Grown(cloud, new) PROVE Behind(r, new)
    BY <1>1 DEF Behind, Grown
  <1>2. CASE UNCHANGED enrol /\ Grown(cloud, cloud')
    BY <1>0, <1>1, <1>2
  <1>3. ASSUME NEW e \in Enrols, Net!enroll(e) PROVE \A d \in Enrols : Behind(enrol'[d], cloud')
    <2>1. UNCHANGED cloud /\ enrol'[e].at = "site" /\ \A d \in Enrols : d # e => enrol'[d] = enrol[d]
      BY <1>0, <1>3 DEF Net!enroll
    <2>2. Behind(enrol'[e], cloud')
      BY <2>1 DEF Behind
    <2> QED BY <1>0, <2>1, <2>2
  <1>4. ASSUME NEW e \in Enrols,
               Net!enrollSite(e) \/ Net!vaultPut(e) \/ Net!ensureHostClient(e) \/ Net!addResource(e)
        PROVE  \A d \in Enrols : Behind(enrol'[d], cloud')
    <2>1. PICK r \in Enrolments : enrol' = [enrol EXCEPT ![e] = r] /\ Behind(r, cloud')
      BY <1>0, <1>4, NetReports DEF NetInv
    <2>2. Grown(cloud, cloud')
      BY <1>0, <1>4, NetReports DEF NetInv
    <2> QED BY <1>0, <1>1, <2>1, <2>2
  <1>5. CASE Net!teardown
    <2>1. UNCHANGED cloud /\ enrol' = [e \in Enrols |-> [enrol[e] EXCEPT !.crossed = TRUE]]
      BY <1>5 DEF Net!teardown
    <2>2. ASSUME NEW r \in Enrolments, Behind(r, cloud) PROVE Behind([r EXCEPT !.crossed = TRUE], cloud)
      <3>1. /\ [r EXCEPT !.crossed = TRUE].at = r.at /\ [r EXCEPT !.crossed = TRUE].status = r.status
            /\ [r EXCEPT !.crossed = TRUE].site = r.site
        BY DEF Enrolments
      <3> QED BY <2>2, <3>1 DEF Behind
    <2> QED BY <1>0, <2>1, <2>2
  <1>6. CASE Net!ensureAdmin \/ Net!ensureOrg \/ Net!ensureOidc
    <2>1. UNCHANGED enrol
      BY <1>6 DEF Net!ensureAdmin, Net!ensureOrg, Net!ensureOidc
    <2>2. \/ UNCHANGED cloud \/ cloud' = [cloud EXCEPT !.org = TRUE] \/ cloud' = [cloud EXCEPT !.admin = netMade + 1]
          \/ cloud' = [cloud EXCEPT !.linked = TRUE] \/ cloud' = [cloud EXCEPT !.idp = "pending"]
          \/ \E i \in {"pending", "real"} : cloud' = [cloud EXCEPT !.idp = i, !.linked = TRUE]
      BY <1>6 DEF Net!ensureAdmin, Net!ensureOrg, Net!ensureOidc
    <2>3. cloud'.site = cloud.site /\ cloud'.client = cloud.client /\ cloud'.resources = cloud.resources
      BY <1>0, <2>2 DEF Planes
    <2> QED BY <1>2, <2>1, <2>3 DEF Grown
  <1>7. CASE UNCHANGED <<enrol, cloud>>
    BY <1>0, <1>7
  <1> QED
    BY <1>3, <1>4, <1>5, <1>6, <1>7 DEF Net!Next, Net!storeAdmin, Net!ProvisionStops, Net!installPlan,
       Net!ExpireCode, Net!victoryLap, Net!vars, Net!meshCli, Net!dropTransports, Net!revoke, netVars

\* A step keeps it.
LEMMA CrossingStep == NetInv /\ [Net!Next]_netVars => Crossing'
  <1> SUFFICES ASSUME NetInv, [Net!Next]_netVars PROVE Crossing'
    OBVIOUS
  <1>0. /\ Crossing /\ enrol \in [Enrols -> Enrolments]
        /\ netWire \in [Net!Wires -> {"none", "live", "revoked"}]
        /\ down \in [at : {"idle", "vault", "cli", "drop", "done"}, removed : SUBSET Net!Wires]
    BY DEF NetInv, NetTypes
  <1> USE DEF Net!registry
  <1>1. CASE UNCHANGED <<enrol, listed, netWire, down>>
    BY <1>0, <1>1 DEF Crossing, Net!LandsInFleet
  <1>2. ASSUME NEW e \in Enrols, Net!enroll(e) PROVE Crossing'
    <2>1. /\ listed' = TRUE /\ \A w \in Net!Wires : netWire'[w] # "none"
          /\ enrol'[e].crossed = (down.at \notin {"idle", "done"}) /\ UNCHANGED down
          /\ \A d \in Enrols : d # e => enrol'[d] = enrol[d]
      BY <1>0, <1>2 DEF Net!enroll, Net!Upserted
    <2> QED BY <1>0, <2>1 DEF Crossing, Net!LandsInFleet
  <1>3. ASSUME NEW e \in Enrols,
               Net!enrollSite(e) \/ Net!vaultPut(e) \/ Net!ensureHostClient(e) \/ Net!addResource(e)
        PROVE  Crossing'
    <2>1. PICK r \in Enrolments : enrol' = [enrol EXCEPT ![e] = r] /\ r.crossed = enrol[e].crossed
      BY <1>0, <1>3, NetReports DEF NetInv
    <2>2. enrol[e].at # "idle" /\ UNCHANGED <<listed, netWire, down>>
      BY <1>0, <1>3, NetReports DEF NetInv
    <2>3. \A d \in Enrols : enrol'[d].at # "idle" => enrol[d].at # "idle" /\ enrol'[d].crossed = enrol[d].crossed
      BY <1>0, <2>1, <2>2
    <2> QED BY <1>0, <2>2, <2>3 DEF Crossing, Net!LandsInFleet
  <1>4. CASE Net!teardown
    <2>1. \A e \in Enrols : enrol'[e] = [enrol[e] EXCEPT !.crossed = TRUE]
      BY <1>4 DEF Net!teardown
    <2>2. \A r \in Enrolments : [r EXCEPT !.crossed = TRUE].crossed
      BY DEF Enrolments
    <2>3. \A e \in Enrols : enrol'[e].crossed
      <3>1. \A e \in Enrols : enrol[e] \in Enrolments
        BY <1>0
      <3> QED BY Zenon, <2>1, <2>2, <3>1
    <2> QED BY <2>3 DEF Crossing, Net!LandsInFleet
  <1>5. CASE Net!meshCli
    <2>1. UNCHANGED <<enrol, listed, netWire>> /\ down.at \notin {"idle", "done"}
      BY <1>5 DEF Net!meshCli
    <2> QED BY <1>0, <2>1 DEF Crossing, Net!LandsInFleet
  <1>6. CASE Net!dropTransports
    <2>1. UNCHANGED <<enrol, listed>> /\ down.at = "drop" /\ down'.at = "done"
      BY <1>0, <1>6 DEF Net!dropTransports
    <2> QED BY <1>0, <2>1 DEF Crossing, Net!LandsInFleet
  <1>7. CASE Net!revoke
    <2>1. UNCHANGED <<enrol, listed, down>> /\ \A w \in Net!Wires : netWire[w] # "none" => netWire'[w] # "none"
      BY <1>7 DEF Net!revoke, Net!Revoked
    <2> QED BY <1>0, <2>1 DEF Crossing, Net!LandsInFleet
  <1> QED
    BY <1>1, <1>2, <1>3, <1>4, <1>5, <1>6, <1>7 DEF Net!Next, Net!ensureAdmin, Net!storeAdmin,
       Net!ensureOrg, Net!ensureOidc, Net!ProvisionStops, Net!installPlan, Net!ExpireCode,
       Net!victoryLap, Net!vars, netVars

\* What an enrolment reports is what it left, and the device is in the fleet with both transports unless a
\* teardown crossed it: for any number of requests, codes and secrets, wherever the mesh refuses.
THEOREM EnrolledAsReported == Spec => [](Net!TypeOK /\ Net!StatusIsHonest /\ Net!LandsInFleet)
  <1>1. NetInv => Net!TypeOK /\ Net!StatusIsHonest /\ Net!LandsInFleet
    <2> SUFFICES ASSUME NetInv PROVE Net!TypeOK /\ Net!StatusIsHonest /\ Net!LandsInFleet
      OBVIOUS
    <2>1. cloud \in Planes /\ enrol \in [Enrols -> Enrolments]
      BY DEF NetInv, NetTypes
    <2>2. Net!StatusIsHonest
      <3>1. cloud.resources \subseteq {"ssh", "rd"}
        BY <2>1 DEF Planes, Net!Wires
      <3> QED BY <3>1 DEF NetInv, Behind, Net!StatusIsHonest, Net!Wires
    <2>3. /\ cloud.admin \in Net!Secrets /\ cloud.site \in Net!Secrets /\ cloud.idp \in {"none", "pending", "real"}
          /\ cloud.org \in BOOLEAN /\ cloud.linked \in BOOLEAN /\ cloud.client \in BOOLEAN
          /\ cloud.resources \subseteq Net!Wires
      BY <2>1 DEF Planes, Net!Secrets
    <2>4. \A e \in Enrols : enrol[e].at \in Stages /\ enrol[e].status \in {"ok", "degraded"}
      BY <2>1 DEF Enrolments
    <2>5. Net!TypeOK
      BY <2>3, <2>4 DEF NetInv, NetTypes, Net!TypeOK, Net!Secrets, Safes, Stages
    <2> QED BY <2>2, <2>5 DEF NetInv, Crossing
  <1>2. NetInv /\ [Net!Next]_netVars => NetInv'
    BY NetTypesStep, BehindStep, CrossingStep DEF NetInv
  <1> QED BY <1>1, <1>2, NetInit, EachOnItsOwn, PTL

---------------------------------------------------------------------------
(* The remote desktop: its broker and its viewers.                          *)

\* A device the broker was told of, with nothing of it in hand, is being asked about no more.
Outside ==
  /\ poke \cup screenTold \subseteq revoked
  /\ \A d \in screenTold \ screenLate :
       /\ d \notin known /\ screenAsking[d] # "good" /\ \A s \in sessions : s.v # d
       /\ d = Screen!Machine /\ ownId => ~hosting
       /\ d \in Viewers => \A k \in Screen!Attempts : attempt[d][k] \notin {"view", "control"}

BrokerInv == Screen!ScreenTypeOK /\ Screen!OneLiveConnection /\ Outside

\* It holds at the start.
LEMMA BrokerInit == Screen!ScreenInit => BrokerInv
  <1> SUFFICES ASSUME Screen!ScreenInit PROVE BrokerInv
    OBVIOUS
  <1>0. MaxAttempts \in Nat
    BY BoundsAssumption
  <1>1. Screen!ScreenTypeOK
    <2>1. /\ screenAsking \in [Screen!Devices -> {"no", "good", "bad"}]
          /\ holder \in [Viewers -> 0..MaxAttempts]
          /\ screenGen \in [Viewers -> 0..MaxAttempts] /\ last \in [Viewers -> 0..MaxAttempts]
          /\ screenStream \in [Viewers -> SUBSET Screen!Attempts] /\ waker \in [Viewers -> 0..MaxAttempts]
      BY <1>0 DEF Screen!ScreenInit
    <2>2. attempt \in [Viewers -> [Screen!Attempts -> {"off", "waiting", "asking", "view", "control", "live", "over"}]]
      BY DEF Screen!ScreenInit
    <2>3. /\ ownId \in BOOLEAN /\ hosting \in BOOLEAN
          /\ revoked = {} /\ poke = {} /\ screenTold = {} /\ known = {} /\ screenLate = {}
          /\ sessions = {} /\ screenMedia = {}
      BY DEF Screen!ScreenInit
    <2>4. \A s \in {revoked, poke, screenTold, known, screenLate} : s \subseteq Screen!Devices
      BY <2>3
    <2>5. /\ sessions \subseteq [v : Viewers, k : Screen!Attempts, control : BOOLEAN]
          /\ screenMedia \subseteq Viewers \X Screen!Attempts
      BY <2>3
    <2> QED BY <2>1, <2>2, <2>3, <2>4, <2>5 DEF Screen!ScreenTypeOK
  <1>2. Screen!OneLiveConnection
    BY DEF Screen!ScreenInit, Screen!OneLiveConnection
  <1> QED BY <1>1, <1>2 DEF BrokerInv, Outside, Screen!ScreenInit

Phases == {"off", "waiting", "asking", "view", "control", "live", "over"}

\* The broker's goodbyes end live attempts, and with an attempt its viewer's generation.
LEMMA Goodbyes ==
  ASSUME Screen!ScreenTypeOK, Screen!OneLiveConnection, NEW gone, Screen!Byes(gone)
  PROVE  /\ attempt' \in [Viewers -> [Screen!Attempts -> Phases]]
         /\ screenGen' \in [Viewers -> 0..MaxAttempts]
         /\ screenStream' \in [Viewers -> SUBSET Screen!Attempts]
         /\ screenMedia' \subseteq Viewers \X Screen!Attempts
         /\ \A v \in Viewers, k \in Screen!Attempts : attempt'[v][k] \in {attempt[v][k], "over"}
         /\ Screen!OneLiveConnection'
         /\ UNCHANGED <<last, waker>>
  <1> DEFINE hit(v) == {k \in Screen!Attempts : /\ \E s \in gone : s.v = v /\ s.k = k
                                                /\ screenGen[v] = k /\ holder[v] = k /\ attempt[v][k] = "live"}
  <1>0. /\ attempt \in [Viewers -> [Screen!Attempts -> Phases]] /\ screenGen \in [Viewers -> 0..MaxAttempts]
        /\ screenStream \in [Viewers -> SUBSET Screen!Attempts]
        /\ screenMedia \subseteq Viewers \X Screen!Attempts /\ MaxAttempts \in Nat
        /\ \A v \in Viewers, k \in Screen!Attempts : attempt[v][k] = "live" => screenGen[v] = k
    BY BoundsAssumption DEF Screen!ScreenTypeOK, Phases, Screen!OneLiveConnection
  <1>1. /\ attempt' = [v \in Viewers |-> [k \in Screen!Attempts |-> IF k \in hit(v) THEN "over" ELSE attempt[v][k]]]
        /\ screenGen' = [v \in Viewers |-> IF hit(v) # {} THEN 0 ELSE screenGen[v]]
        /\ screenStream' = [v \in Viewers |-> screenStream[v] \ hit(v)]
        /\ screenMedia' \subseteq screenMedia /\ UNCHANGED <<last, waker>>
    BY DEF Screen!Byes
  <1>2. \A v \in Viewers : hit(v) \subseteq {screenGen[v]}
    OBVIOUS
  <1> HIDE DEF hit
  <1>3. attempt' \in [Viewers -> [Screen!Attempts -> Phases]]
    BY <1>0, <1>1 DEF Phases
  <1>4. screenGen' \in [Viewers -> 0..MaxAttempts]
    BY <1>0, <1>1
  <1>5. screenStream' \in [Viewers -> SUBSET Screen!Attempts]
    BY <1>0, <1>1
  <1>6. \A v \in Viewers, k \in Screen!Attempts : attempt'[v][k] = IF k \in hit(v) THEN "over" ELSE attempt[v][k]
    BY <1>1
  <1>7. ASSUME NEW v \in Viewers, NEW k \in Screen!Attempts, attempt'[v][k] = "live" PROVE screenGen'[v] = k
    <2>1. k \notin hit(v) /\ attempt[v][k] = "live"
      BY <1>6, <1>7
    <2>2. screenGen[v] = k
      BY <1>0, <2>1
    <2>3. hit(v) = {}
      BY <1>2, <2>1, <2>2
    <2> QED BY <1>1, <2>2, <2>3
  <1> QED BY <1>0, <1>1, <1>3, <1>4, <1>5, <1>6, <1>7 DEF Screen!OneLiveConnection

\* What an action of a viewer, or of its stream, does to its attempts.
LEMMA AttemptsStep ==
  ASSUME Screen!ScreenTypeOK, Screen!OneLiveConnection, NEW v \in Viewers,
         \/ Screen!close(v) \/ Screen!connect(v)
         \/ \E k \in Screen!Attempts : \/ Screen!rdStream(v, k) \/ Screen!waitReady(v, k) \/ Screen!openSession(v, k)
                                       \/ \E g \in Screen!Grants : Screen!grantsFor(v, k, g)
  PROVE  /\ attempt' \in [Viewers -> [Screen!Attempts -> Phases]] /\ Screen!OneLiveConnection'
         /\ screenGen' \in [Viewers -> 0..MaxAttempts] /\ last' \in [Viewers -> 0..MaxAttempts]
         /\ waker' \in [Viewers -> 0..MaxAttempts] /\ holder' \in [Viewers -> 0..MaxAttempts]
         /\ screenStream' \in [Viewers -> SUBSET Screen!Attempts] /\ screenMedia' \subseteq Viewers \X Screen!Attempts
         /\ \A w \in Viewers, i \in Screen!Attempts : attempt'[w][i] \in {"view", "control"} =>
              \/ attempt[w][i] = attempt'[w][i]
              \/ w \in known
  <1>0. /\ attempt \in [Viewers -> [Screen!Attempts -> Phases]] /\ screenGen \in [Viewers -> 0..MaxAttempts]
        /\ last \in [Viewers -> 0..MaxAttempts] /\ waker \in [Viewers -> 0..MaxAttempts]
        /\ holder \in [Viewers -> 0..MaxAttempts] /\ MaxAttempts \in Nat
        /\ screenStream \in [Viewers -> SUBSET Screen!Attempts] /\ screenMedia \subseteq Viewers \X Screen!Attempts
        /\ \A w \in Viewers, k \in Screen!Attempts : attempt[w][k] = "live" => screenGen[w] = k
    BY BoundsAssumption DEF Screen!ScreenTypeOK, Phases, Screen!OneLiveConnection
  <1> DEFINE mine == {i \in Screen!Attempts : attempt[v][i] = "live"}
  <1>1. CASE Screen!close(v)
    <2>1. /\ screenGen' = [screenGen EXCEPT ![v] = 0]
          /\ attempt' = [attempt EXCEPT ![v] = [k \in Screen!Attempts |-> IF k \in mine THEN "over" ELSE attempt[v][k]]]
          /\ screenStream' = [screenStream EXCEPT ![v] = screenStream[v] \ mine]
          /\ holder' = [holder EXCEPT ![v] = IF holder[v] \in mine THEN 0 ELSE holder[v]]
          /\ screenMedia' \subseteq screenMedia /\ UNCHANGED <<last, waker>>
      BY <1>0, <1>1 DEF Screen!close, Screen!disconnect
    <2>2. \A w \in Viewers, i \in Screen!Attempts :
            attempt'[w][i] = IF w = v /\ attempt[v][i] = "live" THEN "over" ELSE attempt[w][i]
      BY <1>0, <2>1
    <2> QED BY <1>0, <2>1, <2>2 DEF Phases, Screen!OneLiveConnection
  <1>2. CASE Screen!connect(v)
    <2> DEFINE n == last[v] + 1
    <2>1. /\ last[v] < MaxAttempts /\ last' = [last EXCEPT ![v] = n]
          /\ screenGen' = [screenGen EXCEPT ![v] = n] /\ waker' = [waker EXCEPT ![v] = n]
          /\ attempt' = [attempt EXCEPT ![v] = [i \in Screen!Attempts |-> IF i = n THEN "waiting"
                                                  ELSE IF i \in mine THEN "over" ELSE attempt[v][i]]]
          /\ screenStream' = [screenStream EXCEPT ![v] = (screenStream[v] \ mine) \cup {n}]
          /\ holder' = [holder EXCEPT ![v] = IF holder[v] \in mine THEN 0 ELSE holder[v]]
          /\ screenMedia' \subseteq screenMedia
      BY <1>0, <1>2 DEF Screen!connect
    <2>2. n \in Screen!Attempts
      BY <1>0, <2>1 DEF Screen!Attempts
    <2> HIDE DEF n
    <2>3. \A w \in Viewers, i \in Screen!Attempts :
            attempt'[w][i] = IF w = v THEN IF i = n THEN "waiting"
                                           ELSE IF attempt[v][i] = "live" THEN "over" ELSE attempt[v][i]
                             ELSE attempt[w][i]
      BY <1>0, <2>1
    <2>4. n \in 0..MaxAttempts
      BY <1>0, <2>2 DEF Screen!Attempts
    <2>5. attempt' \in [Viewers -> [Screen!Attempts -> Phases]]
      BY <1>0, <2>1 DEF Phases
    <2>6. /\ screenGen' \in [Viewers -> 0..MaxAttempts] /\ last' \in [Viewers -> 0..MaxAttempts]
          /\ waker' \in [Viewers -> 0..MaxAttempts] /\ holder' \in [Viewers -> 0..MaxAttempts]
          /\ screenStream' \in [Viewers -> SUBSET Screen!Attempts] /\ screenMedia' \subseteq Viewers \X Screen!Attempts
      BY <1>0, <2>1, <2>2, <2>4
    <2>7. Screen!OneLiveConnection'
      BY <1>0, <2>1, <2>3 DEF Screen!OneLiveConnection
    <2> QED BY <2>3, <2>5, <2>6, <2>7
  <1> HIDE DEF mine
  <1>3. ASSUME NEW k \in Screen!Attempts, Screen!Abandon(v, k)
        PROVE  /\ \A w \in Viewers, i \in Screen!Attempts :
                    attempt'[w][i] = IF w = v /\ i = k THEN "over" ELSE attempt[w][i]
               /\ attempt' \in [Viewers -> [Screen!Attempts -> Phases]]
               /\ holder' \in [Viewers -> 0..MaxAttempts] /\ screenStream' \in [Viewers -> SUBSET Screen!Attempts]
    BY <1>0, <1>3 DEF Screen!Abandon, Phases
  <1>4. ASSUME NEW k \in Screen!Attempts, Screen!rdStream(v, k)
        PROVE  /\ \A w \in Viewers, i \in Screen!Attempts : attempt'[w][i] \in {attempt[w][i], "asking"}
               /\ attempt' \in [Viewers -> [Screen!Attempts -> Phases]]
               /\ holder' \in [Viewers -> 0..MaxAttempts] /\ waker' \in [Viewers -> 0..MaxAttempts]
               /\ UNCHANGED <<screenGen, last, screenStream, screenMedia>>
    <2>1. k \in 0..MaxAttempts
      BY <1>0 DEF Screen!Attempts
    <2>2. waker[v] # 0 => waker[v] \in Screen!Attempts
      BY <1>0 DEF Screen!Attempts
    <2>3. UNCHANGED <<screenGen, last, screenStream, screenMedia>>
          /\ holder' = [holder EXCEPT ![v] = k]
          /\ \/ /\ waker[v] # 0 /\ waker' = [waker EXCEPT ![v] = 0]
                /\ attempt' = [attempt EXCEPT ![v][waker[v]] = "asking"]
             \/ UNCHANGED <<waker, attempt>>
      BY <1>4 DEF Screen!rdStream
    <2>4. holder' \in [Viewers -> 0..MaxAttempts] /\ waker' \in [Viewers -> 0..MaxAttempts]
      BY <1>0, <2>1, <2>3
    <2>5. attempt' \in [Viewers -> [Screen!Attempts -> Phases]]
      <3>1. CASE waker[v] # 0 /\ attempt' = [attempt EXCEPT ![v][waker[v]] = "asking"]
        <4>1. attempt' = [attempt EXCEPT ![v] = [attempt[v] EXCEPT ![waker[v]] = "asking"]]
          BY <3>1
        <4>2. [attempt[v] EXCEPT ![waker[v]] = "asking"] \in [Screen!Attempts -> Phases]
          BY <1>0 DEF Phases
        <4> QED BY <1>0, <4>1, <4>2
      <3> QED BY <1>0, <2>3, <3>1
    <2>6. \A w \in Viewers, i \in Screen!Attempts : attempt'[w][i] \in {attempt[w][i], "asking"}
      BY <1>0, <2>2, <2>3
    <2> QED BY <2>3, <2>4, <2>5, <2>6
  <1>5. ASSUME NEW k \in Screen!Attempts, Screen!waitReady(v, k)
        PROVE  /\ \A w \in Viewers, i \in Screen!Attempts :
                    attempt'[w][i] = IF w = v /\ i = k THEN "over" ELSE attempt[w][i]
               /\ attempt' \in [Viewers -> [Screen!Attempts -> Phases]]
               /\ holder' \in [Viewers -> 0..MaxAttempts] /\ waker' \in [Viewers -> 0..MaxAttempts]
               /\ screenStream' \in [Viewers -> SUBSET Screen!Attempts]
               /\ screenGen' = [screenGen EXCEPT ![v] = IF screenGen[v] = k THEN 0 ELSE screenGen[v]]
               /\ UNCHANGED <<last, screenMedia>>
    BY <1>0, <1>5 DEF Screen!waitReady, Phases
  <1>6. ASSUME NEW k \in Screen!Attempts, NEW g \in Screen!Grants, Screen!grantsFor(v, k, g)
        PROVE  /\ v \in known /\ UNCHANGED <<last, screenMedia, waker>>
               /\ \/ /\ attempt' = [attempt EXCEPT ![v][k] = g] /\ g # "none"
                     /\ UNCHANGED <<screenStream, screenGen, holder>>
                  \/ /\ Screen!Abandon(v, k)
                     /\ screenGen' = [screenGen EXCEPT ![v] = IF screenGen[v] = k THEN 0 ELSE screenGen[v]]
    BY <1>0, <1>6 DEF Screen!grantsFor
  <1>7. ASSUME NEW k \in Screen!Attempts, Screen!openSession(v, k)
        PROVE  /\ UNCHANGED <<screenGen, last, screenMedia, waker>>
               /\ \/ Screen!Abandon(v, k)
                  \/ /\ screenGen[v] = k /\ attempt' = [attempt EXCEPT ![v][k] = "live"]
                     /\ UNCHANGED <<screenStream, holder>>
    BY <1>0, <1>7 DEF Screen!openSession, Screen!Superseded
  <1>8. ASSUME NEW k \in Screen!Attempts, Screen!rdStream(v, k) PROVE Screen!OneLiveConnection'
    BY <1>0, <1>4, <1>8 DEF Screen!OneLiveConnection
  <1>9. ASSUME NEW k \in Screen!Attempts,
               \A w \in Viewers, i \in Screen!Attempts :
                 attempt'[w][i] = IF w = v /\ i = k THEN "over" ELSE attempt[w][i],
               \/ screenGen' = [screenGen EXCEPT ![v] = IF screenGen[v] = k THEN 0 ELSE screenGen[v]]
               \/ UNCHANGED screenGen
        PROVE  Screen!OneLiveConnection' /\ screenGen' \in [Viewers -> 0..MaxAttempts]
    <2>1. ASSUME NEW w \in Viewers, NEW i \in Screen!Attempts, attempt'[w][i] = "live" PROVE screenGen'[w] = i
      <3>1. attempt[w][i] = "live" /\ ~(w = v /\ i = k)
        BY <1>9, <2>1
      <3>2. screenGen[w] = i
        BY <1>0, <3>1
      <3> QED BY <1>0, <1>9, <3>1, <3>2
    <2>2. screenGen' \in [Viewers -> 0..MaxAttempts]
      BY <1>0, <1>9
    <2> QED BY <2>1, <2>2 DEF Screen!OneLiveConnection
  <1>10. ASSUME NEW k \in Screen!Attempts, NEW g \in {"view", "control", "live"},
                attempt' = [attempt EXCEPT ![v][k] = g], UNCHANGED screenGen, g = "live" => screenGen[v] = k
         PROVE  /\ Screen!OneLiveConnection' /\ attempt' \in [Viewers -> [Screen!Attempts -> Phases]]
                /\ \A w \in Viewers, i \in Screen!Attempts :
                     attempt'[w][i] = IF w = v /\ i = k THEN g ELSE attempt[w][i]
    BY <1>0, <1>10 DEF Screen!OneLiveConnection, Phases
  <1> DEFINE Fine ==
         /\ attempt' \in [Viewers -> [Screen!Attempts -> Phases]] /\ Screen!OneLiveConnection'
         /\ screenGen' \in [Viewers -> 0..MaxAttempts] /\ last' \in [Viewers -> 0..MaxAttempts]
         /\ waker' \in [Viewers -> 0..MaxAttempts] /\ holder' \in [Viewers -> 0..MaxAttempts]
         /\ screenStream' \in [Viewers -> SUBSET Screen!Attempts] /\ screenMedia' \subseteq Viewers \X Screen!Attempts
         /\ \A w \in Viewers, i \in Screen!Attempts : attempt'[w][i] \in {"view", "control"} =>
              \/ attempt[w][i] = attempt'[w][i]
              \/ w \in known
  <1>11. ASSUME NEW k \in Screen!Attempts, Screen!rdStream(v, k) PROVE Fine
    BY <1>0, <1>4, <1>8, <1>11
  <1>12. ASSUME NEW k \in Screen!Attempts, Screen!waitReady(v, k) PROVE Fine
    <2>1. Screen!OneLiveConnection' /\ screenGen' \in [Viewers -> 0..MaxAttempts]
      BY <1>5, <1>9, <1>12
    <2> QED BY <1>0, <1>5, <1>12, <2>1
  <1>13. ASSUME NEW k \in Screen!Attempts, NEW g \in Screen!Grants, Screen!grantsFor(v, k, g) PROVE Fine
    <2>1. CASE attempt' = [attempt EXCEPT ![v][k] = g] /\ g # "none" /\ UNCHANGED <<screenStream, screenGen, holder>>
      <3>1. g \in {"view", "control", "live"} /\ g # "live"
        BY <2>1 DEF Screen!Grants
      <3>2. /\ Screen!OneLiveConnection' /\ attempt' \in [Viewers -> [Screen!Attempts -> Phases]]
            /\ \A w \in Viewers, i \in Screen!Attempts : attempt'[w][i] = IF w = v /\ i = k THEN g ELSE attempt[w][i]
        BY ZenonT(30), <1>10, <2>1, <3>1
      <3> QED BY <1>0, <1>6, <1>13, <2>1, <3>2
    <2>2. CASE /\ Screen!Abandon(v, k)
               /\ screenGen' = [screenGen EXCEPT ![v] = IF screenGen[v] = k THEN 0 ELSE screenGen[v]]
      <3>1. Screen!OneLiveConnection' /\ screenGen' \in [Viewers -> 0..MaxAttempts]
        BY <1>3, <1>9, <2>2
      <3> QED BY ZenonT(30), <1>0, <1>3, <1>6, <1>13, <2>2, <3>1
    <2> QED BY <1>6, <1>13, <2>1, <2>2
  <1>14. ASSUME NEW k \in Screen!Attempts, Screen!openSession(v, k) PROVE Fine
    <2>1. CASE Screen!Abandon(v, k)
      <3>1. Screen!OneLiveConnection' /\ screenGen' \in [Viewers -> 0..MaxAttempts]
        BY <1>3, <1>7, <1>9, <1>14, <2>1
      <3> QED BY <1>0, <1>3, <1>7, <1>14, <2>1, <3>1
    <2>2. CASE screenGen[v] = k /\ attempt' = [attempt EXCEPT ![v][k] = "live"] /\ UNCHANGED <<screenStream, holder>>
      <3>1. UNCHANGED <<screenGen, last, screenMedia, waker>>
        BY <1>7, <1>14
      <3>2. /\ Screen!OneLiveConnection' /\ attempt' \in [Viewers -> [Screen!Attempts -> Phases]]
            /\ \A w \in Viewers, i \in Screen!Attempts :
                 attempt'[w][i] = IF w = v /\ i = k THEN "live" ELSE attempt[w][i]
        BY <1>10, <2>2, <3>1
      <3> QED BY <1>0, <2>2, <3>1, <3>2
    <2> QED BY <1>7, <1>14, <2>1, <2>2
  <1> QED BY <1>1, <1>2, <1>11, <1>12, <1>13, <1>14

\* What the broker knows of a device, and who is in a session, as each action leaves it.
LEMMA OutsideStep ==
  ASSUME Screen!ScreenTypeOK, Screen!OneLiveConnection, Outside, Screen!ScreenNext
  PROVE  Outside'
  <1>0. /\ screenAsking \in [Screen!Devices -> {"no", "good", "bad"}] /\ screenTold \subseteq Screen!Devices
        /\ sessions \subseteq [v : Viewers, k : Screen!Attempts, control : BOOLEAN]
    BY DEF Screen!ScreenTypeOK
  <1>1. ASSUME UNCHANGED <<ownId, revoked, poke, screenTold, screenLate, screenAsking>>,
               known' \subseteq known, sessions' \subseteq sessions, hosting' => hosting,
               \A w \in Viewers, i \in Screen!Attempts : attempt'[w][i] \in {"view", "control"} =>
                 attempt[w][i] = attempt'[w][i] \/ w \in known
        PROVE  Outside'
    BY <1>1 DEF Outside
  <1>2. ASSUME NEW d \in Screen!Devices, Screen!auth(d) PROVE Outside'
    BY <1>0, <1>2 DEF Outside, Screen!auth, Screen!registry, Screen!client
  <1>3. ASSUME NEW d \in Screen!Devices, Screen!Answered(d) PROVE Outside'
    BY <1>0, <1>3 DEF Outside, Screen!Answered, Screen!registry, Screen!client
  <1>4. ASSUME NEW d \in Screen!Devices, Screen!Expired(d) PROVE Outside'
    BY <1>1, <1>4 DEF Screen!Expired, Screen!registry, Screen!client
  <1>5. ASSUME NEW d \in Screen!Devices, Screen!revokeDevice(d) PROVE Outside'
    BY <1>5 DEF Outside, Screen!revokeDevice, Screen!client
  <1>6. ASSUME NEW d \in Screen!Devices, Screen!invalidate(d) PROVE Outside'
    <2>1. /\ d \in poke /\ poke' = poke \ {d} /\ screenTold' = screenTold \cup {d}
          /\ screenLate \subseteq screenLate'
          /\ d \notin screenLate' =>
               /\ screenAsking[d] # "good"
               /\ d \in Viewers => \A k \in Screen!Attempts : attempt[d][k] \notin {"view", "control"}
          /\ known' = known \ {d} /\ sessions' = sessions \ Screen!Theirs(d)
          /\ hosting' = (hosting /\ ~(d = Screen!Machine /\ ownId))
          /\ UNCHANGED <<ownId, revoked, screenAsking, holder>>
      BY <1>6 DEF Screen!invalidate
    <2>2. \A v \in Viewers, k \in Screen!Attempts : attempt'[v][k] \in {attempt[v][k], "over"}
      BY <1>6, Goodbyes DEF Screen!invalidate
    <2>3. \A s \in sessions' : s.v # d
      BY <2>1 DEF Screen!Theirs
    <2> QED BY <2>1, <2>2, <2>3 DEF Outside
  <1>7. ASSUME NEW s \in sessions, Screen!kill(s) PROVE Outside'
    <2>1. /\ sessions' = sessions \ {s} /\ Screen!Byes({s})
          /\ UNCHANGED <<ownId, revoked, poke, screenTold, screenLate, screenAsking, known, hosting>>
      BY <1>7 DEF Screen!kill, Screen!registry
    <2>2. \A v \in Viewers, k \in Screen!Attempts : attempt'[v][k] \in {attempt[v][k], "over"}
      BY <2>1, Goodbyes
    <2> QED BY <1>1, <2>1, <2>2
  <1>8. ASSUME NEW s \in sessions, Screen!relay(s) PROVE Outside'
    BY <1>1, <1>8 DEF Screen!relay, Screen!registry
  <1>9. CASE Screen!hostOnline
    BY <1>9 DEF Outside, Screen!hostOnline, Screen!registry, Screen!client
  <1>10. CASE Screen!hostGone
    BY <1>1, <1>10 DEF Screen!hostGone, Screen!registry, Screen!client
  <1>11. ASSUME NEW v \in Viewers, Screen!streamLost(v) PROVE Outside'
    BY <1>1, <1>11 DEF Screen!streamLost, Screen!registry, Screen!client
  <1>12. ASSUME NEW v \in Viewers, Screen!close(v) \/ Screen!connect(v) PROVE Outside'
    <2>1. /\ UNCHANGED <<ownId, revoked, poke, screenTold, screenLate, screenAsking, known, hosting>>
          /\ sessions' \subseteq sessions
      BY <1>12 DEF Screen!close, Screen!connect, Screen!disconnect, Screen!bye, Screen!registry
    <2>2. \A w \in Viewers, i \in Screen!Attempts : attempt'[w][i] \in {"view", "control"} =>
            attempt[w][i] = attempt'[w][i] \/ w \in known
      BY <1>12, AttemptsStep
    <2> QED BY <1>1, <2>1, <2>2
  <1>13. ASSUME NEW v \in Viewers, NEW k \in Screen!Attempts, NEW g \in Screen!Grants,
                Screen!rdStream(v, k) \/ Screen!waitReady(v, k) \/ Screen!grantsFor(v, k, g)
         PROVE  Outside'
    <2>1. UNCHANGED <<ownId, revoked, poke, screenTold, screenLate, screenAsking, known, hosting, sessions>>
      BY <1>13 DEF Screen!rdStream, Screen!waitReady, Screen!grantsFor, Screen!registry
    <2>2. \A w \in Viewers, i \in Screen!Attempts : attempt'[w][i] \in {"view", "control"} =>
            attempt[w][i] = attempt'[w][i] \/ w \in known
      BY <1>13, AttemptsStep
    <2> QED BY <1>1, <2>1, <2>2
  <1>14. ASSUME NEW v \in Viewers, NEW k \in Screen!Attempts, Screen!openSession(v, k) PROVE Outside'
    <2>1. /\ attempt[v][k] \in {"view", "control"}
          /\ sessions' = sessions \cup {[v |-> v, k |-> k, control |-> attempt[v][k] = "control"]}
          /\ UNCHANGED <<ownId, revoked, poke, screenTold, screenLate, screenAsking, known, hosting>>
      BY <1>14 DEF Screen!openSession, Screen!registry
    <2>2. \A w \in Viewers, i \in Screen!Attempts : attempt'[w][i] \in {"view", "control"} =>
            attempt[w][i] = attempt'[w][i] \/ w \in known
      BY <1>14, AttemptsStep
    <2>3. \A s \in sessions' : s \in sessions \/ s.v = v
      BY <2>1
    <2>4. v \notin screenTold \ screenLate
      BY <2>1 DEF Outside
    <2> QED BY <2>1, <2>2, <2>3, <2>4 DEF Outside
  <1>15. \E g : g \in Screen!Grants
    BY DEF Screen!Grants
  <1> QED
    BY <1>2, <1>3, <1>4, <1>5, <1>6, <1>7, <1>8, <1>9, <1>10, <1>11, <1>12, <1>13, <1>14, <1>15
    DEF Screen!ScreenNext, Screen!cast

\* The broker keeps its types, and a viewer its one live connection.
LEMMA BrokerTypes ==
  ASSUME Screen!ScreenTypeOK, Screen!OneLiveConnection, Screen!ScreenNext
  PROVE  Screen!ScreenTypeOK' /\ Screen!OneLiveConnection'
  <1> DEFINE Plain ==
        /\ ownId \in BOOLEAN /\ hosting \in BOOLEAN
        /\ revoked \subseteq Screen!Devices /\ poke \subseteq Screen!Devices /\ screenTold \subseteq Screen!Devices
        /\ known \subseteq Screen!Devices /\ screenLate \subseteq Screen!Devices
        /\ screenAsking \in [Screen!Devices -> {"no", "good", "bad"}]
        /\ sessions \subseteq [v : Viewers, k : Screen!Attempts, control : BOOLEAN]
  <1> DEFINE Rest ==
        /\ holder \in [Viewers -> 0..MaxAttempts] /\ screenGen \in [Viewers -> 0..MaxAttempts]
        /\ last \in [Viewers -> 0..MaxAttempts] /\ waker \in [Viewers -> 0..MaxAttempts]
        /\ attempt \in [Viewers -> [Screen!Attempts -> Phases]]
        /\ screenStream \in [Viewers -> SUBSET Screen!Attempts] /\ screenMedia \subseteq Viewers \X Screen!Attempts
        /\ Screen!OneLiveConnection
  <1>0. Plain /\ Rest
    BY DEF Screen!ScreenTypeOK, Phases
  <1>1. Plain' /\ Rest' => Screen!ScreenTypeOK' /\ Screen!OneLiveConnection'
    <2> SUFFICES ASSUME Plain', Rest' PROVE Screen!ScreenTypeOK' /\ Screen!OneLiveConnection'
      OBVIOUS
    <2>1. \A s \in {revoked', poke', screenTold', known', screenLate'} : s \subseteq Screen!Devices
      OBVIOUS
    <2>2. attempt' \in [Viewers -> [Screen!Attempts -> {"off", "waiting", "asking", "view", "control", "live", "over"}]]
      BY DEF Phases
    <2>3. /\ ownId' \in BOOLEAN /\ hosting' \in BOOLEAN
          /\ screenAsking' \in [Screen!Devices -> {"no", "good", "bad"}]
          /\ sessions' \subseteq [v : Viewers, k : Screen!Attempts, control : BOOLEAN]
          /\ holder' \in [Viewers -> 0..MaxAttempts] /\ screenGen' \in [Viewers -> 0..MaxAttempts]
          /\ last' \in [Viewers -> 0..MaxAttempts] /\ waker' \in [Viewers -> 0..MaxAttempts]
          /\ screenStream' \in [Viewers -> SUBSET Screen!Attempts] /\ screenMedia' \subseteq Viewers \X Screen!Attempts
          /\ Screen!OneLiveConnection'
      OBVIOUS
    <2> HIDE DEF Plain, Rest
    <2> QED BY <2>1, <2>2, <2>3 DEF Screen!ScreenTypeOK
  <1>2. ASSUME UNCHANGED <<holder, screenGen, last, waker, attempt, screenStream, screenMedia>> PROVE Rest'
    BY <1>0, <1>2 DEF Screen!OneLiveConnection
  <1>3. ASSUME NEW v \in Viewers,
               \/ Screen!close(v) \/ Screen!connect(v)
               \/ \E k \in Screen!Attempts : \/ Screen!rdStream(v, k) \/ Screen!waitReady(v, k)
                                             \/ Screen!openSession(v, k)
                                             \/ \E g \in Screen!Grants : Screen!grantsFor(v, k, g)
        PROVE  Rest'
    BY <1>3, AttemptsStep
  <1>4. ASSUME NEW gone, Screen!Byes(gone), UNCHANGED holder PROVE Rest'
    <2> HIDE DEF Plain
    <2> QED BY <1>0, <1>4, Goodbyes
  <1>5. ASSUME NEW v \in Viewers, Screen!streamLost(v) PROVE Plain' /\ Rest'
    <2>1. holder' = [holder EXCEPT ![v] = 0] /\ 0 \in 0..MaxAttempts
      BY <1>5, BoundsAssumption DEF Screen!streamLost
    <2> QED BY <1>0, <1>5, <2>1 DEF Screen!streamLost, Screen!registry, Screen!client, Screen!OneLiveConnection
  <1>6. ASSUME NEW s \in sessions, Screen!relay(s) PROVE Plain' /\ Rest'
    <2>1. screenMedia' = screenMedia \cup {<<s.v, s.k>>} /\ s.v \in Viewers /\ s.k \in Screen!Attempts
      BY <1>0, <1>6 DEF Screen!relay
    <2> QED BY <1>0, <1>6, <2>1 DEF Screen!relay, Screen!registry, Screen!OneLiveConnection
  <1>7. ASSUME NEW d \in Screen!Devices,
               \/ Screen!auth(d) \/ Screen!Answered(d) \/ Screen!Expired(d) \/ Screen!revokeDevice(d)
        PROVE  Plain' /\ UNCHANGED <<holder, screenGen, last, waker, attempt, screenStream, screenMedia>>
    <2> HIDE DEF Rest
    <2>1. CASE Screen!auth(d)
      BY <1>0, <2>1 DEF Screen!auth, Screen!registry, Screen!client
    <2>2. CASE Screen!Answered(d)
      BY <1>0, <2>2 DEF Screen!Answered, Screen!registry, Screen!client
    <2>3. CASE Screen!Expired(d)
      BY <1>0, <2>3 DEF Screen!Expired, Screen!registry, Screen!client
    <2>4. CASE Screen!revokeDevice(d)
      BY <1>0, <2>4 DEF Screen!revokeDevice, Screen!client
    <2> QED BY <1>7, <2>1, <2>2, <2>3, <2>4
  <1>8. ASSUME NEW d \in Screen!Devices, Screen!invalidate(d) PROVE Plain' /\ Screen!Byes(Screen!Theirs(d)) /\ UNCHANGED holder
    <2> HIDE DEF Rest
    <2>1. /\ poke' = poke \ {d} /\ screenTold' = screenTold \cup {d}
          /\ screenLate' \in {screenLate, screenLate \cup {d}}
          /\ known' = known \ {d} /\ sessions' = sessions \ Screen!Theirs(d)
          /\ hosting' \in BOOLEAN /\ UNCHANGED <<ownId, revoked, screenAsking, holder>>
          /\ Screen!Byes(Screen!Theirs(d))
      BY <1>8 DEF Screen!invalidate
    <2> QED BY <1>0, <2>1
  <1>9. ASSUME NEW s \in sessions, Screen!kill(s) PROVE Plain' /\ Screen!Byes({s}) /\ UNCHANGED holder
    <2> HIDE DEF Rest
    <2>1. /\ sessions' = sessions \ {s} /\ Screen!Byes({s})
          /\ UNCHANGED <<ownId, revoked, poke, screenTold, screenLate, screenAsking, known, hosting, holder>>
      BY <1>9 DEF Screen!kill, Screen!registry
    <2> QED BY <1>0, <2>1
  <1>10. ASSUME Screen!hostOnline \/ Screen!hostGone PROVE Plain' /\ Rest'
    BY <1>0, <1>2, <1>10 DEF Screen!hostOnline, Screen!hostGone, Screen!registry, Screen!client
  <1>11. ASSUME NEW v \in Viewers,
                \/ Screen!close(v) \/ Screen!connect(v)
                \/ \E k \in Screen!Attempts : \/ Screen!rdStream(v, k) \/ Screen!waitReady(v, k)
                                              \/ \E g \in Screen!Grants : Screen!grantsFor(v, k, g)
         PROVE  Plain'
    <2> HIDE DEF Rest
    <2>1. /\ UNCHANGED <<ownId, revoked, poke, screenTold, screenLate, screenAsking, known, hosting>>
          /\ sessions' \subseteq sessions
      BY <1>11 DEF Screen!close, Screen!connect, Screen!disconnect, Screen!bye, Screen!rdStream, Screen!waitReady,
         Screen!grantsFor, Screen!registry
    <2> QED BY <1>0, <2>1
  <1>12. ASSUME NEW v \in Viewers, NEW k \in Screen!Attempts, Screen!openSession(v, k) PROVE Plain'
    <2> HIDE DEF Rest
    <2>1. /\ UNCHANGED <<ownId, revoked, poke, screenTold, screenLate, screenAsking, known, hosting>>
          /\ sessions' = sessions \cup {[v |-> v, k |-> k, control |-> attempt[v][k] = "control"]}
      BY <1>12 DEF Screen!openSession, Screen!registry
    <2>2. [v |-> v, k |-> k, control |-> attempt[v][k] = "control"]
            \in [v : Viewers, k : Screen!Attempts, control : BOOLEAN]
      <3>1. (attempt[v][k] = "control") \in BOOLEAN
        OBVIOUS
      <3> QED BY Zenon, <3>1
    <2>3. /\ revoked' \subseteq Screen!Devices /\ poke' \subseteq Screen!Devices /\ screenTold' \subseteq Screen!Devices
          /\ known' \subseteq Screen!Devices /\ screenLate' \subseteq Screen!Devices
          /\ screenAsking' \in [Screen!Devices -> {"no", "good", "bad"}]
          /\ ownId' \in BOOLEAN /\ hosting' \in BOOLEAN
      BY <1>0, <2>1
    <2>4. sessions' \subseteq [v : Viewers, k : Screen!Attempts, control : BOOLEAN]
      <3>1. sessions \subseteq [v : Viewers, k : Screen!Attempts, control : BOOLEAN]
        BY <1>0
      <3> QED BY Zenon, <2>1, <2>2, <3>1
    <2> QED BY <2>3, <2>4
  <1> HIDE DEF Plain, Rest
  <1> QED
    BY Zenon, <1>1, <1>2, <1>3, <1>4, <1>5, <1>6, <1>7, <1>8, <1>9, <1>10, <1>11, <1>12 DEF Screen!ScreenNext, Screen!cast

---------------------------------------------------------------------------
(* Touch control.                                                           *)

Touch == [far : BOOLEAN, age : Screen!Quick..Screen!Long]

\* One finger at most has been down without the gesture counting as one of two.
Alone == ~twoFinger => DOMAIN ptrs = {} \/ \E f \in Fingers : DOMAIN ptrs = {f}

\* What a gesture under way has sent: nothing, as long as it may still end as a click.
Gesture ==
  /\ DOMAIN ptrs # {} =>
       /\ did["left"] = 0 /\ did["right"] <= 1
       /\ lpTimer => did["right"] = 0
       /\ pendingMove = "mine" => moved
       /\ ~twoFinger /\ ~lpFired /\ ~moved => did = Screen!Nothing
  /\ DOMAIN ptrs = {} => ~lpTimer
  /\ did["left"] > 0 => pendingMove # "mine"

PadTypes ==
  /\ sess \in {"off", "connecting", "watching", "control", "ended"}
  /\ DOMAIN ptrs \subseteq Fingers /\ ptrs \in [DOMAIN ptrs -> Touch]
  /\ moved \in BOOLEAN /\ lpFired \in BOOLEAN /\ twoFinger \in BOOLEAN /\ scrolled \in BOOLEAN
  /\ lpTimer \in BOOLEAN /\ kb \in BOOLEAN /\ pendingMove \in {"mine", "old", NoMove}
  /\ did \in [Screen!Kinds -> 0..2]

PadInv == PadTypes /\ Alone /\ Gesture /\ Screen!ClickIsAlone /\ Screen!StartsClean

\* What the gesture has sent so far, with one more click, move or scroll, or without.
LEMMA Counts ==
  ASSUME did \in [Screen!Kinds -> 0..2], NEW what \in Screen!Kinds, what \in {"left", "right"} => did[what] <= 1,
         did' = Screen!Sent(what)
  PROVE  /\ did' \in [Screen!Kinds -> 0..2]
         /\ \A k \in Screen!Kinds : k # what => did'[k] = did[k]
         /\ what \in {"left", "right"} => did'[what] \in {did[what], did[what] + 1}
  BY DEF Screen!Sent, Screen!Kinds

\* Fingers are counted one, two and more.
LEMMA FingersCounted ==
  ASSUME NEW S
  PROVE  /\ S = {} => Screen!Cardinality(S) = 0
         /\ \A f : S = {f} => Screen!Cardinality(S) = 1
  <1>1. Screen!Cardinality(S) = Cardinality(S)
    BY Zenon DEF Screen!Cardinality, Cardinality
  <1>2. Cardinality({}) = 0
    BY Zenon, FS_EmptySet
  <1>3. \A f : Cardinality({f}) = 1
    BY Zenon, FS_Singleton
  <1> QED BY Zenon, <1>1, <1>2, <1>3

\* It holds at the start.
LEMMA PadInit == Screen!PadInit => PadInv
  <1> SUFFICES ASSUME Screen!PadInit PROVE PadInv
    OBVIOUS
  <1>1. /\ sess = "off" /\ DOMAIN ptrs = {} /\ ptrs \in [DOMAIN ptrs -> Touch]
        /\ moved = FALSE /\ lpFired = FALSE /\ twoFinger = FALSE /\ scrolled = FALSE /\ lpTimer = FALSE
        /\ pendingMove = NoMove /\ kb = FALSE /\ did = Screen!Nothing
    BY DEF Screen!PadInit
  <1>2. did \in [Screen!Kinds -> 0..2] /\ did["left"] = 0
    BY <1>1 DEF Screen!Nothing, Screen!Kinds
  <1>3. ~(did["left"] > 0)
    BY <1>2
  <1>4. PadTypes
    BY <1>1, <1>2 DEF PadTypes
  <1>5. Alone /\ Gesture
    BY <1>1, <1>3 DEF Alone, Gesture
  <1>6. Screen!ClickIsAlone /\ Screen!StartsClean
    BY <1>1, <1>3 DEF Screen!ClickIsAlone, Screen!StartsClean
  <1> QED BY <1>4, <1>5, <1>6 DEF PadInv

\* The fingers, the flags and the timer, as each action leaves them.
LEMMA PadTypesStep ==
  ASSUME PadTypes, Gesture, Screen!PadNext
  PROVE  PadTypes'
  <1>0. /\ sess \in {"off", "connecting", "watching", "control", "ended"}
        /\ DOMAIN ptrs \subseteq Fingers /\ ptrs \in [DOMAIN ptrs -> Touch]
        /\ moved \in BOOLEAN /\ lpFired \in BOOLEAN /\ twoFinger \in BOOLEAN /\ scrolled \in BOOLEAN
        /\ lpTimer \in BOOLEAN /\ kb \in BOOLEAN /\ pendingMove \in {"mine", "old", NoMove}
        /\ did \in [Screen!Kinds -> 0..2]
        /\ "left" \in Screen!Kinds /\ "right" \in Screen!Kinds /\ "move" \in Screen!Kinds /\ "scroll" \in Screen!Kinds
    BY DEF PadTypes, Screen!Kinds
  <1>1. ASSUME NEW f \in Fingers, Screen!pointerdown(f) PROVE PadTypes'
    <2>1. /\ ptrs' = [g \in DOMAIN ptrs \cup {f} |->
                       IF g = f THEN [far |-> FALSE, age |-> Screen!Quick] ELSE ptrs[g]]
          /\ sess' = sess /\ kb' = kb
          /\ moved' \in BOOLEAN /\ lpFired' \in BOOLEAN /\ twoFinger' \in BOOLEAN /\ scrolled' \in BOOLEAN
          /\ lpTimer' \in BOOLEAN /\ pendingMove' \in {"mine", "old", NoMove}
          /\ did' \in {did, Screen!Nothing}
      BY <1>0, <1>1 DEF Screen!pointerdown, Screen!NoFlags, Screen!Flags
    <2>2. [far |-> FALSE, age |-> Screen!Quick] \in Touch
      BY DEF Touch, Screen!Quick, Screen!Long
    <2>3. ptrs' \in [DOMAIN ptrs' -> Touch] /\ DOMAIN ptrs' \subseteq Fingers
      BY <1>0, <2>1, <2>2
    <2>4. did' \in [Screen!Kinds -> 0..2]
      BY <1>0, <2>1 DEF Screen!Nothing
    <2> QED BY <1>0, <2>1, <2>3, <2>4 DEF PadTypes
  <1>2. CASE Screen!longPress
    <2>1. DOMAIN ptrs # {} => did["right"] <= 1
      BY DEF Gesture
    <2>2. /\ UNCHANGED <<sess, ptrs, moved, twoFinger, scrolled, pendingMove, kb>> /\ lpTimer' = FALSE
          /\ lpFired' \in {lpFired, TRUE} /\ did' \in {did, Screen!Sent("right")}
      BY <1>2 DEF Screen!longPress
    <2>3. lpTimer
      BY <1>2 DEF Screen!longPress
    <2>4. DOMAIN ptrs # {}
      BY <2>3 DEF Gesture
    <2>5. did' \in [Screen!Kinds -> 0..2]
      BY <1>0, <2>1, <2>2, <2>4, Counts
    <2> QED BY <1>0, <2>2, <2>5 DEF PadTypes
  <1>3. ASSUME NEW f \in Fingers, Screen!pointermove(f) PROVE PadTypes'
    <2>1. PICK far \in BOOLEAN : ptrs' = [ptrs EXCEPT ![f].far = far]
      BY <1>3 DEF Screen!pointermove
    <2>2. /\ f \in DOMAIN ptrs /\ UNCHANGED <<sess, lpFired, twoFinger, kb>>
          /\ moved' \in BOOLEAN /\ scrolled' \in BOOLEAN /\ lpTimer' \in BOOLEAN
          /\ pendingMove' \in {pendingMove, "mine"} /\ did' \in {did, Screen!Sent("scroll")}
      BY <1>0, <1>3 DEF Screen!pointermove
    <2>3. DOMAIN ptrs' = DOMAIN ptrs /\ ptrs' \in [DOMAIN ptrs' -> Touch]
      BY <1>0, <2>1, <2>2 DEF Touch
    <2>4. did' \in [Screen!Kinds -> 0..2]
      BY <1>0, <2>2, Counts
    <2> QED BY <1>0, <2>2, <2>3, <2>4 DEF PadTypes
  <1>4. CASE Screen!queueMove
    <2>1. /\ UNCHANGED <<sess, ptrs, moved, lpFired, twoFinger, scrolled, lpTimer, kb>>
          /\ pendingMove' = NoMove /\ did' \in {did, Screen!Sent("move")}
      BY <1>4 DEF Screen!queueMove, Screen!Flags
    <2>2. did' \in [Screen!Kinds -> 0..2]
      BY <1>0, <2>1, Counts
    <2> QED BY <1>0, <2>1, <2>2 DEF PadTypes
  <1>5. ASSUME NEW f \in Fingers, Screen!onUp(f) PROVE PadTypes'
    <2>1. /\ ptrs' = [g \in DOMAIN ptrs \ {f} |-> ptrs[g]] /\ lpTimer' = FALSE
          /\ UNCHANGED <<sess, pendingMove, kb>>
          /\ moved' \in BOOLEAN /\ lpFired' \in BOOLEAN /\ twoFinger' \in BOOLEAN /\ scrolled' \in BOOLEAN
      BY <1>0, <1>5 DEF Screen!onUp, Screen!NoFlags, Screen!Flags
    <2>2. did' = did \/ (f \in DOMAIN ptrs /\ did' \in {Screen!Sent("left"), Screen!Sent("right")})
      BY <1>5 DEF Screen!onUp
    <2>3. DOMAIN ptrs # {} => did["left"] <= 1 /\ did["right"] <= 1
      BY DEF Gesture
    <2>4. did' \in [Screen!Kinds -> 0..2]
      BY <1>0, <2>2, <2>3, Counts
    <2>5. ptrs' \in [DOMAIN ptrs' -> Touch] /\ DOMAIN ptrs' \subseteq Fingers
      BY <1>0, <2>1
    <2> QED BY <1>0, <2>1, <2>4, <2>5 DEF PadTypes
  <1>6. CASE Screen!TimePasses
    <2>1. /\ ptrs' = [f \in DOMAIN ptrs |->
                       [ptrs[f] EXCEPT !.age = IF ptrs[f].age = Screen!Long THEN Screen!Long ELSE ptrs[f].age + 1]]
          /\ UNCHANGED <<sess, moved, lpFired, twoFinger, scrolled, lpTimer, pendingMove, kb, did>>
      BY <1>6 DEF Screen!TimePasses, Screen!Flags
    <2>2. \A t \in Touch : [t EXCEPT !.age = IF t.age = Screen!Long THEN Screen!Long ELSE t.age + 1] \in Touch
      BY DEF Touch, Screen!Quick, Screen!Long
    <2>3. DOMAIN ptrs' = DOMAIN ptrs /\ ptrs' \in [DOMAIN ptrs' -> Touch]
      BY <1>0, <2>1, <2>2
    <2> QED BY <1>0, <2>1, <2>3 DEF PadTypes
  <1>7. CASE Screen!toggleKeyboard \/ \E s \in {"watching", "control", "ended"} : Screen!ViewerSays(s)
    BY <1>0, <1>7 DEF Screen!toggleKeyboard, Screen!ViewerSays, Screen!Flags, PadTypes
  <1>8. CASE Screen!connectHost \/ Screen!disconnectPad
    <2>1. /\ pendingMove' = NoMove /\ DOMAIN ptrs' = {} /\ ptrs' \in [DOMAIN ptrs' -> Touch] /\ lpTimer' = FALSE
          /\ moved' = FALSE /\ lpFired' = FALSE /\ twoFinger' = FALSE /\ scrolled' = FALSE /\ kb' = FALSE
          /\ sess' \in {"connecting", "off"} /\ did' = did
      BY <1>8 DEF Screen!connectHost, Screen!disconnectPad, Screen!teardown, Screen!cancelMoveFlush, Screen!NoFlags
    <2> QED BY <1>0, <2>1 DEF PadTypes
  <1> QED BY <1>1, <1>2, <1>3, <1>4, <1>5, <1>6, <1>7, <1>8 DEF Screen!PadNext

\* A tap that counts as a click is the only thing its gesture has sent, and nothing follows it.
LEMMA GestureStep ==
  ASSUME PadTypes, Alone, Gesture, Screen!ClickIsAlone, Screen!PadNext
  PROVE  Alone' /\ Gesture' /\ Screen!ClickIsAlone'
  <1> DEFINE Click == [Screen!Nothing EXCEPT !["left"] = 1]
  <1>0. /\ did \in [Screen!Kinds -> 0..2]
        /\ moved \in BOOLEAN /\ lpFired \in BOOLEAN /\ twoFinger \in BOOLEAN /\ lpTimer \in BOOLEAN
        /\ NoMove \notin {"mine", "old"} /\ pendingMove \in {"mine", "old", NoMove}
        /\ DOMAIN ptrs \subseteq Fingers
        /\ did["left"] > 0 => did = Click
        /\ Screen!Nothing \in [Screen!Kinds -> 0..2] /\ Screen!Nothing["left"] = 0 /\ Screen!Nothing["right"] = 0
    BY Nulls DEF PadTypes, Screen!ClickIsAlone, Screen!Nothing, Screen!Kinds
  <1> HIDE DEF Click
  <1>a. "left" \in Screen!Kinds /\ "right" \in Screen!Kinds /\ "move" \in Screen!Kinds /\ "scroll" \in Screen!Kinds
    BY DEF Screen!Kinds
  <1> DEFINE Quiet == ~(did["left"] > 0)
  <1>1. ASSUME NEW f \in Fingers, Screen!pointerdown(f) PROVE Alone' /\ Gesture' /\ Screen!ClickIsAlone'
    <2>1. f \notin DOMAIN ptrs /\ DOMAIN ptrs' = DOMAIN ptrs \cup {f}
      BY <1>1 DEF Screen!pointerdown
    <2>2. CASE DOMAIN ptrs = {}
      <3>1. Screen!Cardinality(DOMAIN ptrs) = 0
        BY <2>2, FingersCounted
      <3>2. /\ moved' = FALSE /\ lpFired' = FALSE /\ twoFinger' = FALSE /\ lpTimer' = TRUE
            /\ did' = Screen!Nothing /\ pendingMove' \in {NoMove, "old"}
        BY <1>1, <2>2, <3>1 DEF Screen!pointerdown, Screen!NoFlags
      <3>3. DOMAIN ptrs' = {f}
        BY <2>1, <2>2
      <3>4. did'["left"] = 0 /\ did'["right"] = 0
        BY <1>0, <3>2
      <3>5. pendingMove' # "mine"
        BY <1>0, <3>2
      <3> QED BY <3>2, <3>3, <3>4, <3>5 DEF Alone, Gesture, Screen!ClickIsAlone
    <2>3. CASE DOMAIN ptrs # {}
      <3>1. /\ twoFinger' = TRUE /\ lpTimer' \in {lpTimer, FALSE}
            /\ UNCHANGED <<moved, lpFired, did, pendingMove>>
        <4>1. CASE Screen!Cardinality(DOMAIN ptrs) = 1
          BY <1>1, <2>3, <4>1 DEF Screen!pointerdown
        <4>2. CASE Screen!Cardinality(DOMAIN ptrs) # 1
          <5>1. twoFinger
            BY <2>3, <4>2, FingersCounted DEF Alone
          <5>2. UNCHANGED <<moved, lpFired, twoFinger, lpTimer, did, pendingMove>>
            BY <1>1, <2>3, <4>2 DEF Screen!pointerdown, Screen!Flags
          <5> QED BY <1>0, <5>1, <5>2
        <4> QED BY <4>1, <4>2
      <3>2. did["left"] = 0 /\ did["right"] <= 1 /\ (lpTimer => did["right"] = 0) /\ (pendingMove = "mine" => moved)
        BY <2>3 DEF Gesture
      <3>3. DOMAIN ptrs' # {}
        BY <2>1
      <3>4. Alone'
        BY <3>1 DEF Alone
      <3>5. Gesture'
        <4>1. lpTimer' => did["right"] = 0
          BY <3>1, <3>2
        <4>2. did'["left"] = 0 /\ did'["right"] <= 1 /\ (lpTimer' => did'["right"] = 0)
          BY <3>1, <3>2, <4>1
        <4> QED BY <3>1, <3>2, <3>3, <4>2 DEF Gesture
      <3>6. Screen!ClickIsAlone'
        BY <3>1, <3>2 DEF Screen!ClickIsAlone
      <3> QED BY <3>4, <3>5, <3>6
    <2> QED BY <2>2, <2>3
  <1>2. CASE Screen!longPress
    <2>1. DOMAIN ptrs # {}
      BY <1>2 DEF Screen!longPress, Gesture
    <2>2. did["left"] = 0 /\ did["right"] = 0 /\ (pendingMove = "mine" => moved)
      BY <1>2, <2>1 DEF Screen!longPress, Gesture
    <2>3. /\ UNCHANGED <<ptrs, moved, twoFinger, pendingMove>> /\ lpTimer' = FALSE
          /\ \/ lpFired' = TRUE /\ did' = Screen!Sent("right")
             \/ UNCHANGED <<lpFired, did>>
      BY <1>2 DEF Screen!longPress
    <2>4. did'["left"] = 0 /\ did'["right"] <= 1
      <3>1. CASE did' = did
        BY <2>2, <3>1
      <3>2. CASE did' = Screen!Sent("right")
        <4>1. did'["left"] = did["left"] /\ did'["right"] \in {did["right"], did["right"] + 1}
          BY <1>0, <1>a, <2>2, <3>2, Counts
        <4> QED BY <2>2, <4>1
      <3> QED BY <2>3, <3>1, <3>2
    <2>5. ~twoFinger' /\ ~lpFired' /\ ~moved' => did' = Screen!Nothing
      BY <2>1, <2>3 DEF Gesture
    <2>6. Alone'
      BY <2>3 DEF Alone
    <2>7. Gesture'
      BY <2>1, <2>2, <2>3, <2>4, <2>5 DEF Gesture
    <2>8. Screen!ClickIsAlone'
      BY <2>4 DEF Screen!ClickIsAlone
    <2> QED BY <2>6, <2>7, <2>8
  <1>3. ASSUME NEW f \in Fingers, Screen!pointermove(f) PROVE Alone' /\ Gesture' /\ Screen!ClickIsAlone'
    <2>1. f \in DOMAIN ptrs /\ DOMAIN ptrs' = DOMAIN ptrs /\ UNCHANGED <<twoFinger, lpFired>>
      BY <1>3 DEF Screen!pointermove
    <2>2. /\ did["left"] = 0 /\ did["right"] <= 1 /\ (lpTimer => did["right"] = 0)
          /\ pendingMove = "mine" => moved
          /\ ~twoFinger /\ ~lpFired /\ ~moved => did = Screen!Nothing
      BY <2>1 DEF Gesture
    <2>3. CASE Screen!Cardinality(DOMAIN ptrs) >= 2
      <3>1. twoFinger
        <4>1. twoFinger \/ Screen!Cardinality(DOMAIN ptrs) = 1
          BY <2>1, FingersCounted DEF Alone
        <4> QED BY <2>3, <4>1
      <3>2. UNCHANGED <<moved, lpTimer, pendingMove>> /\ did' \in {did, Screen!Sent("scroll")}
        BY <1>3, <2>3 DEF Screen!pointermove
      <3>3. did'["left"] = did["left"] /\ did'["right"] = did["right"]
        BY <1>0, <1>a, <3>2, Counts
      <3> QED BY <2>1, <2>2, <3>1, <3>2, <3>3 DEF Alone, Gesture, Screen!ClickIsAlone
    <2>4. CASE ~(Screen!Cardinality(DOMAIN ptrs) >= 2)
      <3>1. /\ did' = did /\ (lpTimer' => lpTimer) /\ (moved => moved')
            /\ pendingMove' = "mine" => moved'
        BY <1>0, <1>3, <2>2, <2>4 DEF Screen!pointermove
      <3>2. Alone'
        BY <2>1 DEF Alone
      <3>3. Gesture'
        BY <1>0, <2>1, <2>2, <3>1 DEF Gesture
      <3>4. Screen!ClickIsAlone'
        BY <2>2, <3>1 DEF Screen!ClickIsAlone
      <3> QED BY <3>2, <3>3, <3>4
    <2> QED BY <2>3, <2>4
  <1>4. CASE Screen!queueMove
    <2>1. /\ UNCHANGED <<ptrs, moved, lpFired, twoFinger, lpTimer>> /\ pendingMove' = NoMove
          /\ did' = IF pendingMove = "mine" THEN Screen!Sent("move") ELSE did
      BY <1>4 DEF Screen!queueMove, Screen!Flags
    <2>2. did'["left"] = did["left"] /\ did'["right"] = did["right"]
      BY <1>0, <1>a, <2>1, Counts
    <2>3. did["left"] > 0 => did' = did
      BY <2>1 DEF Gesture
    <2>4. DOMAIN ptrs # {} /\ ~moved => did' = did
      BY <2>1 DEF Gesture
    <2>5. Alone'
      BY <2>1 DEF Alone
    <2>6. Gesture'
      BY <1>0, <2>1, <2>2, <2>4 DEF Gesture
    <2> QED BY <2>2, <2>3, <2>5, <2>6 DEF Screen!ClickIsAlone
  <1>5. ASSUME NEW f \in Fingers, Screen!onUp(f) PROVE Alone' /\ Gesture' /\ Screen!ClickIsAlone'
    <2>1. /\ DOMAIN ptrs' = DOMAIN ptrs \ {f} /\ lpTimer' = FALSE /\ UNCHANGED pendingMove
          /\ \/ moved' = FALSE /\ lpFired' = FALSE /\ twoFinger' = FALSE /\ DOMAIN ptrs' = {}
             \/ UNCHANGED <<moved, lpFired, twoFinger>> /\ DOMAIN ptrs' # {}
      BY <1>5 DEF Screen!onUp, Screen!NoFlags, Screen!Flags
    <2>2. \/ did' = did
          \/ /\ f \in DOMAIN ptrs /\ DOMAIN ptrs' = {} /\ did' = Screen!Sent("right")
          \/ /\ f \in DOMAIN ptrs /\ ~twoFinger /\ ~lpFired /\ ~moved /\ did' = Screen!Sent("left")
      BY <1>5, <2>1 DEF Screen!onUp, Screen!Still
    <2>3. Alone'
      BY <2>1 DEF Alone
    <2>4. CASE did' = did
      BY <2>1, <2>3, <2>4 DEF Gesture, Screen!ClickIsAlone
    <2>5. CASE f \in DOMAIN ptrs /\ DOMAIN ptrs' = {} /\ did' = Screen!Sent("right")
      <3>1. did["left"] = 0 /\ did["right"] <= 1
        BY <2>5 DEF Gesture
      <3>2. did'["left"] = did["left"]
        BY <1>0, <1>a, <2>5, <3>1, Counts
      <3> QED BY <2>1, <2>3, <2>5, <3>1, <3>2 DEF Gesture, Screen!ClickIsAlone
    <2>6. CASE f \in DOMAIN ptrs /\ ~twoFinger /\ ~lpFired /\ ~moved /\ did' = Screen!Sent("left")
      <3>1. did = Screen!Nothing /\ pendingMove # "mine"
        BY <2>6 DEF Gesture
      <3>2. DOMAIN ptrs' = {}
        BY <2>1, <2>6 DEF Alone
      <3>3. did' \in {Screen!Nothing, Click}
        BY <2>6, <3>1 DEF Screen!Sent, Screen!Nothing, Screen!Kinds, Click
      <3>4. did'["left"] > 0 => did' = Click
        BY <1>0, <3>3
      <3> QED BY <2>1, <2>3, <3>1, <3>2, <3>4 DEF Gesture, Screen!ClickIsAlone, Click
    <2> QED BY <2>2, <2>4, <2>5, <2>6
  <1>6. CASE Screen!TimePasses
    <2>1. DOMAIN ptrs' = DOMAIN ptrs /\ UNCHANGED <<moved, lpFired, twoFinger, lpTimer, pendingMove, did>>
      BY <1>6 DEF Screen!TimePasses, Screen!Flags
    <2> QED BY <2>1 DEF Alone, Gesture, Screen!ClickIsAlone
  <1>7. CASE Screen!toggleKeyboard \/ \E s \in {"watching", "control", "ended"} : Screen!ViewerSays(s)
    <2>1. UNCHANGED <<ptrs, moved, lpFired, twoFinger, lpTimer, pendingMove, did>>
      BY <1>7 DEF Screen!toggleKeyboard, Screen!ViewerSays, Screen!Flags
    <2> QED BY <2>1 DEF Alone, Gesture, Screen!ClickIsAlone
  <1>8. CASE Screen!connectHost \/ Screen!disconnectPad
    <2>1. pendingMove' = NoMove /\ DOMAIN ptrs' = {} /\ lpTimer' = FALSE /\ did' = did
      BY <1>8 DEF Screen!connectHost, Screen!disconnectPad, Screen!teardown, Screen!cancelMoveFlush
    <2> QED BY <1>0, <2>1 DEF Alone, Gesture, Screen!ClickIsAlone
  <1> QED BY <1>1, <1>2, <1>3, <1>4, <1>5, <1>6, <1>7, <1>8 DEF Screen!PadNext

\* Until the remote screen is controlled, no finger is followed and nothing of an earlier gesture is kept.
LEMMA CleanStep ==
  ASSUME PadTypes, Screen!StartsClean, Screen!PadNext
  PROVE  Screen!StartsClean'
  <1>1. CASE Screen!connectHost \/ Screen!disconnectPad
    BY <1>1 DEF Screen!connectHost, Screen!disconnectPad, Screen!teardown, Screen!cancelMoveFlush, Screen!NoFlags,
       Screen!StartsClean
  <1>2. CASE \E s \in {"watching", "control", "ended"} : Screen!ViewerSays(s)
    BY <1>2 DEF Screen!ViewerSays, Screen!StartsClean
  <1>3. ASSUME NEW f \in Fingers, Screen!onUp(f) PROVE Screen!StartsClean'
    BY <1>3 DEF Screen!onUp, Screen!NoFlags, Screen!Flags, Screen!StartsClean
  <1>4. CASE \/ Screen!longPress \/ Screen!queueMove \/ Screen!TimePasses \/ Screen!toggleKeyboard
             \/ \E f \in Fingers : Screen!pointerdown(f) \/ Screen!pointermove(f)
    <2>1. sess \notin {"off", "connecting"}
      BY <1>4 DEF Screen!longPress, Screen!queueMove, Screen!TimePasses, Screen!toggleKeyboard, Screen!pointerdown,
         Screen!pointermove, Screen!StartsClean
    <2>2. sess' = sess
      BY <1>4 DEF Screen!longPress, Screen!queueMove, Screen!TimePasses, Screen!toggleKeyboard, Screen!pointerdown,
         Screen!pointermove
    <2> QED BY <2>1, <2>2 DEF Screen!StartsClean
  <1> QED BY <1>1, <1>2, <1>3, <1>4 DEF Screen!PadNext

---------------------------------------------------------------------------
ScreenInv == screenScene \in {"screen", "pad"} /\ BrokerInv /\ PadInv

\* A viewer holds one connection, a revoked device is out of every session, a click stands alone and a
\* connection starts clean: for any number of viewers, attempts and fingers.
THEOREM OneScreenEach ==
  Spec => [](/\ Screen!TypeOK /\ Screen!OneLiveConnection /\ Screen!RevokedIsOut
             /\ Screen!ClickIsAlone /\ Screen!StartsClean)
  <1>1. Screen!Init => ScreenInv
    BY BrokerInit, PadInit DEF Screen!Init, ScreenInv
  <1>2. ScreenInv /\ [Screen!Next]_screenVars => ScreenInv'
    <2> SUFFICES ASSUME ScreenInv, [Screen!Next]_screenVars PROVE ScreenInv'
      OBVIOUS
    <2>1. BrokerInv /\ PadInv /\ screenScene \in {"screen", "pad"}
      BY DEF ScreenInv
    <2>2. UNCHANGED Screen!screenVars => BrokerInv'
      BY <2>1 DEF Screen!screenVars, BrokerInv, Outside, Screen!ScreenTypeOK, Screen!OneLiveConnection
    <2>3. UNCHANGED Screen!padVars => PadInv'
      <3> SUFFICES ASSUME UNCHANGED Screen!padVars PROVE PadInv'
        OBVIOUS
      <3>1. UNCHANGED <<sess, ptrs, moved, lpFired, twoFinger, scrolled, lpTimer, pendingMove, kb, did>>
        BY DEF Screen!padVars
      <3>2. PadTypes'
        BY <2>1, <3>1 DEF PadInv, PadTypes
      <3>3. Alone' /\ Gesture'
        BY <2>1, <3>1 DEF PadInv, Alone, Gesture
      <3>4. Screen!ClickIsAlone' /\ Screen!StartsClean'
        BY <2>1, <3>1 DEF PadInv, Screen!ClickIsAlone, Screen!StartsClean
      <3> QED BY <3>2, <3>3, <3>4 DEF PadInv
    <2>4. Screen!ScreenNext => BrokerInv'
      BY <2>1, BrokerTypes, OutsideStep DEF BrokerInv
    <2>5. Screen!PadNext => PadInv'
      BY <2>1, PadTypesStep, GestureStep, CleanStep DEF PadInv
    <2>6. UNCHANGED screenVars => UNCHANGED Screen!screenVars /\ UNCHANGED Screen!padVars /\ UNCHANGED screenScene
      BY DEF screenVars, Screen!screenVars, Screen!padVars
    <2>7. Screen!Next => /\ UNCHANGED screenScene
                         /\ Screen!ScreenNext \/ UNCHANGED Screen!screenVars
                         /\ Screen!PadNext \/ UNCHANGED Screen!padVars
      BY Zenon DEF Screen!Next
    <2>8. UNCHANGED screenScene
      BY <2>6, <2>7
    <2>9. BrokerInv' /\ PadInv'
      BY <2>2, <2>3, <2>4, <2>5, <2>6, <2>7
    <2> QED BY <2>1, <2>8, <2>9 DEF ScreenInv
  <1>3. ScreenInv => /\ Screen!TypeOK /\ Screen!OneLiveConnection /\ Screen!RevokedIsOut
                     /\ Screen!ClickIsAlone /\ Screen!StartsClean
    <2> SUFFICES ASSUME ScreenInv PROVE /\ Screen!TypeOK /\ Screen!OneLiveConnection /\ Screen!RevokedIsOut
                                        /\ Screen!ClickIsAlone /\ Screen!StartsClean
      OBVIOUS
    <2>1. Screen!RevokedIsOut
      BY DEF ScreenInv, BrokerInv, Outside, Screen!RevokedIsOut
    <2>2. Screen!PadTypeOK
      <3>1. /\ sess \in {"off", "connecting", "watching", "control", "ended"}
            /\ DOMAIN ptrs \subseteq Fingers /\ did \in [Screen!Kinds -> 0..2]
            /\ pendingMove \in {"mine", "old", NoMove}
            /\ {moved, lpFired, twoFinger, scrolled, lpTimer, kb} \subseteq BOOLEAN
        BY DEF ScreenInv, PadInv, PadTypes
      <3>2. \A f \in DOMAIN ptrs : ptrs[f].far \in BOOLEAN /\ ptrs[f].age \in Screen!Quick..Screen!Long
        BY DEF ScreenInv, PadInv, PadTypes, Touch
      <3> QED BY <3>1, <3>2 DEF Screen!PadTypeOK
    <2>3. Screen!TypeOK
      BY <2>2 DEF ScreenInv, BrokerInv, Screen!TypeOK
    <2> QED BY <2>1, <2>3 DEF ScreenInv, BrokerInv, PadInv
  <1> QED BY <1>1, <1>2, <1>3, EachOnItsOwn, PTL

---------------------------------------------------------------------------
(* The devices' gateway.                                                    *)

LinkKinds == {"chat", "control"}
TakenUp == [dev : Phones, kind : LinkKinds]

\* A stream is read by its device or closed, not both, and the one that is read is the one registered.
StreamsInv ==
  /\ chat \in [Phones -> 0..MaxLinks] /\ control \in [Phones -> 0..MaxLinks]
  /\ gatewayMade \in 0..MaxLinks /\ links \in [Gateway!Links -> TakenUp \cup {<<>>}]
  /\ live \subseteq 1..gatewayMade /\ gatewayClosing \subseteq 1..gatewayMade /\ live \cap gatewayClosing = {}
  /\ \A l \in 1..gatewayMade : links[l] \in TakenUp
  /\ Gateway!Reachable

\* A command is waited for or was answered once.
CallsInv ==
  /\ rpcs \in 0..MaxRpcs /\ gatewayPending \subseteq 1..rpcs
  /\ gatewayAnswers \in [Gateway!Rpcs -> 0..2]
  /\ frames \subseteq Gateway!Rpcs /\ results \subseteq Gateway!Rpcs
  /\ Gateway!AnsweredOnce

PushesTypes ==
  /\ gatewayMedia \subseteq Gateway!Outs /\ gatewayFile \subseteq gatewayMedia /\ out \in 0..MaxOut
  /\ gatewayHeard \subseteq [o : Gateway!Outs, dev : Phones, by : LinkKinds, hp : BOOLEAN, on : BOOLEAN]
  /\ gatewayOpened \subseteq [o : Gateway!Outs, said : BOOLEAN, done : BOOLEAN]
  /\ kept \subseteq Gateway!Outs \X (Phones \cup {Owner}) /\ promised \subseteq Gateway!Outs

SurfaceTypes ==
  /\ sig \in [Phones -> Gateway!Caps] /\ knows \in [Phones -> Gateway!Caps] /\ lately \in [Phones -> Gateway!Caps]
  /\ gatewayTurns \in 0..MaxTurns /\ resets \in 0..MaxResets

\* It holds at the start.
LEMMA GatewayInit == Gateway!Init => StreamsInv /\ CallsInv /\ PushesTypes /\ SurfaceTypes
  <1> SUFFICES ASSUME Gateway!Init PROVE StreamsInv /\ CallsInv /\ PushesTypes /\ SurfaceTypes
    OBVIOUS
  <1>0. MaxLinks \in Nat /\ MaxRpcs \in Nat /\ MaxOut \in Nat /\ MaxTurns \in Nat /\ MaxResets \in Nat
    BY BoundsAssumption
  <1>1. StreamsInv
    BY <1>0 DEF Gateway!Init, StreamsInv, Gateway!Reachable
  <1>2. CallsInv
    BY <1>0 DEF Gateway!Init, CallsInv, Gateway!AnsweredOnce, Gateway!Rpcs
  <1>3. PushesTypes
    BY <1>0 DEF Gateway!Init, PushesTypes
  <1>4. SurfaceTypes
    BY <1>0 DEF Gateway!Init, SurfaceTypes, Gateway!Caps
  <1> QED BY <1>1, <1>2, <1>3, <1>4

\* A stream taken up replaces the one of its device and kind.
LEMMA StreamTakenUp ==
  ASSUME StreamsInv, NEW d \in Phones, NEW which \in LinkKinds, Gateway!stream(d, which)
  PROVE  StreamsInv'
  <1> DEFINE n == gatewayMade + 1
             prev == Gateway!Held(which)[d]
  <1>0. /\ MaxLinks \in Nat /\ n \in 1..MaxLinks /\ n \notin 1..gatewayMade /\ gatewayMade' = n
        /\ 1..gatewayMade' = (1..gatewayMade) \cup {n} /\ 1..gatewayMade \subseteq Gateway!Links /\ n \in Gateway!Links
    BY BoundsAssumption DEF StreamsInv, Gateway!stream, Gateway!Links
  <1>1. /\ links' = [links EXCEPT ![n] = [dev |-> d, kind |-> which]]
        /\ live' = (live \ {prev}) \cup {n}
        /\ gatewayClosing' = gatewayClosing \cup (IF prev \in live THEN {prev} ELSE {})
    BY DEF Gateway!stream
  <1>2. /\ chat' = IF which = "chat" THEN [chat EXCEPT ![d] = n] ELSE chat
        /\ control' = IF which = "control" THEN [control EXCEPT ![d] = n] ELSE control
    BY DEF Gateway!stream, Gateway!Register, Gateway!Held, LinkKinds
  <1>3. prev = IF which = "chat" THEN chat[d] ELSE control[d]
    BY DEF Gateway!Held
  <1> HIDE DEF n, prev
  <1>4. chat' \in [Phones -> 0..MaxLinks] /\ control' \in [Phones -> 0..MaxLinks]
    BY <1>0, <1>2 DEF StreamsInv
  <1>5. /\ links' \in [Gateway!Links -> TakenUp \cup {<<>>}]
        /\ \A l \in 1..gatewayMade' : links'[l] = IF l = n THEN [dev |-> d, kind |-> which] ELSE links[l]
        /\ [dev |-> d, kind |-> which] \in TakenUp
    BY <1>0, <1>1 DEF StreamsInv, TakenUp
  <1>6. /\ live' \subseteq 1..gatewayMade' /\ gatewayClosing' \subseteq 1..gatewayMade'
        /\ live' \cap gatewayClosing' = {}
    BY <1>0, <1>1 DEF StreamsInv
  <1>7. ASSUME NEW l \in live' PROVE Gateway!Held(links[l].kind)[links[l].dev]' = l
    <2>1. CASE l = n
      <3>1. links'[l] = [dev |-> d, kind |-> which]
        BY <1>0, <1>5, <2>1
      <3>2. links'[l].dev = d /\ links'[l].kind = which
        BY <3>1
      <3> QED BY <1>2, <2>1, <3>2 DEF Gateway!Held, StreamsInv, LinkKinds
    <2>2. CASE l # n
      <3>1. l \in live /\ l # prev /\ l \in 1..gatewayMade
        BY <1>1, <2>2 DEF StreamsInv
      <3>2. links'[l] = links[l] /\ links[l] \in TakenUp
        BY <1>0, <1>5, <2>2, <3>1 DEF StreamsInv
      <3>3. Gateway!Held(links[l].kind)[links[l].dev] = l
        BY <3>1 DEF StreamsInv, Gateway!Reachable
      <3>4. links[l].dev \in Phones /\ links[l].kind \in LinkKinds
        BY <3>2 DEF TakenUp
      <3>5. ~(links[l].dev = d /\ links[l].kind = which)
        BY <1>3, <3>1, <3>3 DEF Gateway!Held
      <3> QED BY <1>2, <3>2, <3>3, <3>4, <3>5 DEF Gateway!Held, StreamsInv, LinkKinds
    <2> QED BY <2>1, <2>2
  <1>8. gatewayMade' \in 0..MaxLinks
    BY <1>0
  <1>9. \A l \in 1..gatewayMade' : links'[l] \in TakenUp
    BY <1>0, <1>5 DEF StreamsInv
  <1> QED BY <1>4, <1>5, <1>6, <1>7, <1>8, <1>9 DEF StreamsInv, Gateway!Reachable

\* A stream whose close is seen takes only itself out of the registry.
LEMMA StreamClosed ==
  ASSUME StreamsInv, NEW l \in Gateway!Links, Gateway!closed(l)
  PROVE  StreamsInv'
  <1> DEFINE d == links[l].dev
             which == links[l].kind
  <1>0. /\ l \in gatewayClosing /\ gatewayClosing' = gatewayClosing \ {l} /\ UNCHANGED <<links, live, gatewayMade>>
        /\ l \notin live /\ links[l] \in TakenUp /\ MaxLinks \in Nat
    BY BoundsAssumption DEF Gateway!closed, StreamsInv
  <1>1. d \in Phones /\ which \in LinkKinds
    BY <1>0 DEF TakenUp
  <1>2. /\ chat' = IF which = "chat" THEN [chat EXCEPT ![d] = IF chat[d] = l THEN 0 ELSE chat[d]] ELSE chat
        /\ control' = IF which = "control" THEN [control EXCEPT ![d] = IF control[d] = l THEN 0 ELSE control[d]]
                      ELSE control
    BY <1>1 DEF Gateway!closed, Gateway!Register, Gateway!Held, Gateway!Unregister, LinkKinds, StreamsInv
  <1> HIDE DEF d, which
  <1>3. chat' \in [Phones -> 0..MaxLinks] /\ control' \in [Phones -> 0..MaxLinks]
    BY <1>0, <1>1, <1>2 DEF StreamsInv
  <1>4. \A e \in Phones : chat'[e] \in {chat[e]} \/ (chat[e] = l /\ chat'[e] = 0)
    BY <1>2 DEF StreamsInv
  <1>5. \A e \in Phones : control'[e] \in {control[e]} \/ (control[e] = l /\ control'[e] = 0)
    BY <1>2 DEF StreamsInv
  <1>6. ASSUME NEW m \in live PROVE Gateway!Held(links[m].kind)[links[m].dev]' = m
    <2>1. links[m] \in TakenUp /\ Gateway!Held(links[m].kind)[links[m].dev] = m /\ m # l
      BY <1>0 DEF StreamsInv, Gateway!Reachable
    <2>2. links[m].dev \in Phones
      BY <2>1 DEF TakenUp
    <2>3. links' = links
      BY <1>0
    <2> QED BY <1>4, <1>5, <2>1, <2>2, <2>3 DEF Gateway!Held
  <1> QED BY <1>0, <1>3, <1>6 DEF StreamsInv, Gateway!Reachable

\* A step keeps it.
LEMMA StreamsKeptStep == StreamsInv /\ [Gateway!Next]_gatewayVars => StreamsInv'
  <1> SUFFICES ASSUME StreamsInv, [Gateway!Next]_gatewayVars PROVE StreamsInv'
    OBVIOUS
  <1>1. CASE UNCHANGED <<chat, control, links, live, gatewayClosing, gatewayMade>>
    BY <1>1 DEF StreamsInv, Gateway!Reachable, Gateway!Held
  <1>2. ASSUME NEW l \in Gateway!Links, Gateway!dropped(l) PROVE StreamsInv'
    BY <1>2 DEF Gateway!dropped, StreamsInv, Gateway!Reachable, Gateway!Held
  <1>3. CASE Gateway!restart
    <2>1. /\ chat' = [d \in Phones |-> 0] /\ control' = [d \in Phones |-> 0]
          /\ live' = {} /\ gatewayClosing' = {} /\ UNCHANGED <<links, gatewayMade>>
      BY <1>3 DEF Gateway!restart
    <2> QED BY <2>1, BoundsAssumption DEF StreamsInv, Gateway!Reachable
  <1> QED
    BY <1>1, <1>2, <1>3, StreamTakenUp, StreamClosed DEF Gateway!Next, LinkKinds, Gateway!rpc, Gateway!dispatch,
       Gateway!rpcResult, Gateway!timeout, Gateway!speak, Gateway!openRemoteDesktop, Gateway!outFile, Gateway!turn,
       Gateway!forget, Gateway!forgottenElsewhere, Gateway!registry, gatewayVars

\* A step keeps it.
LEMMA CallsStep == CallsInv /\ [Gateway!Next]_gatewayVars => CallsInv'
  <1> SUFFICES ASSUME CallsInv, [Gateway!Next]_gatewayVars PROVE CallsInv'
    OBVIOUS
  <1>0. /\ MaxRpcs \in Nat /\ rpcs \in 0..MaxRpcs /\ gatewayPending \subseteq 1..rpcs
        /\ gatewayAnswers \in [Gateway!Rpcs -> 0..2] /\ frames \subseteq 1..MaxRpcs /\ results \subseteq 1..MaxRpcs
        /\ Gateway!Rpcs = 1..MaxRpcs
        /\ \A r \in 1..MaxRpcs : gatewayAnswers[r] = IF r <= rpcs /\ r \notin gatewayPending THEN 1 ELSE 0
    BY BoundsAssumption DEF CallsInv, Gateway!AnsweredOnce, Gateway!Rpcs
  <1>1. CASE UNCHANGED <<rpcs, gatewayPending, gatewayAnswers, frames, results>>
    BY <1>1 DEF CallsInv, Gateway!AnsweredOnce
  <1>2. ASSUME NEW d \in Phones \cup {Owner}, Gateway!rpc(d) PROVE CallsInv'
    <2>1. /\ rpcs < MaxRpcs /\ rpcs' = rpcs + 1 /\ gatewayPending' = gatewayPending \cup {rpcs + 1}
          /\ UNCHANGED <<gatewayAnswers, results>> /\ frames' \subseteq frames \cup {rpcs + 1}
      BY <1>2 DEF Gateway!rpc
    <2> QED BY <1>0, <2>1 DEF CallsInv, Gateway!AnsweredOnce
  <1>3. ASSUME NEW r \in Gateway!Rpcs, Gateway!dispatch(r) PROVE CallsInv'
    BY <1>0, <1>3 DEF Gateway!dispatch, CallsInv, Gateway!AnsweredOnce
  <1>4. ASSUME NEW r \in Gateway!Rpcs, Gateway!rpcResult(r) \/ Gateway!timeout(r) PROVE CallsInv'
    <2>1. /\ UNCHANGED <<rpcs, frames>> /\ results' \subseteq results
          /\ \/ UNCHANGED <<gatewayPending, gatewayAnswers>>
             \/ /\ r \in gatewayPending /\ gatewayPending' = gatewayPending \ {r}
                /\ gatewayAnswers' = [gatewayAnswers EXCEPT ![r] = gatewayAnswers[r] + 1]
      BY <1>4 DEF Gateway!rpcResult, Gateway!timeout, Gateway!Settled, Gateway!Answer
    <2>2. CASE UNCHANGED <<gatewayPending, gatewayAnswers>>
      BY <1>0, <2>1, <2>2 DEF CallsInv, Gateway!AnsweredOnce
    <2>3. CASE /\ r \in gatewayPending /\ gatewayPending' = gatewayPending \ {r}
               /\ gatewayAnswers' = [gatewayAnswers EXCEPT ![r] = gatewayAnswers[r] + 1]
      <3>1. r \in 1..rpcs /\ r \in 1..MaxRpcs /\ gatewayAnswers[r] = 0
        BY <1>0, <2>3
      <3> QED BY <1>0, <2>1, <2>3, <3>1 DEF CallsInv, Gateway!AnsweredOnce
    <2> QED BY <2>1, <2>2, <2>3
  <1>5. CASE Gateway!restart
    <2>1. /\ gatewayPending' = {} /\ UNCHANGED <<rpcs, frames, results>>
          /\ gatewayAnswers' = [r \in Gateway!Rpcs |-> IF r \in gatewayPending THEN gatewayAnswers[r] + 1
                                                       ELSE gatewayAnswers[r]]
      BY <1>5 DEF Gateway!restart
    <2>2. \A r \in 1..MaxRpcs : gatewayAnswers'[r] = IF r <= rpcs THEN 1 ELSE 0
      BY <1>0, <2>1
    <2> QED BY <1>0, <2>1, <2>2 DEF CallsInv, Gateway!AnsweredOnce
  <1> QED
    BY <1>1, <1>2, <1>3, <1>4, <1>5 DEF Gateway!Next, Gateway!stream, Gateway!dropped, Gateway!closed, Gateway!speak,
       Gateway!openRemoteDesktop, Gateway!outFile, Gateway!turn, Gateway!forget, Gateway!forgottenElsewhere,
       Gateway!calls, gatewayVars

\* A step keeps it.
LEMMA PushesStep == StreamsInv /\ PushesTypes /\ [Gateway!Next]_gatewayVars => PushesTypes'
  <1> SUFFICES ASSUME StreamsInv, PushesTypes, [Gateway!Next]_gatewayVars PROVE PushesTypes'
    OBVIOUS
  <1>0. MaxOut \in Nat /\ out \in 0..MaxOut /\ (out < MaxOut => out + 1 \in Gateway!Outs)
    BY BoundsAssumption DEF PushesTypes, Gateway!Outs
  <1>1. CASE UNCHANGED <<gatewayMedia, gatewayFile, out, gatewayHeard, gatewayOpened, kept, promised>>
    BY <1>1 DEF PushesTypes
  <1>2. ASSUME NEW d \in Phones \cup {"*"}, NEW hp \in BOOLEAN, NEW on \in BOOLEAN, Gateway!speak(d, hp, on)
        PROVE  PushesTypes'
    <2>1. /\ out < MaxOut /\ out' = out + 1
          /\ gatewayHeard' = gatewayHeard \cup
               {[o |-> out + 1, dev |-> links[l].dev, by |-> links[l].kind, hp |-> hp, on |-> on] :
                  l \in {m \in Gateway!Written(d) \cap live : links[m].kind = "chat" \/ on \/ ~hp}}
          /\ UNCHANGED <<gatewayMedia, gatewayFile, gatewayOpened, kept, promised>>
      BY <1>2 DEF Gateway!speak
    <2>2. \A l \in live : links[l].dev \in Phones /\ links[l].kind \in LinkKinds
      BY DEF StreamsInv, TakenUp
    <2>3. \A l \in live : [o |-> out + 1, dev |-> links[l].dev, by |-> links[l].kind, hp |-> hp, on |-> on]
                            \in [o : Gateway!Outs, dev : Phones, by : LinkKinds, hp : BOOLEAN, on : BOOLEAN]
      BY <1>0, <2>1, <2>2
    <2>4. gatewayHeard' \subseteq [o : Gateway!Outs, dev : Phones, by : LinkKinds, hp : BOOLEAN, on : BOOLEAN]
      BY <2>1, <2>3 DEF PushesTypes
    <2> QED BY <1>0, <2>1, <2>4 DEF PushesTypes
  <1>3. ASSUME NEW d \in Phones \cup {"*"}, Gateway!openRemoteDesktop(d) PROVE PushesTypes'
    <2> DEFINE said == Gateway!Written(d) # {}
               done == \E l \in Gateway!Written(d) \cap live : links[l].kind = "chat"
    <2>1. /\ out < MaxOut /\ out' = out + 1
          /\ gatewayOpened' = gatewayOpened \cup {[o |-> out + 1, said |-> said, done |-> done]}
          /\ UNCHANGED <<gatewayMedia, gatewayFile, gatewayHeard, kept, promised>>
      BY <1>3 DEF Gateway!openRemoteDesktop
    <2>2. said \in BOOLEAN /\ done \in BOOLEAN
      OBVIOUS
    <2> HIDE DEF said, done
    <2>3. [o |-> out + 1, said |-> said, done |-> done] \in [o : Gateway!Outs, said : BOOLEAN, done : BOOLEAN]
      BY Zenon, <1>0, <2>1, <2>2
    <2>4. gatewayOpened' \subseteq [o : Gateway!Outs, said : BOOLEAN, done : BOOLEAN]
      BY Zenon, <2>1, <2>3 DEF PushesTypes
    <2> QED BY <1>0, <2>1, <2>4 DEF PushesTypes
  <1>4. ASSUME NEW d \in Phones \cup {Owner}, Gateway!outFile(d) PROVE PushesTypes'
    <2>1. /\ out < MaxOut /\ out' = out + 1 /\ gatewayMedia' = gatewayMedia \cup {out + 1}
          /\ gatewayFile' \in {gatewayFile, gatewayFile \cup {out + 1}}
          /\ kept' = kept \cup {<<out + 1, e>> : e \in Gateway!Matching(d)}
          /\ promised' \in {promised, promised \cup {out + 1}}
          /\ UNCHANGED <<gatewayHeard, gatewayOpened>>
      BY <1>4 DEF Gateway!outFile
    <2>2. Gateway!Matching(d) \subseteq Phones \cup {Owner}
      BY DEF Gateway!Matching
    <2> QED BY <1>0, <2>1, <2>2 DEF PushesTypes
  <1>5. CASE Gateway!restart
    BY <1>5 DEF Gateway!restart, PushesTypes
  <1> QED
    BY <1>1, <1>2, <1>3, <1>4, <1>5 DEF Gateway!Next, Gateway!stream, Gateway!dropped, Gateway!closed, Gateway!rpc,
       Gateway!dispatch, Gateway!rpcResult, Gateway!timeout, Gateway!turn, Gateway!forget, Gateway!forgottenElsewhere,
       Gateway!pushes, gatewayVars

\* A step keeps it.
LEMMA SurfaceStep == SurfaceTypes /\ [Gateway!Next]_gatewayVars => SurfaceTypes'
  <1> SUFFICES ASSUME SurfaceTypes, [Gateway!Next]_gatewayVars PROVE SurfaceTypes'
    OBVIOUS
  <1>0. MaxTurns \in Nat /\ MaxResets \in Nat /\ "none" \in Gateway!Caps
    BY BoundsAssumption DEF Gateway!Caps
  <1>1. CASE UNCHANGED <<sig, knows, lately, gatewayTurns, resets>>
    BY <1>1 DEF SurfaceTypes
  <1>2. ASSUME NEW d \in Phones, NEW c \in Gateway!Caps, Gateway!turn(d, c) PROVE SurfaceTypes'
    BY <1>0, <1>2 DEF Gateway!turn, SurfaceTypes
  <1>3. ASSUME NEW d \in Phones, Gateway!forget(d) \/ Gateway!forgottenElsewhere(d) PROVE SurfaceTypes'
    BY <1>0, <1>3 DEF Gateway!forget, Gateway!forgottenElsewhere, SurfaceTypes
  <1>4. CASE Gateway!restart
    BY <1>0, <1>4 DEF Gateway!restart, SurfaceTypes
  <1> QED
    BY <1>1, <1>2, <1>3, <1>4 DEF Gateway!Next, Gateway!stream, Gateway!dropped, Gateway!closed, Gateway!rpc,
       Gateway!dispatch, Gateway!rpcResult, Gateway!timeout, Gateway!speak, Gateway!openRemoteDesktop, Gateway!outFile,
       Gateway!surface, gatewayVars

\* Every command is answered once, and a device that holds a stream is reached on it: however streams cross,
\* answers come late and the gateway starts again.
THEOREM AnsweredAndReachable == Spec => [](Gateway!TypeOK /\ Gateway!AnsweredOnce /\ Gateway!Reachable)
  <1> DEFINE Inv == StreamsInv /\ CallsInv /\ PushesTypes /\ SurfaceTypes
  <1>1. Gateway!Init => Inv
    BY GatewayInit
  <1>2. Inv /\ [Gateway!Next]_gatewayVars => Inv'
    BY Zenon, StreamsKeptStep, CallsStep, PushesStep, SurfaceStep
  <1>3. Inv => Gateway!TypeOK /\ Gateway!AnsweredOnce /\ Gateway!Reachable
    <2> SUFFICES ASSUME Inv PROVE Gateway!TypeOK
      BY DEF StreamsInv, CallsInv
    <2>1. /\ chat \in [Phones -> 0..MaxLinks] /\ control \in [Phones -> 0..MaxLinks]
          /\ \A l \in Gateway!Links : links[l] = <<>> \/ links[l] \in [dev : Phones, kind : {"chat", "control"}]
          /\ gatewayMade \in 0..MaxLinks
      BY DEF StreamsInv, TakenUp, LinkKinds
    <2>2. live \subseteq Gateway!Links /\ gatewayClosing \subseteq Gateway!Links
      BY BoundsAssumption DEF StreamsInv, Gateway!Links
    <2>3. /\ rpcs \in 0..MaxRpcs /\ gatewayPending \subseteq Gateway!Rpcs /\ gatewayAnswers \in [Gateway!Rpcs -> 0..2]
          /\ frames \subseteq Gateway!Rpcs /\ results \subseteq Gateway!Rpcs
      BY BoundsAssumption DEF CallsInv, Gateway!Rpcs
    <2> QED BY <2>1, <2>2, <2>3 DEF PushesTypes, SurfaceTypes, LinkKinds, Gateway!TypeOK
  <1> QED BY <1>1, <1>2, <1>3, EachOnItsOwn, PTL

---------------------------------------------------------------------------
(* The voice room: replies spoken, and a speaker transcribed.               *)

Replying == [at : {"off", "chime", "run", "drain"}, gen : 0..MaxGen, queue : 0..1]
ChannelTypes ==
  /\ joined \in BOOLEAN /\ roomMuted \in BOOLEAN /\ busy \in BOOLEAN /\ drone \in BOOLEAN
  /\ roomGen \in 0..MaxGen /\ session \in {0, 1} /\ reply \in [Utterances -> Replying]
  /\ mouth \subseteq Utterances /\ player \subseteq Utterances /\ (player = {} \/ \E r \in Utterances : player = {r})
  /\ roomCur \in 0..MaxStreams /\ open \subseteq Room!Streams /\ roomHeard \subseteq Room!Streams
  /\ roomClosing \subseteq Room!Streams

\* It holds at the start.
LEMMA ChannelInit == Room!ChannelInit => ChannelTypes
  <1> SUFFICES ASSUME Room!ChannelInit PROVE ChannelTypes
    OBVIOUS
  <1>1. joined \in BOOLEAN /\ roomMuted \in BOOLEAN /\ busy \in BOOLEAN /\ drone \in BOOLEAN
    BY Zenon DEF Room!ChannelInit
  <1>2. reply \in [Utterances -> Replying]
    BY BoundsAssumption DEF Room!ChannelInit, Replying
  <1> QED BY <1>1, <1>2, BoundsAssumption DEF Room!ChannelInit, ChannelTypes, Room!None

\* A reply one of whose fields changed.
LEMMA ReplyWith ==
  ASSUME NEW f \in [Utterances -> Replying], NEW r \in Utterances
  PROVE  /\ \A x \in {"off", "chime", "run", "drain"} : [f EXCEPT ![r].at = x] \in [Utterances -> Replying]
         /\ \A x \in 0..1 : [f EXCEPT ![r].queue = x] \in [Utterances -> Replying]
  <1>1. \A x \in {"off", "chime", "run", "drain"} : [f[r] EXCEPT !.at = x] \in Replying
    BY DEF Replying
  <1>2. \A x \in 0..1 : [f[r] EXCEPT !.queue = x] \in Replying
    BY DEF Replying
  <1>3. \A v \in Replying : [f EXCEPT ![r] = v] \in [Utterances -> Replying]
    OBVIOUS
  <1>4. ASSUME NEW x \in {"off", "chime", "run", "drain"} PROVE [f EXCEPT ![r].at = x] \in [Utterances -> Replying]
    <2>1. [f EXCEPT ![r].at = x] = [f EXCEPT ![r] = [f[r] EXCEPT !.at = x]]
      OBVIOUS
    <2> QED BY <1>1, <1>3, <2>1
  <1>5. ASSUME NEW x \in 0..1 PROVE [f EXCEPT ![r].queue = x] \in [Utterances -> Replying]
    <2>1. [f EXCEPT ![r].queue = x] = [f EXCEPT ![r] = [f[r] EXCEPT !.queue = x]]
      OBVIOUS
    <2> QED BY <1>2, <1>3, <2>1
  <1> QED BY <1>4, <1>5

\* A stop silences: nothing begins to be heard.
LEMMA Silenced ==
  ASSUME ChannelTypes, Room!Stopped
  PROVE  /\ roomGen' \in 0..MaxGen /\ session' = 0 /\ busy' \in BOOLEAN /\ drone' \in BOOLEAN
         /\ mouth' \subseteq mouth /\ player' \in {player, {}}
  <1>1. busy' \in BOOLEAN /\ drone' \in BOOLEAN
    BY Zenon DEF Room!Stopped
  <1> QED BY <1>1, BoundsAssumption DEF ChannelTypes, Room!Stopped, Room!None

\* The spoken replies and the streams keep their types.
LEMMA ChannelStep == ChannelTypes /\ Room!ChannelNext => ChannelTypes'
  <1> SUFFICES ASSUME ChannelTypes, Room!ChannelNext PROVE ChannelTypes'
    OBVIOUS
  <1> USE DEF ChannelTypes
  <1>1. CASE Room!stopVoiceReply \/ Room!onBargeIn
    <2>1. Room!Stopped /\ UNCHANGED <<joined, roomMuted, reply, roomCur, open, roomHeard, roomClosing>>
      BY <1>1 DEF Room!stopVoiceReply, Room!onBargeIn, Room!stt
    <2> QED BY <2>1, Silenced
  <1>2. CASE Room!mute \/ Room!unmute
    <2>1. roomMuted' \in BOOLEAN
      BY Zenon, <1>2 DEF Room!mute, Room!unmute
    <2>2. /\ UNCHANGED <<joined, reply, roomCur, open, roomHeard, roomClosing>>
          /\ Room!Stopped \/ UNCHANGED <<roomGen, session, busy, drone, mouth, player>>
      BY <1>2 DEF Room!mute, Room!unmute, Room!stt
    <2> QED BY <2>1, <2>2, Silenced
  <1>3. CASE Room!join
    <2>1. joined' \in BOOLEAN
      BY Zenon, <1>3 DEF Room!join
    <2>2. UNCHANGED <<roomMuted, busy, roomGen, session, reply, mouth, player, drone, roomCur, open, roomHeard, roomClosing>>
      BY <1>3 DEF Room!join, Room!stt
    <2> QED BY <2>1, <2>2
  <1>4. CASE Room!leave
    <2>1. joined' \in BOOLEAN /\ roomMuted' \in BOOLEAN
      BY Zenon, <1>4 DEF Room!leave
    <2>2. /\ mouth' = {} /\ player' = {} /\ open' \subseteq open /\ roomClosing' \subseteq roomClosing /\ roomCur' = 0
          /\ UNCHANGED <<busy, roomGen, session, reply, drone, roomHeard>>
      BY <1>4 DEF Room!leave, Room!None
    <2> QED BY <2>1, <2>2, BoundsAssumption
  <1>5. CASE Room!speakingStarts
    <2> DEFINE left0 == Room!Streams \ (open \cup roomHeard \cup roomClosing)
    <2>1. UNCHANGED <<joined, roomMuted, busy, roomGen, session, reply, mouth, player, drone>>
      BY <1>5 DEF Room!speakingStarts
    <2>2. CASE /\ roomCur # 0 /\ roomHeard' = roomHeard \cup {roomCur} /\ roomClosing' = roomClosing \ {roomCur}
               /\ UNCHANGED <<roomCur, open>>
      BY <2>1, <2>2, BoundsAssumption DEF Room!Streams
    <2>3. CASE /\ Room!Cardinality(left0) > 0 /\ roomCur' = (CHOOSE s \in left0 : TRUE)
               /\ open' = open \cup {roomCur'} /\ roomHeard' = roomHeard \cup {roomCur'} /\ UNCHANGED roomClosing
      <3>1. Cardinality(left0) > 0
        <4>1. Cardinality(left0) = Room!Cardinality(left0)
          BY Zenon DEF Room!Cardinality, Cardinality
        <4> QED BY <2>3, <4>1
      <3>2. left0 # {}
        BY <3>1, FS_EmptySet
      <3>3. roomCur' \in Room!Streams
        BY <2>3, <3>2
      <3>4. roomCur' \in 0..MaxStreams
        BY <3>3, BoundsAssumption DEF Room!Streams
      <3> HIDE DEF left0
      <3>5. open' \subseteq Room!Streams /\ roomHeard' \subseteq Room!Streams /\ roomClosing' = roomClosing
        BY <2>3, <3>3
      <3> QED BY <2>1, <3>4, <3>5
    <2> QED BY <1>5, <2>2, <2>3 DEF Room!speakingStarts
  <1>6. ASSUME NEW s \in Room!Streams, Room!decoderEnds(s) \/ Room!idleTimer(s) PROVE ChannelTypes'
    <2>1. /\ UNCHANGED <<joined, roomMuted, busy, roomGen, session, reply, mouth, player, drone>>
          /\ roomHeard' \subseteq roomHeard /\ roomClosing' \subseteq roomClosing \cup {s} /\ open' \subseteq open
          /\ roomCur' \in {roomCur, 0}
      BY <1>6 DEF Room!decoderEnds, Room!idleTimer
    <2> QED BY <2>1, BoundsAssumption
  <1>7. ASSUME NEW r \in Utterances, Room!handleVoiceUtterance(r) PROVE ChannelTypes'
    <2>1. reply' = [reply EXCEPT ![r] = [at |-> "chime", gen |-> roomGen, queue |-> 0]] /\ busy' = TRUE /\ session' = 1
      BY <1>7 DEF Room!handleVoiceUtterance
    <2>2. [at |-> "chime", gen |-> roomGen, queue |-> 0] \in Replying
      BY DEF Replying
    <2>3. reply' \in [Utterances -> Replying] /\ busy' \in BOOLEAN
      <3>1. busy' \in BOOLEAN
        BY Zenon, <2>1
      <3> QED BY <2>1, <2>2, <3>1
    <2> QED BY <1>7, <2>1, <2>3 DEF Room!handleVoiceUtterance, Room!stt
  <1>8. ASSUME NEW r \in Utterances, Room!Chimed(r) \/ Room!StreamEnds(r) \/ Room!speakSentence(r) PROVE ChannelTypes'
    <2>1. reply' \in [Utterances -> Replying]
      <3>1. CASE reply' = [reply EXCEPT ![r].at = "run"]
        BY Zenon, <3>1, ReplyWith
      <3>2. CASE reply' = [reply EXCEPT ![r].at = "drain"]
        BY Zenon, <3>2, ReplyWith
      <3>3. CASE reply' = [reply EXCEPT ![r].queue = 1]
        <4>1. 1 \in 0..1
          OBVIOUS
        <4> QED BY Zenon, <3>3, <4>1, ReplyWith
      <3> QED BY Zenon, <1>8, <3>1, <3>2, <3>3 DEF Room!Chimed, Room!StreamEnds, Room!speakSentence
    <2>2. /\ UNCHANGED <<joined, roomMuted, busy, roomGen, session, mouth, player, roomCur, open, roomHeard, roomClosing>>
          /\ drone' = drone \/ drone' = joined
      BY <1>8 DEF Room!Chimed, Room!StreamEnds, Room!speakSentence, Room!stt
    <2> QED BY <2>1, <2>2
  <1>9. ASSUME NEW r \in Utterances, Room!speak(r) PROVE ChannelTypes'
    <2>1. reply' \in [Utterances -> Replying]
      <3>1. 0 \in 0..1 /\ reply' = [reply EXCEPT ![r].queue = 0]
        BY <1>9 DEF Room!speak
      <3> QED BY Zenon, <3>1, ReplyWith
    <2>2. drone' \in BOOLEAN
      BY Zenon, <1>9 DEF Room!speak
    <2>3. /\ UNCHANGED <<joined, roomMuted, busy, roomGen, session, roomCur, open, roomHeard, roomClosing>>
          /\ mouth' \subseteq mouth \cup {r} /\ player' \in {player, {r}}
      BY <1>9 DEF Room!speak, Room!stt
    <2> QED BY <2>1, <2>2, <2>3
  <1>10. ASSUME NEW r \in Utterances, Room!SpokenOut(r) PROVE ChannelTypes'
    BY <1>10 DEF Room!SpokenOut, Room!stt
  <1>11. ASSUME NEW r \in Utterances, Room!Finally(r) PROVE ChannelTypes'
    <2>1. reply' \in [Utterances -> Replying]
      <3>1. reply' = [reply EXCEPT ![r].at = "off"]
        BY <1>11 DEF Room!Finally
      <3> QED BY Zenon, <3>1, ReplyWith
    <2>2. busy' \in BOOLEAN /\ drone' \in BOOLEAN
      BY Zenon, <1>11 DEF Room!Finally
    <2> QED BY <1>11, <2>1, <2>2 DEF Room!Finally, Room!stt
  <1> QED BY <1>1, <1>2, <1>3, <1>4, <1>5, <1>6, <1>7, <1>8, <1>9, <1>10, <1>11 DEF Room!ChannelNext

---------------------------------------------------------------------------
(* The running transcript.                                                  *)

\* The overlap is the longest there is.
LEMMA Overlaps ==
  ASSUME NEW full \in Seq(Room!Dressed), NEW window \in Seq(Room!Dressed)
  PROVE  LET k == Room!Overlap(full, window)
             fits(n) == n <= Len(full) /\
                        \A i \in 1..n : Room!norm(full[Len(full) - n + i]) = Room!norm(window[i])
         IN  k \in 0..Len(window) /\ fits(k) /\ \A n \in (k + 1)..Len(window) : ~fits(n)
  <1> DEFINE L == Len(window)
             fits(n) == n <= Len(full) /\
                        \A i \in 1..n : Room!norm(full[Len(full) - n + i]) = Room!norm(window[i])
             short == {m \in 0..L : fits(L - m)}
  <1>1. L \in Nat /\ Len(full) \in Nat
    OBVIOUS
  <1>2. fits(0)
    BY <1>1
  <1> HIDE DEF fits, L
  <1>3. L \in short /\ short \in SUBSET Nat
    BY <1>1, <1>2
  <1>4. PICK m \in short : \A n \in short : m <= n
    BY <1>3, Least
  <1>5. L - m \in 0..L /\ fits(L - m)
    BY <1>1, <1>4
  <1>6. \A n \in (L - m + 1)..L : ~fits(n)
    <2> SUFFICES ASSUME NEW n \in (L - m + 1)..L, fits(n) PROVE FALSE
      OBVIOUS
    <2>1. m \in Nat /\ n \in Nat /\ L - (L - n) = n /\ L - n \in 0..L /\ L - n < m
      BY <1>1, <1>4, <1>5
    <2>2. L - n \in short
      BY <2>1
    <2> HIDE DEF short
    <2> QED BY <1>1, <1>4, <2>1, <2>2
  <1>7. \E k \in 0..L : fits(k) /\ \A n \in (k + 1)..L : ~fits(n)
    BY <1>5, <1>6
  <1>8. Room!Overlap(full, window) = CHOOSE k \in 0..L : fits(k) /\ \A n \in (k + 1)..L : ~fits(n)
    BY DEF Room!Overlap, fits, L
  <1>9. LET k == Room!Overlap(full, window) IN k \in 0..L /\ fits(k) /\ \A n \in (k + 1)..L : ~fits(n)
    BY <1>7, <1>8
  <1> QED BY <1>9 DEF fits, L

\* What the service reports, n words in: the last k of them, dressed.
Report(n, k, dress) == [i \in 1..k |-> <<api[n - k + i], dress[i]>>]

\* The merged transcript ends with the last word of the report.
LEMMA MergedEnds ==
  ASSUME NEW full \in Seq(Room!Dressed), NEW window \in Seq(Room!Dressed), window # <<>>
  PROVE  LET new == Room!mergeWindow(full, window) IN
           new \in Seq(Room!Dressed) /\ new # <<>> /\ new[Len(new)][1] = window[Len(window)][1]
  <1> DEFINE k == Room!Overlap(full, window)
             rest == SubSeq(window, k + 1, Len(window))
             new == Room!mergeWindow(full, window)
  <1>1. /\ k \in 0..Len(window) /\ k <= Len(full)
        /\ \A i \in 1..k : Room!norm(full[Len(full) - k + i]) = Room!norm(window[i])
    BY Overlaps
  <1>2. new = full \o rest
    BY DEF Room!mergeWindow
  <1> HIDE DEF k, new
  <1>3. rest \in Seq(Room!Dressed) /\ Len(rest) = Len(window) - k
        /\ \A i \in 1..(Len(window) - k) : rest[i] = window[k + i]
    BY <1>1, SubSeqProperties
  <1> HIDE DEF rest
  <1>4. /\ new \in Seq(Room!Dressed) /\ Len(new) = Len(full) + Len(rest)
        /\ \A i \in 1..(Len(full) + Len(rest)) : new[i] = IF i <= Len(full) THEN full[i] ELSE rest[i - Len(full)]
    BY <1>2, <1>3, ConcatProperties
  <1>5. Len(window) \in Nat /\ Len(window) > 0 /\ Len(full) \in Nat
    BY EmptySeq
  <1>6. CASE k = Len(window)
    <2>1. Len(new) = Len(full) /\ Len(full) > 0 /\ new[Len(new)] = full[Len(full)]
      BY <1>1, <1>3, <1>4, <1>5, <1>6
    <2>2. Room!norm(full[Len(full)]) = Room!norm(window[Len(window)])
      <3>1. k \in 1..k /\ Len(full) - k + k = Len(full)
        BY <1>1, <1>5, <1>6
      <3> QED BY <1>1, <1>6, <3>1
    <2>3. Len(new) > 0 /\ new[Len(new)][1] = window[Len(window)][1]
      BY <2>1, <2>2 DEF Room!norm
    <2> QED BY <1>4, <2>3, EmptySeq DEF new
  <1>7. CASE k < Len(window)
    <2>1. Len(new) > Len(full) /\ Len(new) = Len(full) + (Len(window) - k) /\ Len(new) \in 1..(Len(full) + Len(rest))
      BY <1>1, <1>3, <1>4, <1>5, <1>7
    <2>2. new[Len(new)] = rest[Len(window) - k]
      BY <1>1, <1>4, <1>5, <2>1
    <2>3. rest[Len(window) - k] = window[Len(window)]
      <3>1. Len(window) - k \in 1..(Len(window) - k) /\ k + (Len(window) - k) = Len(window)
        BY <1>1, <1>5, <1>7
      <3> QED BY <1>3, <3>1
    <2>4. Len(new) > 0 /\ new[Len(new)][1] = window[Len(window)][1]
      BY <1>5, <2>1, <2>2, <2>3
    <2> QED BY <1>4, <2>4, EmptySeq DEF new
  <1> QED BY <1>1, <1>6, <1>7

\* Of words none of which is said twice, the merged transcript is the words.
LEMMA MergedExact ==
  ASSUME NEW s \in Seq(Room!Vocabulary), NEW full \in Seq(Room!Dressed), NEW window \in Seq(Room!Dressed),
         NEW n \in 1..Len(s), NEW k \in 1..n, Len(window) = k, Len(full) < n, n - k <= Len(full),
         \A i \in 1..Len(full) : full[i][1] = s[i],
         \A i \in 1..k : window[i][1] = s[n - k + i],
         \A i, j \in 1..n : s[i] = s[j] => i = j
  PROVE  LET new == Room!mergeWindow(full, window) IN
           Len(new) = n /\ \A i \in 1..n : new[i][1] = s[i]
  <1> DEFINE o == Room!Overlap(full, window)
             rest == SubSeq(window, o + 1, Len(window))
             new == Room!mergeWindow(full, window)
             f == Len(full)
             m == f - (n - k)
  <1>1. /\ o \in 0..k /\ o <= f
        /\ \A i \in 1..o : full[f - o + i][1] = window[i][1]
        /\ \A j \in (o + 1)..k : ~(j <= f /\ \A i \in 1..j : full[f - j + i][1] = window[i][1])
    BY Overlaps DEF Room!norm
  <1>2. f \in Nat /\ m = f - (n - k) /\ m \in 0..k /\ m < k /\ m <= f /\ n \in Nat /\ k \in 1..n /\ f < n
    OBVIOUS
  <1>2a. /\ \A i \in 1..f : full[i][1] = s[i]
         /\ \A i \in 1..k : window[i][1] = s[n - k + i]
    OBVIOUS
  <1>2c. \A i, j \in 1..n : s[i] = s[j] => i = j
    OBVIOUS
  <1>2b. f = Len(full) /\ new = Room!mergeWindow(full, window) /\ o = Room!Overlap(full, window)
    OBVIOUS
  <1> HIDE DEF f, m, o
  <1>3. \A i \in 1..m : full[f - m + i][1] = window[i][1]
    <2> SUFFICES ASSUME NEW i \in 1..m PROVE full[f - m + i][1] = window[i][1]
      OBVIOUS
    <2>1. f - m + i = n - k + i /\ f - m + i \in 1..f /\ i \in 1..k
      BY <1>2
    <2> QED BY <1>2a, <2>1
  <1>4. m <= o
    <2> SUFFICES ASSUME ~(m <= o) PROVE FALSE
      OBVIOUS
    <2>1. m \in (o + 1)..k /\ m <= f
      BY <1>1, <1>2
    <2> QED BY <1>1, <1>3, <2>1
  <1>5. o = m
    <2>1. CASE o = 0
      BY <1>2, <1>4, <2>1
    <2>2. CASE o > 0
      <3>1. 1 \in 1..o /\ f - o + 1 \in 1..f /\ 1 \in 1..k
        BY <1>1, <1>2, <2>2
      <3>2. full[f - o + 1][1] = window[1][1] /\ full[f - o + 1][1] = s[f - o + 1] /\ window[1][1] = s[n - k + 1]
        BY <1>1, <1>2a, <3>1
      <3>3. f - o + 1 \in 1..n /\ n - k + 1 \in 1..n
        BY <1>1, <1>2, <2>2
      <3> DEFINE x == f - o + 1
                 y == n - k + 1
      <3>3a. x \in 1..n /\ y \in 1..n /\ s[x] = s[y]
        BY <3>2, <3>3
      <3>3b. x = f - o + 1 /\ y = n - k + 1
        OBVIOUS
      <3> HIDE DEF x, y
      <3>3c. x = y
        BY <1>2c, <3>3a
      <3>4. f - o + 1 = n - k + 1
        BY <3>3b, <3>3c
      <3> QED BY <1>1, <1>2, <3>4
    <2> QED BY <1>1, <2>1, <2>2
  <1>6. new = full \o rest
    BY <1>2b DEF Room!mergeWindow
  <1> HIDE DEF new
  <1>7. rest \in Seq(Room!Dressed) /\ Len(rest) = k - m /\ \A i \in 1..(k - m) : rest[i] = window[m + i]
    <2>1. m + 1 \in 1..(Len(window) + 1) /\ Len(window) \in Nat
      BY <1>2
    <2> QED BY <1>2, <1>5, <2>1, SubSeqProperties
  <1> HIDE DEF rest
  <1>8. /\ Len(new) = f + (k - m)
        /\ \A i \in 1..(f + (k - m)) : new[i] = IF i <= f THEN full[i] ELSE rest[i - f]
    <2>1. Len(full \o rest) = Len(full) + Len(rest)
          /\ \A i \in 1..(Len(full) + Len(rest)) : (full \o rest)[i] = IF i <= Len(full) THEN full[i] ELSE rest[i - Len(full)]
      BY <1>7, ConcatProperties
    <2> QED BY <1>6, <1>7, <1>2b, <2>1
  <1>9. f + (k - m) = n
    <2>1. f \in Nat /\ n \in Nat /\ k \in 1..n /\ m = f - (n - k)
      BY <1>2
    <2> QED BY ONLY <2>1
  <1>10. ASSUME NEW i \in 1..n PROVE new[i][1] = s[i]
    <2>1. CASE i <= f
      BY <1>2, <1>8, <1>9, <1>2a, <2>1
    <2>2. CASE i > f
      <3>1. i - f \in 1..(k - m) /\ m + (i - f) \in 1..k /\ n - k + (m + (i - f)) = i
        BY <1>2, <2>2
      <3>2. new[i] = rest[i - f] /\ rest[i - f] = window[m + (i - f)]
        BY <1>2, <1>7, <1>8, <1>9, <2>2, <3>1
      <3> QED BY <1>2a, <3>1, <3>2
    <2> QED BY <1>2, <2>1, <2>2
  <1> QED BY <1>8, <1>9, <1>10 DEF new

\* The words of a transcript that ends with the k words of the speech after the b-th, and of one whose
\* words are some of the first n of the speech, in order.
EndsAs(c, k, s, b) == k <= Len(c) /\ \A i \in 1..k : c[Len(c) - k + i][1] = s[b + i]
FoundAt(at, c, s) == \A i, j \in 1..Len(c) : (i < j => at[i] < at[j]) /\ c[i][1] = s[at[i]]
Among(c, s, n) == \E at \in [1..Len(c) -> 1..n] : FoundAt(at, c, s)

\* A caption whose words are some of the speech's, in order.
LEMMA SelectsAs ==
  ASSUME NEW c \in Seq(Room!Dressed), NEW t \in Seq(Room!Vocabulary)
  PROVE  Room!Selects(Room!Spoken(c), t) <=> Among(c, t, Len(t))
  <1>1. DOMAIN c = 1..Len(c) /\ DOMAIN t = 1..Len(t)
    OBVIOUS
  <1>2. DOMAIN Room!Spoken(c) = 1..Len(c) /\ \A i \in 1..Len(c) : Room!Spoken(c)[i] = c[i][1]
    BY <1>1 DEF Room!Spoken
  <1> DEFINE sp == Room!Spoken(c)
             l == 1..Len(c)
             m == 1..Len(t)
  <1> HIDE DEF sp, l, m
  <1>3. Room!Selects(sp, t) <=> \E at \in [l -> m] : \A i, j \in l : (i < j => at[i] < at[j]) /\ sp[i] = t[at[i]]
    BY Zenon, <1>1, <1>2 DEF Room!Selects, sp, l, m
  <1>4. \A i \in l : sp[i] = c[i][1]
    BY Zenon, <1>2 DEF sp, l
  <1>5. ASSUME NEW at \in [l -> m]
        PROVE  (\A i, j \in l : (i < j => at[i] < at[j]) /\ sp[i] = t[at[i]])
               <=> (\A i, j \in l : (i < j => at[i] < at[j]) /\ c[i][1] = t[at[i]])
    BY <1>4
  <1>6. Room!Selects(sp, t) <=> \E at \in [l -> m] : \A i, j \in l : (i < j => at[i] < at[j]) /\ c[i][1] = t[at[i]]
    BY Zenon, <1>3, <1>5
  <1> QED BY Zenon, <1>6 DEF sp, l, m, Among, FoundAt

\* Reports whose windows advance are merged so that the transcript ends with the last of them, and every
\* word of it is one reported: what the overlap holds was reported before, the rest is new.
LEMMA MergedSelects ==
  ASSUME NEW s \in Seq(Room!Vocabulary), NEW full \in Seq(Room!Dressed), NEW window \in Seq(Room!Dressed),
         NEW n \in 1..Len(s), NEW k \in 1..n, Len(window) = k, NEW r \in 0..(n - 1), n - k <= r,
         NEW b \in 1..(n - k + 1),
         EndsAs(window, k, s, n - k), EndsAs(full, r - b + 1, s, b - 1), Among(full, s, r)
  PROVE  LET new == Room!mergeWindow(full, window) IN EndsAs(new, k, s, n - k) /\ Among(new, s, n)
  <1>0. PICK at \in [1..Len(full) -> 1..r] : FoundAt(at, full, s)
    BY Zenon DEF Among
  <1> DEFINE o == Room!Overlap(full, window)
             rest == SubSeq(window, o + 1, Len(window))
             new == Room!mergeWindow(full, window)
             f == Len(full)
             w == r - b + 1
             m == r - (n - k)
             l == f + (k - o)
  <1>1. /\ o \in 0..k /\ o <= f
        /\ \A i \in 1..o : full[f - o + i][1] = window[i][1]
        /\ \A j \in (o + 1)..k : ~(j <= f /\ \A i \in 1..j : full[f - j + i][1] = window[i][1])
    BY Overlaps DEF Room!norm
  <1>2. /\ f \in Nat /\ n \in Nat /\ k \in 1..n /\ r \in 0..(n - 1) /\ b \in 1..(n - k + 1) /\ w = r - b + 1
        /\ m = r - (n - k) /\ m \in 0..k /\ m <= w /\ w <= f /\ w - m = n - k + 1 - b
    BY DEF EndsAs
  <1>3. /\ \A i \in 1..k : window[i][1] = s[n - k + i]
        /\ \A i \in 1..w : full[f - w + i][1] = s[b - 1 + i]
        /\ at \in [1..f -> 1..r]
        /\ \A i, j \in 1..f : (i < j => at[i] < at[j]) /\ full[i][1] = s[at[i]]
    <2>1. \A i \in 1..k : window[i][1] = s[n - k + i]
      <3>1. \A i \in 1..k : window[Len(window) - k + i][1] = s[n - k + i]
        BY Zenon DEF EndsAs
      <3>2. \A i \in 1..k : Len(window) - k + i = i
        OBVIOUS
      <3> QED BY <3>1, <3>2
    <2>2. \A i \in 1..w : full[f - w + i][1] = s[b - 1 + i]
      BY Zenon DEF EndsAs
    <2> QED BY Zenon, <1>0, <2>1, <2>2 DEF FoundAt
  <1>4. new = full \o rest
    BY DEF Room!mergeWindow
  <1>5. f = Len(full) /\ new = Room!mergeWindow(full, window) /\ rest = SubSeq(window, o + 1, k) /\ l = f + (k - o)
    OBVIOUS
  <1> HIDE DEF o, f, w, m, new, rest, l
  <1>6. m <= o
    <2>1. ASSUME NEW i \in 1..m PROVE full[f - m + i][1] = window[i][1]
      <3>1. /\ f \in Int /\ w \in Int /\ m \in Int /\ n \in Int /\ k \in Int /\ b \in Int /\ i \in Int
            /\ 1 <= i /\ i <= m /\ m <= w /\ m <= k /\ w - m = n - k + 1 - b
        BY <1>2
      <3>1a. /\ w - m + i \in 1..w /\ f - w + (w - m + i) = f - m + i /\ b - 1 + (w - m + i) = n - k + i
             /\ i \in 1..k
        BY <3>1
      <3>2. full[f - w + (w - m + i)][1] = s[b - 1 + (w - m + i)]
        BY <1>3, <3>1a
      <3> QED BY <1>3, <3>1a, <3>2
    <2>2. ~(m \in (o + 1)..k)
      <3>1. m <= f
        BY <1>2
      <3> QED BY <1>1, <2>1, <3>1
    <2> QED BY <1>1, <1>2, <2>2
  <1>7. rest \in Seq(Room!Dressed) /\ Len(rest) = k - o /\ \A i \in 1..(k - o) : rest[i] = window[o + i]
    <2>1. o + 1 \in 1..(Len(window) + 1) /\ Len(window) \in Nat
      BY <1>1, <1>2
    <2> QED BY <1>1, <1>2, <1>5, <2>1, SubSeqProperties
  <1>8. Len(new) = l /\ \A i \in 1..l : new[i] = IF i <= f THEN full[i] ELSE rest[i - f]
    <2>1. Len(full \o rest) = Len(full) + Len(rest)
          /\ \A i \in 1..(Len(full) + Len(rest)) : (full \o rest)[i] = IF i <= Len(full) THEN full[i] ELSE rest[i - Len(full)]
      <3>1. full \in Seq(Room!Dressed) /\ rest \in Seq(Room!Dressed)
        BY <1>7
      <3> QED BY <3>1, ConcatProperties
    <2> QED BY <1>4, <1>5, <1>7, <2>1
  <1>9. l \in Nat /\ k <= l /\ l = f + (k - o)
    BY <1>1, <1>2, <1>5
  <1>10. ASSUME NEW i \in 1..k PROVE new[l - k + i][1] = s[n - k + i]
    <2>1. l - k + i = f - o + i /\ l - k + i \in 1..l
      BY <1>1, <1>2, <1>9
    <2>2. CASE i <= o
      <3>1. f - o + i <= f /\ i \in 1..o
        <4>1. f \in Int /\ o \in Int /\ i \in Int /\ 1 <= i
          BY <1>1, <1>2
        <4> QED BY <2>2, <4>1
      <3>2. new[f - o + i] = full[f - o + i]
        BY <1>8, <2>1, <3>1
      <3> QED BY <1>1, <1>3, <2>1, <3>1, <3>2
    <2>3. CASE i > o
      <3>1. ~(f - o + i <= f) /\ (f - o + i) - f = i - o /\ i - o \in 1..(k - o) /\ o + (i - o) = i
        BY <1>1, <1>2, <2>3
      <3>2. new[f - o + i] = rest[i - o] /\ rest[i - o] = window[i]
        BY <1>7, <1>8, <2>1, <3>1
      <3> QED BY ZenonT(40), <1>3, <2>1, <3>2
    <2> QED BY <1>1, <2>2, <2>3
  <1> DEFINE to == [i \in 1..l |-> IF i <= f THEN at[i] ELSE n - l + i]
  <1>11. /\ \A i \in 1..l : i <= f => i \in 1..f /\ to[i] = at[i] /\ to[i] \in 1..r
         /\ \A i \in 1..l : i > f => to[i] = n - l + i /\ to[i] \in (r + 1)..n
    <2>1. ASSUME NEW i \in 1..l, i <= f PROVE i \in 1..f /\ to[i] = at[i] /\ to[i] \in 1..r
      <3>1. i \in 1..f /\ to[i] = at[i]
        BY <1>2, <1>9, <2>1
      <3> HIDE DEF to
      <3> QED BY <1>3, <3>1
    <2>2. ASSUME NEW i \in 1..l, i > f PROVE to[i] = n - l + i /\ to[i] \in (r + 1)..n
      <3>1. to[i] = n - l + i
        BY <1>2, <1>9, <2>2
      <3>2. n - l + i \in (r + 1)..n
        BY <1>1, <1>2, <1>6, <1>9, <2>2
      <3> QED BY <3>1, <3>2
    <2> QED BY <2>1, <2>2
  <1>12. to \in [1..l -> 1..n]
    <2>1. ASSUME NEW i \in 1..l PROVE to[i] \in 1..n
      <3> HIDE DEF to
      <3>1. i <= f \/ i > f
        BY <1>2, <1>9
      <3> QED BY <1>2, <1>11, <3>1
    <2>2. DOMAIN to = 1..l /\ to = [i \in 1..l |-> to[i]]
      OBVIOUS
    <2> HIDE DEF to
    <2> QED BY <2>1, <2>2
  <1> HIDE DEF to
  <1>13. ASSUME NEW i \in 1..l, NEW j \in 1..l, i < j PROVE to[i] < to[j]
    <2>1. CASE j <= f
      <3>1. i <= f
        BY <1>2, <1>9, <1>13, <2>1
      <3>2. i \in 1..f /\ j \in 1..f /\ to[i] = at[i] /\ to[j] = at[j]
        BY <1>11, <2>1, <3>1
      <3> QED BY <1>3, <1>13, <3>2
    <2>2. CASE i <= f /\ j > f
      <3>1. to[i] \in 1..r /\ to[j] \in (r + 1)..n
        BY <1>11, <2>2
      <3> QED BY <1>2, <3>1
    <2>3. CASE i > f /\ j > f
      <3>1. to[i] = n - l + i /\ to[j] = n - l + j
        BY <1>11, <2>3
      <3> QED BY <1>2, <1>9, <1>13, <3>1
    <2> QED BY <1>2, <1>9, <1>13, <2>1, <2>2, <2>3
  <1>14. ASSUME NEW i \in 1..l PROVE new[i][1] = s[to[i]]
    <2>1. CASE i <= f
      <3>1. i \in 1..f /\ to[i] = at[i] /\ new[i] = full[i]
        BY <1>8, <1>11, <2>1
      <3> QED BY <1>3, <3>1
    <2>2. CASE i > f
      <3>1. /\ ~(i <= f) /\ i - f \in 1..(k - o) /\ o + (i - f) \in 1..k /\ n - k + (o + (i - f)) = n - l + i
        BY <1>1, <1>2, <1>9, <2>2
      <3>2. new[i] = rest[i - f] /\ rest[i - f] = window[o + (i - f)] /\ to[i] = n - l + i
        BY <1>7, <1>8, <1>11, <2>2, <3>1
      <3>3. window[o + (i - f)][1] = s[n - k + (o + (i - f))]
        BY <1>3, <3>1
      <3> QED BY <3>1, <3>2, <3>3
    <2> QED BY <1>2, <1>9, <2>1, <2>2
  <1>15. EndsAs(new, k, s, n - k)
    BY <1>8, <1>9, <1>10 DEF EndsAs
  <1>16. \A i, j \in 1..l : (i < j => to[i] < to[j]) /\ new[i][1] = s[to[i]]
    BY <1>13, <1>14
  <1>17. Among(new, s, n)
    BY Zenon, <1>8, <1>12, <1>16 DEF Among, FoundAt
  <1> QED BY <1>15, <1>17 DEF new

---------------------------------------------------------------------------
(* A speaker transcribed.                                                   *)

SpeechTypes ==
  /\ roomSaid \in Seq(Room!Vocabulary) /\ queue \in Seq(Room!Vocabulary) /\ Len(queue) <= Backlog
  /\ finals \in Seq(Seq(Room!Vocabulary)) /\ burst \in Room!Silent..MaxWords /\ burst <= Len(roomSaid)
  /\ caption \in {"none", "sending", "posted"} /\ roomLate \in Nat /\ lines \in [final : Nat, partial : Nat]

\* Where the words are: sent and not answered for, or waiting for the socket.
SocketInv ==
  /\ api \in Seq(Room!Vocabulary) /\ given \in Seq(Room!Vocabulary)
  /\ sock \in {"none", "connecting", "open", "dead"}
  /\ seen \in 0..Len(api) /\ committed \in 0..Len(api)
  /\ sock # "open" => api = <<>> /\ seen = 0 /\ committed = 0
  /\ sock = "open" => queue = <<>>
  /\ Room!HeardAsSaid

\* The caption ends with the last report, as it was heard: nothing after it, and nothing of it lost.
EndsWithReport == EndsAs(transcript, seen - from + 1, api, from - 1)

\* A session that has reported nothing has no caption, and one that has ends with its last report.
CaptionSays ==
  /\ transcript \in Seq(Room!Dressed)
  /\ sock \in {"none", "connecting"} => transcript = <<>>
  /\ sock = "open" /\ seen = 0 => transcript = <<>>
  /\ from \in 1..(seen + 1)
  /\ sock = "open" => EndsWithReport
  /\ Room!CaptionFollows

\* It holds at the start.
LEMMA SpeechInit == Room!SpeechInit => SpeechTypes /\ SocketInv /\ CaptionSays
  <1> SUFFICES ASSUME Room!SpeechInit PROVE SpeechTypes /\ SocketInv /\ CaptionSays
    OBVIOUS
  <1>1. SpeechTypes
    BY BoundsAssumption DEF Room!SpeechInit, SpeechTypes, Room!Silent
  <1>2. SocketInv
    BY DEF Room!SpeechInit, SocketInv, Room!HeardAsSaid
  <1>3. CaptionSays
    BY DEF Room!SpeechInit, CaptionSays, Room!CaptionFollows
  <1> QED BY <1>1, <1>2, <1>3

\* The words and the messages keep their types.
LEMMA SpeechTypesStep == SpeechTypes /\ SocketInv /\ Room!SpeechNext => SpeechTypes'
  <1> SUFFICES ASSUME SpeechTypes, SocketInv, Room!SpeechNext PROVE SpeechTypes'
    OBVIOUS
  <1> DEFINE Chat == caption \in {"none", "sending", "posted"} /\ roomLate \in Nat /\ lines \in [final : Nat, partial : Nat]
             Words2 == roomSaid \in Seq(Room!Vocabulary) /\ queue \in Seq(Room!Vocabulary) /\ Len(queue) <= Backlog
                       /\ burst \in Room!Silent..MaxWords /\ burst <= Len(roomSaid)
  <1>1. Chat /\ Words2 /\ finals \in Seq(Seq(Room!Vocabulary))
    BY DEF SpeechTypes
  <1>2. SpeechTypes' <=> Chat' /\ Words2' /\ finals' \in Seq(Seq(Room!Vocabulary))
    BY DEF SpeechTypes
  <1>2a. UNCHANGED <<caption, roomLate, lines>> => Chat'
    BY <1>1
  <1> HIDE DEF Chat
  <1>3. CASE Room!burstStarts \/ Room!burstEnds
    <2>1. burst' \in {0, Room!Silent} /\ UNCHANGED <<roomSaid, queue, finals, caption, roomLate, lines>>
      BY <1>3 DEF Room!burstStarts, Room!burstEnds, Room!chat
    <2>2. Len(roomSaid) \in Nat /\ burst' \in Room!Silent..MaxWords /\ burst' <= Len(roomSaid)
      BY <1>1, <2>1, BoundsAssumption DEF Room!Silent
    <2>3. Words2'
      <3>1. roomSaid' = roomSaid /\ queue' = queue
        BY <2>1
      <3>2. roomSaid \in Seq(Room!Vocabulary) /\ queue \in Seq(Room!Vocabulary) /\ Len(queue) <= Backlog
        BY <1>1
      <3> QED BY <2>2, <3>1, <3>2
    <2>4. Chat' /\ finals' \in Seq(Seq(Room!Vocabulary))
      BY <1>1, <1>2a, <2>1
    <2> QED BY Zenon, <1>2, <2>3, <2>4
  <1>4. CASE Room!onopen \/ Room!socketFails \/ Room!sessionIdles
    <2>1. queue' \in {queue, <<>>} /\ UNCHANGED <<roomSaid, burst, finals, caption, roomLate, lines>>
      BY <1>4 DEF Room!onopen, Room!socketFails, Room!sessionIdles, Room!chat
    <2>2. Words2'
      <3>1. queue' \in Seq(Room!Vocabulary) /\ Len(queue') <= Backlog
        <4>1. queue' = queue \/ queue' = <<>>
          BY <2>1
        <4>2. <<>> \in Seq(Room!Vocabulary) /\ Len(<<>>) <= Backlog
          BY BoundsAssumption
        <4>3. queue \in Seq(Room!Vocabulary) /\ Len(queue) <= Backlog
          BY <1>1
        <4> QED BY Zenon, <4>1, <4>2, <4>3
      <3>2. roomSaid' = roomSaid /\ burst' = burst
        BY <2>1
      <3>3. roomSaid \in Seq(Room!Vocabulary) /\ burst \in Room!Silent..MaxWords /\ burst <= Len(roomSaid)
        BY <1>1
      <3> QED BY <3>1, <3>2, <3>3 DEF Room!Silent
    <2>3. Chat' /\ finals' \in Seq(Seq(Room!Vocabulary))
      BY <1>1, <1>2a, <2>1
    <2> QED BY Zenon, <1>2, <2>2, <2>3
  <1>5. CASE Room!completed
    <2> DEFINE utterance == SubSeq(api, 1, committed)
    <2>1. utterance \in Seq(Room!Vocabulary)
      BY SubSeqProperties DEF SocketInv
    <2>2. finals' = Append(finals, utterance) /\ UNCHANGED <<roomSaid, burst, queue>>
      BY <1>5 DEF Room!completed
    <2> HIDE DEF utterance
    <2>3. finals' \in Seq(Seq(Room!Vocabulary))
      BY <1>1, <2>1, <2>2, AppendProperties
    <2>4. Chat'
      <3>1. lines' = [lines EXCEPT !.final = @ + 1] /\ roomLate' \in {roomLate, roomLate + 1} /\ caption' = "none"
        BY <1>5 DEF Room!completed, Room!FinalLine
      <3>2. lines.final + 1 \in Nat /\ roomLate' \in Nat
        BY <1>1, <3>1 DEF Chat
      <3>3. lines' \in [final : Nat, partial : Nat]
        BY <1>1, <3>1, <3>2 DEF Chat
      <3> QED BY <3>1, <3>2, <3>3 DEF Chat
    <2> QED BY <1>1, <1>2, <2>2, <2>3, <2>4
  <1>6. CASE Room!captionSent
    <2>1. UNCHANGED <<roomSaid, burst, queue, finals>>
      BY <1>6 DEF Room!captionSent
    <2>2. CASE caption' = "posted" /\ UNCHANGED <<roomLate, lines>>
      <3>1. Chat'
        BY <1>1, <2>2 DEF Chat
      <3> QED BY <1>1, <1>2, <2>1, <3>1
    <2>3. CASE UNCHANGED caption /\ roomLate > 0 /\ roomLate' = roomLate - 1 /\ lines' = [lines EXCEPT !.partial = @ + 1]
      <3>1. roomLate' \in Nat
        BY <1>1, <2>3 DEF Chat
      <3>2. lines' \in [final : Nat, partial : Nat]
        <4>1. lines.partial + 1 \in Nat
          BY <1>1 DEF Chat
        <4> QED BY <1>1, <2>3, <4>1 DEF Chat
      <3>3. Chat'
        BY <1>1, <2>3, <3>1, <3>2 DEF Chat
      <3> QED BY <1>1, <1>2, <2>1, <3>3
    <2> QED BY <1>6, <2>2, <2>3 DEF Room!captionSent
  <1>7. ASSUME NEW w \in Room!Vocabulary, Room!pushPcm24(w) PROVE SpeechTypes'
    <2>1. UNCHANGED <<finals, caption, roomLate, lines>>
      BY <1>7 DEF Room!pushPcm24, Room!chat
    <2>2. /\ roomSaid' = Append(roomSaid, w) /\ burst' = burst + 1 /\ Len(roomSaid) < MaxWords
          /\ (queue' = queue \/ (queue' = Append(queue, w) /\ Len(queue) < Backlog))
      BY <1>7 DEF Room!pushPcm24
    <2>3. roomSaid' \in Seq(Room!Vocabulary) /\ Len(roomSaid') = Len(roomSaid) + 1
      BY <1>1, <2>2, AppendProperties
    <2>4. queue' \in Seq(Room!Vocabulary) /\ Len(queue') <= Backlog
      <3>1. CASE queue' = queue
        BY <1>1, <3>1
      <3>2. CASE queue' = Append(queue, w) /\ Len(queue) < Backlog
        <4>1. queue' \in Seq(Room!Vocabulary) /\ Len(queue') = Len(queue) + 1 /\ Len(queue) \in Nat
          BY <1>1, <3>2, AppendProperties
        <4> QED BY <3>2, <4>1, BoundsAssumption
      <3> QED BY <2>2, <3>1, <3>2
    <2>5. Len(roomSaid) \in Nat /\ burst' \in Room!Silent..MaxWords /\ burst' <= Len(roomSaid')
      BY <1>1, <2>2, <2>3, BoundsAssumption DEF Room!Silent
    <2> QED BY <1>1, <1>2, <1>2a, <2>1, <2>3, <2>4, <2>5
  <1>8. ASSUME NEW n, NEW dress, Room!delta(n, dress) PROVE SpeechTypes'
    <2>1. UNCHANGED <<roomSaid, burst, queue, finals, roomLate, lines>> /\ caption' \in {"sending", caption}
      BY <1>8 DEF Room!delta
    <2>2. Chat'
      BY <1>1, <2>1 DEF Chat
    <2> QED BY <1>1, <1>2, <2>1, <2>2
  <1> QED BY <1>3, <1>4, <1>5, <1>6, <1>7, <1>8 DEF Room!SpeechNext

\* What is sent and what waits, one after another, make up what was said.
LEMMA SocketStep == SpeechTypes /\ SocketInv /\ Room!SpeechNext => SocketInv'
  <1> SUFFICES ASSUME SpeechTypes, SocketInv, Room!SpeechNext PROVE SocketInv'
    OBVIOUS
  <1> DEFINE V == Seq(Room!Vocabulary)
  <1>1. /\ api \in V /\ given \in V /\ roomSaid \in V /\ queue \in V
        /\ sock \in {"none", "connecting", "open", "dead"} /\ seen \in 0..Len(api) /\ committed \in 0..Len(api)
        /\ sock # "open" => api = <<>> /\ seen = 0 /\ committed = 0
        /\ sock = "open" => queue = <<>>
        /\ ~lost => (given \o api) \o queue = roomSaid
    BY DEF SocketInv, SpeechTypes, Room!HeardAsSaid
  <1>2. SocketInv' <=>
        /\ api' \in V /\ given' \in V
        /\ sock' \in {"none", "connecting", "open", "dead"} /\ seen' \in 0..Len(api') /\ committed' \in 0..Len(api')
        /\ sock' # "open" => api' = <<>> /\ seen' = 0 /\ committed' = 0
        /\ sock' = "open" => queue' = <<>>
        /\ ~lost' => (given' \o api') \o queue' = roomSaid'
    BY DEF SocketInv, Room!HeardAsSaid
  <1> HIDE DEF V
  <1>3. CASE Room!burstStarts
    <2>1. UNCHANGED <<roomSaid, queue, api, seen, committed, given, lost>>
      BY <1>3 DEF Room!burstStarts
    <2>2. sock' = sock \/ (sock = "none" /\ sock' = "connecting")
      BY Zenon, <1>3 DEF Room!burstStarts
    <2> QED BY <1>1, <1>2, <2>1, <2>2
  <1>4. CASE Room!burstEnds
    <2>1. UNCHANGED <<roomSaid, queue, api, seen, sock, given, lost>>
      BY <1>4 DEF Room!burstEnds
    <2>2. committed' = committed \/ (sock = "open" /\ committed' = Len(api))
      BY Zenon, <1>4 DEF Room!burstEnds
    <2>3. Len(api) \in Nat
      BY <1>1 DEF V
    <2> QED BY <1>1, <1>2, <2>1, <2>2, <2>3
  <1>5. CASE Room!onopen
    <2>1. /\ sock = "connecting" /\ sock' = "open" /\ api' = queue /\ queue' = <<>>
          /\ UNCHANGED <<roomSaid, seen, committed, given, lost>>
      BY <1>5 DEF Room!onopen, Room!Flushed
    <2>2. seen' = 0 /\ committed' = 0 /\ Len(api') \in Nat
      BY <1>1, <2>1 DEF V
    <2>3. (given \o <<>>) \o queue = (given \o queue) \o <<>>
      BY <1>1, ConcatEmptySeq, ConcatProperties DEF V
    <2> QED BY <1>1, <1>2, <2>1, <2>2, <2>3
  <1>6. CASE Room!socketFails
    <2>1. sock \in {"connecting", "open"} /\ sock' = "dead" /\ api' = <<>> /\ seen' = 0 /\ committed' = 0
          /\ lost' = (lost \/ api # <<>>) /\ UNCHANGED <<roomSaid, queue, given>>
      BY <1>6 DEF Room!socketFails
    <2>2. <<>> \in V /\ Len(<<>>) = 0
      BY DEF V
    <2>3. ~lost' => ~lost /\ api = <<>>
      BY Zenon, <2>1
    <2>4. ~lost' => (given' \o api') \o queue' = roomSaid'
      BY Zenon, <1>1, <2>1, <2>3
    <2>5. seen' \in 0..Len(api') /\ committed' \in 0..Len(api') /\ api' \in V
      BY <2>1, <2>2
    <2> QED BY <1>1, <1>2, <2>1, <2>4, <2>5
  <1>7. CASE Room!sessionIdles
    <2>1. sock' = "none" /\ api' = <<>> /\ queue' = <<>> /\ seen' = 0 /\ committed' = 0
          /\ lost' = (lost \/ api # <<>> \/ queue # <<>>) /\ UNCHANGED <<roomSaid, given>>
      BY <1>7 DEF Room!sessionIdles
    <2>2. <<>> \in V /\ Len(<<>>) = 0
      BY DEF V
    <2>3. ~lost' => ~lost /\ api = <<>> /\ queue = <<>>
      BY Zenon, <2>1
    <2>4. ~lost' => (given' \o api') \o queue' = roomSaid'
      BY Zenon, <1>1, <2>1, <2>3
    <2>5. seen' \in 0..Len(api') /\ committed' \in 0..Len(api') /\ api' \in V
      BY <2>1, <2>2
    <2> QED BY <1>1, <1>2, <2>1, <2>4, <2>5
  <1>8. CASE Room!completed
    <2> DEFINE utterance == SubSeq(api, 1, committed)
               rest == SubSeq(api, committed + 1, Len(api))
    <2>1. sock = "open" /\ given' = given \o utterance /\ api' = rest /\ seen' = 0 /\ committed' = 0
          /\ UNCHANGED <<roomSaid, sock, queue, lost>>
      BY <1>8 DEF Room!completed
    <2>2. utterance \in V /\ rest \in V /\ utterance \o rest = api
      <3>1. utterance \in V /\ Len(utterance) = committed /\ \A i \in 1..committed : utterance[i] = api[i]
        BY <1>1, SubSeqProperties DEF V
      <3>2. rest \in V /\ Len(rest) = Len(api) - committed /\ \A i \in 1..(Len(api) - committed) : rest[i] = api[committed + i]
        BY <1>1, SubSeqProperties DEF V
      <3>3. utterance \o rest = api
        <4>1. 1 \in 1..(Len(api) + 1) /\ committed \in (1 - 1)..Len(api) /\ Len(api) \in committed..Len(api)
          BY <1>1 DEF V
        <4>2. utterance \o rest = SubSeq(api, 1, Len(api))
          BY Zenon, <1>1, <4>1, ConcatAdjacentSubSeq DEF V
        <4> QED BY <1>1, <4>2, SubSeqFull DEF V
      <3> QED BY <3>1, <3>2, <3>3
    <2> HIDE DEF utterance, rest
    <2>3. (given \o utterance) \o rest = given \o api /\ given \o utterance \in V /\ Len(rest) \in Nat
      <3>1. (given \o utterance) \o rest = given \o (utterance \o rest)
        <4>1. given \in Seq(Room!Vocabulary) /\ utterance \in Seq(Room!Vocabulary) /\ rest \in Seq(Room!Vocabulary)
          BY <1>1, <2>2 DEF V
        <4>2. \A x, y, z \in Seq(Room!Vocabulary) : (x \o y) \o z = x \o (y \o z)
          BY ConcatAssociative
        <4> QED BY <4>1, <4>2
      <3> QED BY <1>1, <2>2, <3>1, ConcatProperties DEF V
    <2> QED BY <1>1, <1>2, <2>1, <2>2, <2>3
  <1>9. CASE Room!captionSent
    <2>1. UNCHANGED <<roomSaid, sock, queue, api, seen, committed, given, lost>>
      BY <1>9 DEF Room!captionSent
    <2> QED BY <1>1, <1>2, <2>1
  <1>10. ASSUME NEW w \in Room!Vocabulary, Room!pushPcm24(w) PROVE SocketInv'
    <2>1. roomSaid' = Append(roomSaid, w) /\ UNCHANGED <<sock, seen, committed, given>>
      BY <1>10 DEF Room!pushPcm24
    <2>2. ASSUME NEW s \in V, NEW t \in V
          PROVE  s \o Append(t, w) = Append(s \o t, w) /\ s \o t \in V
      BY ConcatProperties DEF V
    <2>3. CASE sock = "open"
      <3>1. api' = Append(api, w) /\ queue' = queue /\ lost' = lost
        BY <1>10, <2>3 DEF Room!pushPcm24
      <3>2. api' \in V /\ Len(api') = Len(api) + 1 /\ Len(api) \in Nat
        BY <1>1, <3>1, AppendProperties DEF V
      <3>3. \A s \in V : s \o <<>> = s
        BY ConcatEmptySeq DEF V
      <3>4. given \o api' \in V /\ given \o api \in V /\ given \o api' = Append(given \o api, w)
        BY <1>1, <2>2, <3>1, <3>2
      <3>5. ~lost' => (given \o api') \o queue' = roomSaid'
        BY <1>1, <2>1, <2>3, <3>1, <3>3, <3>4
      <3> QED BY <1>1, <1>2, <2>1, <2>3, <3>1, <3>2, <3>5
    <2>4. CASE sock # "open"
      <3>1. UNCHANGED api /\ (lost' \/ (lost' = lost /\ queue' = Append(queue, w)))
        BY <1>10, <2>4 DEF Room!pushPcm24
      <3>2. given \o api \in V
        BY <1>1, <2>2
      <3>3. ~lost' => (given' \o api') \o queue' = roomSaid'
        BY <1>1, <2>1, <2>2, <3>1, <3>2
      <3> QED BY <1>1, <1>2, <2>1, <2>4, <3>1, <3>3
    <2> QED BY <2>3, <2>4
  <1>11. ASSUME NEW n, NEW dress, Room!delta(n, dress) PROVE SocketInv'
    <2>1. UNCHANGED <<roomSaid, sock, queue, api, committed, given, lost>> /\ sock = "open" /\ seen' = n
          /\ n \in (seen + 1)..(IF committed > 0 THEN committed ELSE Len(api))
      BY <1>11 DEF Room!delta
    <2>2. n \in 0..Len(api)
      <3>1. Len(api) \in Nat
        BY <1>1 DEF V
      <3> QED BY <1>1, <2>1, <3>1
    <2> QED BY <1>1, <1>2, <2>1, <2>2
  <1> QED BY <1>3, <1>4, <1>5, <1>6, <1>7, <1>8, <1>9, <1>10, <1>11 DEF Room!SpeechNext

\* What the caption says after the speaker's stream reported n words.
LEMMA DeltaSays ==
  ASSUME SocketInv, CaptionSays, NEW n, NEW k \in 1..Window, NEW dress \in [1..k -> {0, 1}], Room!delta(n, dress)
  PROVE  CaptionSays'
  <1> DEFINE window == [i \in 1..k |-> <<api[n - k + i], dress[i]>>]
             s == SubSeq(api, 1, n)
  <1>1. /\ api \in Seq(Room!Vocabulary) /\ transcript \in Seq(Room!Dressed)
        /\ seen \in 0..Len(api) /\ committed \in 0..Len(api) /\ Len(api) \in Nat
    BY DEF SocketInv, CaptionSays
  <1>2. Len(dress) = k /\ k \in Nat /\ k >= 1
    <2>1. dress \in Seq({0, 1})
      BY BoundsAssumption
    <2> QED BY BoundsAssumption, <2>1
  <1>3. /\ sock = "open" /\ UNCHANGED <<sock, api>> /\ seen' = n /\ n - k + 1 >= from /\ from' = n - k + 1
        /\ n \in (seen + 1)..(IF committed > 0 THEN committed ELSE Len(api)) /\ k <= n /\ n - k <= seen
        /\ transcript' = Room!mergeWindow(transcript, window)
    BY <1>2 DEF Room!delta
  <1>4. n \in 1..Len(api) /\ seen < n
    BY <1>1, <1>3
  <1>5. window \in Seq(Room!Dressed) /\ Len(window) = k /\ window # <<>> /\ \A i \in 1..k : window[i][1] = api[n - k + i]
    <2>1. ASSUME NEW i \in 1..k PROVE <<api[n - k + i], dress[i]>> \in Room!Dressed
      <3>1. n - k + i \in 1..Len(api) /\ dress[i] \in {0, 1}
        BY <1>1, <1>2, <1>3, <1>4
      <3> QED BY <1>1, <3>1 DEF Room!Dressed
    <2>2. window \in Seq(Room!Dressed) /\ Len(window) = k
      BY <1>2, <2>1
    <2>3. \A i \in 1..k : window[i][1] = api[n - k + i]
      OBVIOUS
    <2> HIDE DEF window
    <2>4. window # <<>>
      BY <1>2, <2>2
    <2> QED BY <2>2, <2>3, <2>4
  <1>6. s \in Seq(Room!Vocabulary) /\ Len(s) = n /\ \A i \in 1..n : s[i] = api[i]
    BY <1>1, <1>4, SubSeqProperties
  <1> HIDE DEF window, s
  <1>7. transcript' \in Seq(Room!Dressed) /\ transcript' # <<>> /\ transcript'[Len(transcript')][1] = api'[seen']
    <2>1. window[k][1] = api[n]
      <3>1. k \in 1..k /\ n - k + k = n
        BY <1>2, <1>4
      <3> QED BY <1>5, <3>1
    <2> QED BY <1>1, <1>3, <1>5, <2>1, MergedEnds
  <1>8. ASSUME Room!NoneTwice(s) PROVE Room!Spoken(transcript') = s
    <2>1. \A i, j \in 1..n : s[i] = s[j] => i = j
      <3>1. DOMAIN s = 1..n
        BY <1>6
      <3> QED BY <1>8, <3>1 DEF Room!NoneTwice
    <2>2. Len(transcript) = seen /\ \A i \in 1..seen : transcript[i][1] = s[i]
      <3> DEFINE t == SubSeq(api, 1, seen)
      <3>1. t \in Seq(Room!Vocabulary) /\ Len(t) = seen /\ \A i \in 1..seen : t[i] = api[i]
        BY <1>1, SubSeqProperties
      <3>2. (sock = "open" /\ Room!NoneTwice(t)) => Room!Spoken(transcript) = t
        BY DEF CaptionSays, Room!CaptionFollows
      <3> HIDE DEF t
      <3>3. Room!NoneTwice(t)
        <4>1. DOMAIN t = 1..seen /\ \A i \in 1..seen : i \in 1..n /\ t[i] = s[i]
          BY <1>1, <1>4, <1>6, <3>1
        <4> QED BY <2>1, <4>1 DEF Room!NoneTwice
      <3>4. Room!Spoken(transcript) = t
        BY <1>3, <3>2, <3>3
      <3>5. Len(transcript) \in Nat /\ DOMAIN transcript = 1..Len(transcript) /\ DOMAIN t = 1..seen
        BY <1>1, <3>1
      <3>6. DOMAIN t = DOMAIN transcript /\ \A i \in DOMAIN transcript : t[i] = transcript[i][1]
        BY <3>4 DEF Room!Spoken
      <3>7. Len(transcript) = seen
        <4>1. seen \in Nat /\ \A i \in Nat : i \in 1..seen <=> i \in 1..Len(transcript)
          BY <1>1, <3>5, <3>6
        <4> DEFINE l == Len(transcript)
        <4> HIDE DEF l
        <4>2. l \in Nat /\ seen \in Nat /\ \A i \in Nat : i \in 1..seen <=> i \in 1..l
          BY <3>5, <4>1 DEF l
        <4>3. (seen > 0 => seen \in 1..l) /\ (l > 0 => l \in 1..seen)
          BY <4>2
        <4>4. seen = l
          BY <4>2, <4>3
        <4> QED BY <4>4 DEF l
      <3>8. ASSUME NEW i \in 1..seen PROVE transcript[i][1] = s[i]
        <4>1. i \in DOMAIN transcript /\ i \in 1..n
          BY <1>1, <1>4, <3>5, <3>7
        <4> QED BY <1>6, <3>1, <3>6, <4>1
      <3> QED BY <3>7, <3>8
    <2>3. Len(transcript') = n /\ \A i \in 1..n : transcript'[i][1] = s[i]
      <3>1. n \in 1..Len(s) /\ k \in 1..n /\ Len(transcript) < n /\ n - k <= Len(transcript)
        BY <1>2, <1>3, <1>4, <1>6, <2>2
      <3>2. \A i \in 1..k : window[i][1] = s[n - k + i]
        <4> SUFFICES ASSUME NEW i \in 1..k PROVE window[i][1] = s[n - k + i]
          OBVIOUS
        <4>1. n - k + i \in 1..n
          BY <1>2, <1>3, <1>4
        <4> QED BY <1>5, <1>6, <4>1
      <3>3. \A i \in 1..Len(transcript) : transcript[i][1] = s[i]
        BY <2>2
      <3>4. /\ s \in Seq(Room!Vocabulary) /\ transcript \in Seq(Room!Dressed)
            /\ window \in Seq(Room!Dressed) /\ Len(window) = k
        BY <1>1, <1>5, <1>6
      <3>5. /\ Len(Room!mergeWindow(transcript, window)) = n
            /\ \A i \in 1..n : Room!mergeWindow(transcript, window)[i][1] = s[i]
        BY ZenonT(30), <2>1, <3>1, <3>2, <3>3, <3>4, MergedExact
      <3> QED BY <1>3, <3>5
    <2>4. DOMAIN transcript' = 1..n /\ DOMAIN s = 1..n
      BY <1>6, <1>7, <2>3
    <2>5. Room!Spoken(transcript') = [i \in 1..n |-> s[i]]
      BY <2>3, <2>4 DEF Room!Spoken
    <2> QED BY <1>6, <2>4, <2>5
  <1>9. EndsWithReport' /\ Room!Selects(Room!Spoken(transcript'), s)
    <2> DEFINE t == SubSeq(api, 1, seen)
               full == transcript
               new == Room!mergeWindow(full, window)
    <2>1. t \in Seq(Room!Vocabulary) /\ Len(t) = seen /\ \A i \in 1..seen : t[i] = api[i]
      BY <1>1, SubSeqProperties
    <2>2. Room!Selects(Room!Spoken(transcript), t) /\ EndsWithReport /\ from \in 1..(seen + 1)
      BY <1>3 DEF CaptionSays, Room!CaptionFollows
    <2> HIDE DEF t
    <2>3. Among(full, t, seen)
      BY Zenon, <1>1, <2>1, <2>2, SelectsAs
    <2>4. seen \in 0..(n - 1) /\ n \in 1..Len(s) /\ k \in 1..n /\ n - k <= seen /\ from \in 1..(n - k + 1)
      BY <1>1, <1>2, <1>3, <1>4, <1>6, <2>2
    <2>5. EndsAs(window, k, s, n - k)
      <3>1. ASSUME NEW i \in 1..k PROVE window[Len(window) - k + i][1] = s[n - k + i]
        <4>1. n - k + i \in 1..n /\ Len(window) - k + i = i
          BY <1>2, <1>5, <2>4
        <4> QED BY <1>5, <1>6, <4>1
      <3>2. k <= Len(window)
        BY <1>2, <1>5
      <3> QED BY <3>1, <3>2 DEF EndsAs
    <2>6. EndsAs(full, seen - from + 1, s, from - 1)
      <3>1. EndsAs(full, seen - from + 1, api, from - 1)
        BY Zenon, <2>2 DEF EndsWithReport
      <3>2. \A i \in 1..(seen - from + 1) : from - 1 + i \in 1..n
        BY <2>4
      <3> HIDE DEF full
      <3> QED BY <1>6, <3>1, <3>2 DEF EndsAs
    <2>7. Among(full, s, seen)
      <3> HIDE DEF full
      <3>1. PICK at \in [1..Len(full) -> 1..seen] : FoundAt(at, full, t)
        BY Zenon, <2>3 DEF Among
      <3>2. \A i \in 1..Len(full) : at[i] \in 1..seen
        OBVIOUS
      <3>3. \A i \in 1..seen : t[i] = s[i]
        <4>1. \A i \in 1..seen : i \in 1..n
          BY <2>4
        <4> QED BY Zenon, <1>6, <2>1, <4>1
      <3>4. FoundAt(at, full, s)
        BY <3>1, <3>2, <3>3 DEF FoundAt
      <3> QED BY Zenon, <3>4 DEF Among
    <2>8. full \in Seq(Room!Dressed) /\ window \in Seq(Room!Dressed) /\ Len(window) = k /\ s \in Seq(Room!Vocabulary)
      BY <1>1, <1>5, <1>6
    <2> HIDE DEF full
    <2>9. EndsAs(new, k, s, n - k) /\ Among(new, s, n)
      <3>1. n \in 1..Len(s)
        BY <2>4, <2>8
      <3> QED BY Zenon, <2>4, <2>5, <2>6, <2>7, <2>8, <3>1, MergedSelects
    <2>10. transcript' = new
      BY <1>3 DEF full
    <2> HIDE DEF new
    <2>11. EndsWithReport'
      <3>1. seen' - from' + 1 = k /\ from' - 1 = n - k
        BY <1>2, <1>3, <1>4
      <3>2. \A i \in 1..k : n - k + i \in 1..n
        BY <2>4
      <3>3. EndsAs(transcript', k, s, n - k)
        BY Zenon, <2>9, <2>10
      <3>4. EndsAs(transcript', k, api, n - k)
        BY <1>6, <3>2, <3>3 DEF EndsAs
      <3> QED BY Zenon, <1>3, <3>1, <3>4 DEF EndsWithReport
    <2>12. Room!Selects(Room!Spoken(transcript'), s)
      BY Zenon, <1>6, <1>7, <2>9, <2>10, SelectsAs
    <2> QED BY <2>11, <2>12
  <1>10. Room!CaptionFollows'
    <2>1. (sock' = "open" /\ Room!NoneTwice(SubSeq(api', 1, seen'))) => Room!Spoken(transcript') = SubSeq(api', 1, seen')
      BY <1>3, <1>8 DEF s
    <2>2. Room!Selects(Room!Spoken(transcript'), SubSeq(api', 1, seen'))
      BY <1>3, <1>9 DEF s
    <2> QED BY <1>7, <2>1, <2>2 DEF Room!CaptionFollows
  <1>11. from' \in 1..(seen' + 1)
    BY <1>1, <1>2, <1>3, <1>4
  <1> QED BY <1>3, <1>4, <1>7, <1>9, <1>10, <1>11 DEF CaptionSays

\* The caption goes on saying what was reported.
LEMMA CaptionSaysStep == SpeechTypes /\ SocketInv /\ CaptionSays /\ Room!SpeechNext => CaptionSays'
  <1> SUFFICES ASSUME SpeechTypes, SocketInv, CaptionSays, Room!SpeechNext PROVE CaptionSays'
    OBVIOUS
  <1>1. <<>> \in Seq(Room!Dressed)
    OBVIOUS
  <1>2. CASE Room!burstStarts
    <2>1. UNCHANGED <<api, seen, from, transcript>>
      BY <1>2 DEF Room!burstStarts
    <2>2. sock' = sock \/ (sock = "none" /\ sock' = "connecting")
      BY Zenon, <1>2 DEF Room!burstStarts
    <2> QED BY <2>1, <2>2 DEF CaptionSays, EndsWithReport, Room!CaptionFollows
  <1>3. CASE Room!burstEnds \/ Room!captionSent
    <2>1. UNCHANGED <<sock, api, seen, from, transcript>>
      BY <1>3 DEF Room!burstEnds, Room!captionSent
    <2> QED BY <2>1 DEF CaptionSays, EndsWithReport, Room!CaptionFollows
  <1>4. ASSUME transcript' = <<>>, seen' = 0, from' = 1 PROVE CaptionSays'
    <2>1. Room!Spoken(<<>>) = <<>>
      BY DEF Room!Spoken
    <2>2. SubSeq(api', 1, 0) = <<>>
      OBVIOUS
    <2>3. Room!Selects(<<>>, <<>>)
      <3>1. [i \in {} |-> i] \in [DOMAIN <<>> -> DOMAIN <<>>] /\ DOMAIN <<>> = {}
        OBVIOUS
      <3> QED BY Zenon, <3>1 DEF Room!Selects
    <2>4. EndsWithReport'
      BY <1>4 DEF EndsWithReport, EndsAs
    <2>5. Room!CaptionFollows'
      BY <1>4, <2>1, <2>2, <2>3 DEF Room!CaptionFollows
    <2> QED BY <1>1, <1>4, <2>4, <2>5 DEF CaptionSays
  <1>5. CASE Room!onopen
    <2>1. sock = "connecting" /\ UNCHANGED <<seen, from, transcript>>
      BY <1>5 DEF Room!onopen
    <2>2. seen = 0 /\ transcript = <<>> /\ from \in 1..(seen + 1)
      BY <2>1 DEF CaptionSays, SocketInv
    <2>3. from = 1
      BY <2>2
    <2> QED BY <1>4, <2>1, <2>2, <2>3
  <1>6. CASE Room!socketFails
    <2>1. sock' = "dead" /\ UNCHANGED transcript /\ seen' = 0 /\ from' = 1
      BY <1>6 DEF Room!socketFails
    <2> QED BY <2>1 DEF CaptionSays, Room!CaptionFollows
  <1>7. CASE Room!sessionIdles \/ Room!completed
    BY <1>4, <1>7 DEF Room!sessionIdles, Room!completed
  <1>8. ASSUME NEW w \in Room!Vocabulary, Room!pushPcm24(w) PROVE CaptionSays'
    <2>1. UNCHANGED <<sock, seen, from, transcript>> /\ (api' = api \/ api' = Append(api, w))
      BY <1>8 DEF Room!pushPcm24
    <2>2. api \in Seq(Room!Vocabulary) /\ seen \in 0..Len(api) /\ Len(api) \in Nat
      BY DEF SocketInv
    <2>3. SubSeq(api', 1, seen) = SubSeq(api, 1, seen)
      BY <2>1, <2>2
    <2>4. seen > 0 => api'[seen] = api[seen]
      <3>1. CASE api' = Append(api, w)
        BY <2>2, <3>1, AppendProperties
      <3> QED BY <2>1, <3>1
    <2>5. (sock = "open" /\ transcript # <<>>) => seen > 0
      BY <2>2 DEF CaptionSays
    <2>6. sock' = "open" => EndsWithReport'
      <3>1. from \in 1..(seen + 1) /\ (sock = "open" => EndsWithReport)
        BY DEF CaptionSays
      <3>2. \A i \in 1..(seen - from + 1) : from - 1 + i \in 1..Len(api)
        BY <2>2, <3>1
      <3>3. \A i \in 1..Len(api) : api'[i] = api[i]
        BY <2>1, <2>2, AppendProperties
      <3> QED BY <2>1, <3>1, <3>2, <3>3 DEF EndsWithReport, EndsAs
    <2>7. Room!CaptionFollows'
      BY <2>1, <2>3, <2>4, <2>5 DEF CaptionSays, Room!CaptionFollows
    <2> QED BY <2>1, <2>6, <2>7 DEF CaptionSays
  <1>9. ASSUME NEW n \in 1..MaxWords, NEW k \in 1..Window, NEW dress \in [1..k -> {0, 1}], Room!delta(n, dress)
        PROVE  CaptionSays'
    BY <1>9, DeltaSays
  <1> QED BY <1>2, <1>3, <1>5, <1>6, <1>7, <1>8, <1>9 DEF Room!SpeechNext

---------------------------------------------------------------------------
RoomInv == roomScene \in {"channel", "speech"} /\ ChannelTypes /\ SpeechTypes /\ SocketInv /\ CaptionSays

\* It holds at the start.
LEMMA RoomInit == Room!Init => RoomInv
  BY ChannelInit, SpeechInit DEF Room!Init, RoomInv

\* A step keeps it.
LEMMA RoomStep == RoomInv /\ [Room!Next]_roomVars => RoomInv'
  <1> SUFFICES ASSUME RoomInv, [Room!Next]_roomVars PROVE RoomInv'
    OBVIOUS
  <1>1. roomScene \in {"channel", "speech"} /\ ChannelTypes /\ SpeechTypes /\ SocketInv /\ CaptionSays
    BY DEF RoomInv
  <1>2. UNCHANGED roomScene
    BY DEF Room!Next, roomVars
  <1>3. ASSUME UNCHANGED Room!speechVars PROVE SpeechTypes' /\ SocketInv' /\ CaptionSays'
    <2>1. SpeechTypes' /\ SocketInv'
      BY Zenon, <1>1, <1>3 DEF Room!speechVars, Room!chat, SpeechTypes, SocketInv, Room!HeardAsSaid
    <2>2. UNCHANGED <<sock, api, seen, from, transcript>>
      BY <1>3 DEF Room!speechVars
    <2>3. CaptionSays'
      BY <1>1, <2>2 DEF CaptionSays, EndsWithReport, Room!CaptionFollows
    <2> QED BY <2>1, <2>3
  <1>4. ASSUME UNCHANGED Room!channelVars PROVE ChannelTypes'
    <2>1. UNCHANGED <<joined, roomMuted, busy, roomGen, session, reply, mouth, player, roomCur, open, roomHeard, roomClosing>>
          /\ drone' = drone
      BY <1>4 DEF Room!channelVars
    <2> QED BY Zenon, <1>1, <2>1 DEF ChannelTypes
  <1>5. UNCHANGED roomVars => UNCHANGED Room!channelVars /\ UNCHANGED Room!speechVars
    BY DEF roomVars, Room!channelVars, Room!speechVars
  <1> QED
    BY <1>1, <1>2, <1>3, <1>4, <1>5, ChannelStep, SpeechTypesStep, SocketStep, CaptionSaysStep DEF RoomInv, Room!Next

\* Surer, or more sensitive: the gate still opens.
LEMMA Monotone == Room!GateIsMonotone
  <1> SUFFICES ASSUME NEW t, NEW c \in Confidences, NEW d \in Confidences, NEW s \in Sensitivities, NEW r \in Sensitivities,
                      c <= d, s <= r, Room!evaluate(t, c, s)
               PROVE  Room!evaluate(t, d, r)
    BY Zenon DEF Room!GateIsMonotone
  <1>1. c \in 0..1000 /\ d \in 0..1000 /\ s \in 0..100 /\ r \in 0..100
    BY Ranges
  <1>2. c # Room!Unknown /\ d # Room!Unknown
    BY <1>1 DEF Room!Unknown
  <1>3. Room!addresses(t) /\ (Room!risky(t) => c >= Room!Threshold(s))
    BY Zenon, <1>2 DEF Room!evaluate
  <1>4. Room!Threshold(r) <= Room!Threshold(s) /\ Room!Threshold(s) \in Int /\ Room!Threshold(r) \in Int
    BY <1>1 DEF Room!Threshold
  <1>5. c >= Room!Threshold(s) => d >= Room!Threshold(r)
    BY <1>1, <1>4
  <1> QED BY Zenon, <1>2, <1>3, <1>5 DEF Room!evaluate

\* A caption ends with what was reported last, doubles nothing and keeps the order of the words, and misses
\* nothing of a speech without repetitions; what is heard is what was said, and a surer hearing silences
\* nobody: for any words, windows and backlog.
THEOREM HeardAndShown ==
  Spec => [](Room!TypeOK /\ Room!CaptionFollows /\ Room!HeardAsSaid /\ Room!GateIsMonotone)
  <1>1. RoomInv => Room!TypeOK
    <2> SUFFICES ASSUME RoomInv PROVE Room!TypeOK
      OBVIOUS
    <2>1. Room!Cardinality(player) <= 1
      <3>1. player = {} \/ \E r \in Utterances : player = {r}
        BY DEF RoomInv, ChannelTypes
      <3>2. Cardinality({}) = 0 /\ \A r \in Utterances : Cardinality({r}) = 1
        BY FS_EmptySet, FS_Singleton
      <3>3. Cardinality(player) <= 1
        BY <3>1, <3>2
      <3> QED BY Zenon, <3>3 DEF Room!Cardinality, Cardinality
    <2>2. Room!ChannelTypeOK
      BY Zenon, <2>1 DEF RoomInv, ChannelTypes, Replying, Room!ChannelTypeOK
    <2>3. Room!SpeechTypeOK
      BY Zenon DEF RoomInv, SpeechTypes, SocketInv, CaptionSays, Room!SpeechTypeOK
    <2> QED BY <2>2, <2>3 DEF RoomInv, Room!TypeOK
  <1>2. RoomInv => Room!CaptionFollows /\ Room!HeardAsSaid
    BY DEF RoomInv, CaptionSays, SocketInv
  <1> QED BY <1>1, <1>2, Monotone, RoomInit, RoomStep, EachOnItsOwn, PTL

\* No sentence begins of a reply that was stopped.
THEOREM StoppedStaysQuiet == Spec => Room!StoppedNeverSpeaks
  <1> DEFINE Quiet == \A r \in Utterances : (r \in mouth' /\ r \notin mouth) => reply[r].gen = roomGen
  <1>1. RoomInv /\ [Room!Next]_roomVars => [Quiet]_(Room!vars)
    <2> SUFFICES ASSUME RoomInv, [Room!Next]_roomVars PROVE Quiet
      OBVIOUS
    <2>1. \/ mouth' \subseteq mouth
          \/ \E r \in Utterances : mouth' = mouth \cup {r} /\ Room!Live(r)
      <3>1. CASE Room!ChannelNext
        <4>1. ChannelTypes
          BY DEF RoomInv
        <4>2. ASSUME NEW r \in Utterances, Room!speak(r)
              PROVE  mouth' \subseteq mouth \/ (mouth' = mouth \cup {r} /\ Room!Live(r))
          BY <4>2 DEF Room!speak
        <4>3. Room!Stopped => mouth' \subseteq mouth
          BY <4>1, Silenced
        <4> QED
          BY <3>1, <4>2, <4>3 DEF Room!ChannelNext, Room!stopVoiceReply, Room!onBargeIn, Room!mute, Room!unmute, Room!join,
             Room!leave, Room!None, Room!speakingStarts, Room!decoderEnds, Room!idleTimer, Room!handleVoiceUtterance,
             Room!Chimed, Room!speakSentence, Room!SpokenOut, Room!StreamEnds, Room!Finally
      <3> QED BY <3>1 DEF Room!Next, roomVars, Room!channelVars
    <2> QED BY <2>1 DEF Room!Live
  <1> QED BY <1>1, RoomInit, RoomStep, EachOnItsOwn, PTL DEF Room!StoppedNeverSpeaks

---------------------------------------------------------------------------
(* The phone's hands-free loop.                                             *)

Tries == [rec : Talk!Recs, gen : Nat, at : {"mint", "sdp"}]
MicTypes ==
  /\ talkOpened \in 0..MaxRecs /\ opening \subseteq Talk!Recs /\ mics \subseteq Talk!Recs
  /\ talkCur \in 0..MaxRecs /\ stops \in Seq(Talk!Recs) /\ cancelled \in BOOLEAN
  /\ talkDropped \subseteq Talk!Recs /\ talkAsking \subseteq Talk!Recs /\ killed \subseteq Talk!Recs

\* One attempt at most is the current one, it has a microphone, and while it asks for its token there
\* is no peer; the open peer is the one in the global, and has a microphone.
CaptionInv ==
  /\ talkGen \in Nat /\ tries \subseteq Tries /\ rtpc \in 0..MaxRecs /\ peers \subseteq Talk!Recs
  /\ \A x \in tries : x.gen <= talkGen
  /\ \A x \in tries : x.gen = talkGen => mics # {} /\ (x.at = "mint" => rtpc = 0)
  /\ \A x, y \in tries : x.gen = talkGen /\ y.gen = talkGen => x = y
  /\ peers \subseteq {rtpc} /\ (peers # {} => mics # {})

ButtonTypes ==
  /\ talkSt \in {"idle", "rec", "busy"} /\ talkTurns \in 0..MaxTurns /\ sent \subseteq Talk!Recs
  /\ talkSrv \in Seq(1..MaxTurns) /\ left \in 0..2
  /\ talkMuted \in BOOLEAN /\ suppress \in BOOLEAN /\ talkActs \in 0..MaxPresses

\* A sentence or a clip is never at the last place of the queue.
Readouts == [seq : Talk!Slots, next : Talk!Slots, playing : BOOLEAN, done : BOOLEAN,
             clips : [Talk!Slots -> (-1)..MaxClips]]
Kept(t) == t \in Readouts /\ \A n \in Talk!Slots : t.clips[n] # 0 => n < MaxClips
ReadoutInv ==
  /\ Kept(tts) /\ tts.seq <= talkMade
  /\ talkMade \in 0..MaxClips /\ of \in [1..MaxClips -> 0..MaxTurns]
  /\ synths \subseteq [at : Talk!Slots, id : 1..MaxClips] /\ (\A x \in synths : x.at < MaxClips)
  /\ sounding \subseteq 1..MaxClips /\ curAudio \in 0..MaxClips

TalkInv == MicTypes /\ CaptionInv /\ ButtonTypes /\ ReadoutInv

\* A readout that begins is a good one.
LEMMA FreshKept == Kept(Talk!Fresh) /\ Talk!Fresh.seq = 0
  BY BoundsAssumption DEF Kept, Readouts, Talk!Fresh, Talk!Slots, Talk!Absent

\* It holds at the start.
LEMMA TalkInit == Talk!Init => TalkInv
  <1> SUFFICES ASSUME Talk!Init PROVE TalkInv
    OBVIOUS
  <1>1. MicTypes
    <2>1. stops \in Seq(Talk!Recs) /\ cancelled \in BOOLEAN
      BY Zenon, EmptySeq DEF Talk!Init
    <2> QED BY <2>1, BoundsAssumption DEF Talk!Init, MicTypes, Talk!Recs
  <1>2. CaptionInv
    BY BoundsAssumption DEF Talk!Init, CaptionInv, Talk!Recs
  <1>3. ButtonTypes
    <2>1. talkSrv \in Seq(1..MaxTurns) /\ talkMuted \in BOOLEAN /\ suppress \in BOOLEAN
      BY Zenon, EmptySeq DEF Talk!Init
    <2> QED BY <2>1, BoundsAssumption DEF Talk!Init, ButtonTypes, Talk!Recs
  <1>4. ReadoutInv
    BY BoundsAssumption, FreshKept DEF Talk!Init, ReadoutInv
  <1> QED BY <1>1, <1>2, <1>3, <1>4 DEF TalkInv

\* A step keeps it.
LEMMA MicStep == MicTypes /\ [Talk!Next]_talkVars => MicTypes'
  <1> SUFFICES ASSUME MicTypes, [Talk!Next]_talkVars PROVE MicTypes'
    OBVIOUS
  <1> USE BoundsAssumption DEF MicTypes, Talk!Recs
  <1>1. CASE Talk!startRec
    BY <1>1 DEF Talk!startRec
  <1>2. CASE Talk!startVAD \/ \E d \in BOOLEAN : Talk!pressRec(d)
    <2>1. Talk!stopRec => stops' \in Seq(Talk!Recs)
      <3>1. talkCur \in Talk!Recs => Append(stops, talkCur) \in Seq(Talk!Recs)
        BY AppendProperties
      <3> QED BY <3>1 DEF Talk!stopRec, Talk!Recording
    <2> QED BY <1>2, <2>1 DEF Talk!startVAD, Talk!pressRec
  <1>3. CASE Talk!onRecStop
    <2>1. Head(stops) \in 1..MaxRecs /\ Tail(stops) \in Seq(1..MaxRecs)
      BY <1>3 DEF Talk!onRecStop
    <2>2. stops' \in Seq(1..MaxRecs)
      <3> DEFINE more == IF talkCur # Head(stops) /\ talkCur \in mics
                            /\ ~\E i \in DOMAIN stops : stops[i] = talkCur THEN <<talkCur>> ELSE <<>>
      <3>1. more \in Seq(1..MaxRecs)
        <4>1. <<>> \in Seq(1..MaxRecs) /\ (talkCur \in mics => <<talkCur>> \in Seq(1..MaxRecs))
          BY EmptySeq
        <4> QED BY <4>1
      <3>2. stops' = Tail(stops) \o more
        BY <1>3 DEF Talk!onRecStop
      <3> HIDE DEF more
      <3> QED BY <2>1, <3>1, <3>2, ConcatProperties
    <2>3. /\ mics' \subseteq mics /\ cancelled' = FALSE
          /\ UNCHANGED <<talkOpened, opening, talkCur, talkDropped, killed>>
          /\ talkAsking' \subseteq talkAsking \cup {Head(stops)}
      BY <1>3 DEF Talk!onRecStop
    <2> QED BY <2>1, <2>2, <2>3
  <1>4. ASSUME NEW r \in Talk!Recs, Talk!micOpens(r) \/ Talk!micRefused(r) \/ Talk!transcribed(r) PROVE MicTypes'
    <2>1. /\ opening' \subseteq opening /\ mics' \subseteq mics \cup {r} /\ talkCur' \in {talkCur, r}
          /\ talkAsking' \subseteq talkAsking /\ UNCHANGED <<talkOpened, stops, cancelled, talkDropped, killed>>
      BY <1>4 DEF Talk!micOpens, Talk!micRefused, Talk!transcribed, Talk!mic
    <2> QED BY <2>1
  <1>5. CASE \/ Talk!sendTurn \/ Talk!delta \/ Talk!done \/ Talk!error \/ Talk!speak \/ Talk!stopEverything
             \/ Talk!setMuted \/ (\E x \in tries : Talk!minted(x) \/ Talk!connected(x) \/ Talk!failed(x))
             \/ (\E x \in synths : Talk!synthSentence(x)) \/ (\E c \in 1..MaxClips : Talk!ended(c))
    <2>1. /\ UNCHANGED <<talkOpened, opening, mics, talkCur, stops, cancelled, talkDropped, talkAsking>>
          /\ killed' \subseteq killed \cup talkAsking
      BY <1>5 DEF Talk!sendTurn, Talk!delta, Talk!done, Talk!error, Talk!speak, Talk!stopEverything,
         Talk!setMuted, Talk!minted, Talk!connected, Talk!failed, Talk!synthSentence, Talk!ended, Talk!mic
    <2> QED BY <2>1
  <1>6. CASE UNCHANGED talkVars
    BY <1>6 DEF talkVars
  <1> QED BY <1>1, <1>2, <1>3, <1>4, <1>5, <1>6 DEF Talk!Next

\* Whatever stops the live transcription leaves no peer open and no attempt current.
LEMMA RealtimeStopped ==
  ASSUME CaptionInv, talkGen' \in Nat, talkGen' > talkGen, tries' \subseteq tries, rtpc' = 0, peers' = {}
  PROVE  CaptionInv'
  <1>1. \A x \in tries' : x \in Tries /\ x.gen <= talkGen' /\ x.gen # talkGen'
    BY DEF CaptionInv, Tries
  <1> QED BY <1>1, BoundsAssumption DEF CaptionInv

\* A step keeps it.
LEMMA CaptionStep == MicTypes /\ CaptionInv /\ [Talk!Next]_talkVars => CaptionInv'
  <1> SUFFICES ASSUME MicTypes, CaptionInv, [Talk!Next]_talkVars PROVE CaptionInv'
    OBVIOUS
  <1>1. peers \ {rtpc} = {}
    BY DEF CaptionInv
  <1>2. Talk!Stopped \in Nat /\ Talk!Stopped = talkGen + 1 /\ talkGen \in Nat
    BY DEF CaptionInv, Talk!Stopped
  <1>3. ASSUME Talk!stopRealtimeSTT, tries' \subseteq tries PROVE CaptionInv'
    BY <1>1, <1>2, <1>3, RealtimeStopped DEF Talk!stopRealtimeSTT
  <1>4. CASE Talk!onRecStop \/ Talk!stopEverything
    BY <1>3, <1>4 DEF Talk!onRecStop, Talk!stopEverything
  <1>5. ASSUME NEW r \in Talk!Recs, Talk!micOpens(r) PROVE CaptionInv'
    <2> DEFINE new == [rec |-> r, gen |-> Talk!Stopped + 1, at |-> "mint"]
    <2>1. talkGen' = talkGen + 2 /\ rtpc' = 0 /\ peers' = {} /\ mics' = mics \cup {r}
      BY <1>1, <1>2, <1>5 DEF Talk!micOpens, Talk!startRealtimeSTT
    <2>2. tries' = tries \cup {new}
      BY <1>5 DEF Talk!micOpens, Talk!startRealtimeSTT
    <2>3. new \in Tries /\ new.gen = talkGen + 2 /\ new.at = "mint"
      BY <1>2 DEF Tries
    <2> HIDE DEF new
    <2>4. \A x \in tries : x \in Tries /\ x.gen <= talkGen' /\ x.gen # talkGen'
      BY <1>2, <2>1 DEF CaptionInv, Tries
    <2> QED BY <1>2, <2>1, <2>2, <2>3, <2>4, BoundsAssumption DEF CaptionInv
  <1>6. ASSUME NEW x \in tries, Talk!minted(x) PROVE CaptionInv'
    <2>1. UNCHANGED <<mics, talkGen>> /\ x.at = "mint"
      BY <1>6 DEF Talk!minted, Talk!mic
    <2>2. CASE Talk!Superseded(x)
      <3>1. tries' \subseteq tries /\ UNCHANGED <<rtpc, peers>>
        BY <1>6, <2>2 DEF Talk!minted
      <3> QED BY <2>1, <3>1 DEF CaptionInv
    <2>3. CASE ~Talk!Superseded(x)
      <3> DEFINE y == [x EXCEPT !.at = "sdp"]
      <3>1. tries' = (tries \ {x}) \cup {y} /\ rtpc' = x.rec /\ peers' = peers \cup {x.rec}
        BY <1>6, <2>3 DEF Talk!minted
      <3>2. x \in Tries /\ x.gen = talkGen /\ mics # {} /\ rtpc = 0
        BY <2>1, <2>3 DEF Talk!Superseded, CaptionInv
      <3>3. y \in Tries /\ y.gen = talkGen /\ y.at = "sdp" /\ x.rec \in Talk!Recs
        BY <3>2 DEF Tries
      <3>4. peers = {}
        BY <3>2, BoundsAssumption DEF CaptionInv, Talk!Recs
      <3>5. \A z \in tries \ {x} : z.gen # talkGen
        BY <3>2 DEF CaptionInv
      <3> HIDE DEF y
      <3>6. talkGen' \in Nat /\ tries' \subseteq Tries /\ (\A z \in tries' : z.gen <= talkGen')
        BY <2>1, <3>1, <3>3, <1>2 DEF CaptionInv
      <3>7. \A z \in tries' : z.gen = talkGen' => z = y
        BY <2>1, <3>1, <3>5
      <3>8. rtpc' \in 0..MaxRecs /\ peers' \subseteq Talk!Recs /\ peers' \subseteq {rtpc'} /\ mics' # {}
        BY <2>1, <3>1, <3>2, <3>3, <3>4, BoundsAssumption DEF Talk!Recs
      <3> QED BY <3>3, <3>6, <3>7, <3>8 DEF CaptionInv
    <2> QED BY <2>2, <2>3
  <1>7. ASSUME NEW x \in tries, Talk!connected(x) PROVE CaptionInv'
    <2>1. tries' \subseteq tries /\ peers' \subseteq peers /\ UNCHANGED <<mics, talkGen, rtpc>>
      BY <1>7 DEF Talk!connected, Talk!mic
    <2> QED BY <2>1 DEF CaptionInv
  <1>8. ASSUME NEW x \in tries, Talk!failed(x) PROVE CaptionInv'
    <2>1. tries' \subseteq tries /\ mics' = mics /\ (Talk!stopRealtimeSTT \/ UNCHANGED <<talkGen, rtpc, peers>>)
      BY <1>8 DEF Talk!failed, Talk!mic
    <2>2. CASE UNCHANGED <<talkGen, rtpc, peers>>
      BY <2>1, <2>2 DEF CaptionInv
    <2> QED BY <1>3, <2>1, <2>2
  <1>9. CASE \/ Talk!startRec \/ Talk!startVAD \/ Talk!sendTurn \/ Talk!delta \/ Talk!done \/ Talk!error \/ Talk!speak
             \/ Talk!setMuted \/ (\E r \in Talk!Recs : Talk!micRefused(r) \/ Talk!transcribed(r))
             \/ (\E d \in BOOLEAN : Talk!pressRec(d)) \/ (\E x \in synths : Talk!synthSentence(x))
             \/ (\E c \in 1..MaxClips : Talk!ended(c))
    <2>1. UNCHANGED <<mics, talkGen, tries, rtpc, peers>>
      BY <1>9 DEF Talk!startRec, Talk!startVAD, Talk!sendTurn, Talk!delta, Talk!done, Talk!error, Talk!speak,
         Talk!setMuted, Talk!micRefused, Talk!transcribed, Talk!pressRec, Talk!synthSentence, Talk!ended,
         Talk!mic, Talk!rt
    <2> QED BY <2>1 DEF CaptionInv
  <1>10. CASE UNCHANGED talkVars
    BY <1>10 DEF talkVars, CaptionInv
  <1> QED BY <1>4, <1>5, <1>6, <1>7, <1>8, <1>9, <1>10 DEF Talk!Next

\* Draining the queue leaves a whole readout, no longer than it was, and plays only a clip there is.
LEMMA Drains ==
  ASSUME NEW t, Kept(t), NEW s, NEW snd \in SUBSET (1..MaxClips), NEW ca \in 0..MaxClips,
         Talk!drainTTS(t, s, snd, ca)
  PROVE  /\ Kept(tts') /\ tts'.seq \in {t.seq, 0} /\ talkSt' \in {s, "idle"}
         /\ sounding' \subseteq 1..MaxClips /\ curAudio' \in 0..MaxClips
  <1> DEFINE Due == {n \in Talk!Slots : n >= t.next /\ t.clips[n] # Talk!NoClip}
             n == Talk!FirstDue(t)
  <1>1. t \in Readouts /\ Talk!Slots \subseteq Nat /\ t.next \in Nat
    BY BoundsAssumption DEF Kept, Readouts, Talk!Slots
  <1>2. CASE t.playing \/ Due = {}
    <2>1. t.playing \/ ~\E k \in Talk!Slots : k >= t.next /\ t.clips[k] # Talk!NoClip
      BY <1>2
    <2>2. tts' = t /\ talkSt' = s /\ sounding' = snd /\ curAudio' = ca
      BY <2>1 DEF Talk!drainTTS
    <2> QED BY <2>2
  <1>3. CASE ~(t.playing \/ Due = {})
    <2>1. ~(t.playing \/ ~\E k \in Talk!Slots : k >= t.next /\ t.clips[k] # Talk!NoClip)
      BY <1>3
    <2>2. \E k \in Talk!Slots : /\ k >= t.next /\ t.clips[k] # Talk!NoClip
                                /\ \A j \in Talk!Slots : t.next <= j /\ j < k => t.clips[j] = Talk!NoClip
      <3>1. Due \in SUBSET Nat /\ Due # {}
        BY <1>1, <1>3
      <3>2. PICK k \in Due : \A j \in Due : k <= j
        BY <3>1, Least
      <3>3. \A j \in Talk!Slots : t.next <= j /\ j < k => t.clips[j] = Talk!NoClip
        <4> SUFFICES ASSUME NEW j \in Talk!Slots, t.next <= j, j < k, t.clips[j] # Talk!NoClip PROVE FALSE
          OBVIOUS
        <4>1. j \in Nat /\ k \in Nat
          BY <1>1, <3>1, <3>2
        <4>2. j \in Due
          BY <1>1, <4>1
        <4> HIDE DEF Due
        <4> QED BY <3>2, <4>1, <4>2
      <3> QED BY <3>2, <3>3
    <2>3. n \in Talk!Slots /\ t.clips[n] # Talk!NoClip
      BY <2>2 DEF Talk!FirstDue
    <2>4. t.clips[n] \in (-1)..MaxClips /\ (t.clips[n] # 0 => n < MaxClips)
      BY <1>1, <2>3 DEF Kept, Readouts
    <2>5. \/ /\ t.clips[n] # Talk!Absent /\ talkSt' = s
             /\ tts' = [t EXCEPT !.next = n + 1, !.clips[n] = Talk!Absent, !.playing = TRUE]
             /\ sounding' = snd \cup {t.clips[n]} /\ curAudio' = t.clips[n]
          \/ tts' = Talk!Fresh /\ talkSt' = "idle" /\ sounding' = snd /\ curAudio' = ca
          \/ tts' = [t EXCEPT !.next = n] /\ talkSt' = s /\ sounding' = snd /\ curAudio' = ca
      BY Zenon, <2>1 DEF Talk!drainTTS
    <2> HIDE DEF n, Due
    <2>6. Kept([t EXCEPT !.next = n]) /\ [t EXCEPT !.next = n].seq = t.seq
      BY <1>1, <2>3 DEF Kept, Readouts
    <2>7. ASSUME t.clips[n] # Talk!Absent
          PROVE  LET u == [t EXCEPT !.next = n + 1, !.clips[n] = Talk!Absent, !.playing = TRUE] IN
                   Kept(u) /\ u.seq = t.seq
      <3> DEFINE c == [t.clips EXCEPT ![n] = 0]
                 u == [t EXCEPT !.next = n + 1, !.clips = c, !.playing = TRUE]
      <3>1. n + 1 \in Talk!Slots
        BY <2>3, <2>4, <2>7, BoundsAssumption DEF Talk!Absent, Talk!Slots
      <3>2. t.clips \in [Talk!Slots -> (-1)..MaxClips]
        BY <1>1 DEF Readouts
      <3>3. c \in [Talk!Slots -> (-1)..MaxClips] /\ \A k \in Talk!Slots : c[k] \in {0, t.clips[k]}
        <4>1. 0 \in (-1)..MaxClips
          BY BoundsAssumption
        <4> QED BY <3>2, <4>1
      <3> HIDE DEF c
      <3>4. u \in Readouts /\ u.clips = c /\ u.seq = t.seq
        BY <1>1, <3>1, <3>3 DEF Readouts
      <3>5. Kept(u)
        BY <3>3, <3>4 DEF Kept
      <3>6. u = [t EXCEPT !.next = n + 1, !.clips[n] = Talk!Absent, !.playing = TRUE]
        BY DEF c, Talk!Absent
      <3> QED BY <3>4, <3>5, <3>6
    <2>8. t.clips[n] # Talk!Absent => t.clips[n] \in 1..MaxClips
      BY <2>3, <2>4, BoundsAssumption DEF Talk!NoClip, Talk!Absent
    <2>9. CASE /\ t.clips[n] # Talk!Absent /\ talkSt' = s
               /\ tts' = [t EXCEPT !.next = n + 1, !.clips[n] = Talk!Absent, !.playing = TRUE]
               /\ sounding' = snd \cup {t.clips[n]} /\ curAudio' = t.clips[n]
      <3>1. Kept(tts') /\ tts'.seq = t.seq
        BY Zenon, <2>7, <2>9
      <3>2. t.clips[n] \in 1..MaxClips /\ t.clips[n] \in 0..MaxClips
        BY <2>8, <2>9, BoundsAssumption
      <3> QED BY <2>9, <3>1, <3>2
    <2>10. CASE tts' = Talk!Fresh /\ talkSt' = "idle" /\ sounding' = snd /\ curAudio' = ca
      BY <2>10, FreshKept
    <2>11. CASE tts' = [t EXCEPT !.next = n] /\ talkSt' = s /\ sounding' = snd /\ curAudio' = ca
      BY Zenon, <2>6, <2>11
    <2> QED BY Zenon, <2>5, <2>9, <2>10, <2>11
  <1> QED BY <1>2, <1>3

\* A sentence takes a place of its own before the last.
LEMMA Spoken ==
  ASSUME ReadoutInv, NEW t, Kept(t), t.seq <= talkMade, NEW o \in 0..MaxTurns, Talk!Synth(t, o)
  PROVE  /\ talkMade' = talkMade + 1 /\ talkMade < MaxClips
         /\ talkMade' \in 0..MaxClips /\ of' \in [1..MaxClips -> 0..MaxTurns]
         /\ synths' \subseteq [at : Talk!Slots, id : 1..MaxClips] /\ (\A x \in synths' : x.at < MaxClips)
  <1>1. talkMade \in 0..MaxClips /\ talkMade < MaxClips /\ talkMade' = talkMade + 1
    BY DEF Talk!Synth, ReadoutInv
  <1>2. of' \in [1..MaxClips -> 0..MaxTurns]
    BY <1>1, BoundsAssumption DEF Talk!Synth, ReadoutInv
  <1> DEFINE new == [at |-> t.seq, id |-> talkMade + 1]
  <1>3. t.seq \in Talk!Slots /\ t.seq < MaxClips
    <2>1. t.seq \in Talk!Slots
      BY DEF Kept, Readouts
    <2> QED BY <1>1, <2>1, BoundsAssumption DEF Talk!Slots
  <1>4. new \in [at : Talk!Slots, id : 1..MaxClips] /\ new.at < MaxClips
    BY <1>1, <1>3, BoundsAssumption
  <1>5. synths' = synths \cup {new}
    BY DEF Talk!Synth
  <1> HIDE DEF new
  <1>6. synths' \subseteq [at : Talk!Slots, id : 1..MaxClips] /\ (\A x \in synths' : x.at < MaxClips)
    BY <1>4, <1>5 DEF ReadoutInv
  <1> QED BY <1>1, <1>2, <1>6, BoundsAssumption

\* The readout with a flag or its length changed, or a clip before the last place.
LEMMA KeptFlags ==
  ASSUME NEW t, Kept(t), NEW d \in BOOLEAN
  PROVE  /\ Kept([t EXCEPT !.done = d]) /\ [t EXCEPT !.done = d].seq = t.seq
         /\ Kept([t EXCEPT !.playing = d]) /\ [t EXCEPT !.playing = d].seq = t.seq
  <1>1. t \in Readouts
    BY DEF Kept
  <1>2. Kept([t EXCEPT !.done = d]) /\ [t EXCEPT !.done = d].seq = t.seq
    BY <1>1 DEF Kept, Readouts
  <1>3. Kept([t EXCEPT !.playing = d]) /\ [t EXCEPT !.playing = d].seq = t.seq
    BY <1>1 DEF Kept, Readouts
  <1> QED BY <1>2, <1>3

\* A readout goes on to another clip.
LEMMA KeptSeq ==
  ASSUME NEW t, Kept(t), NEW n \in Talk!Slots
  PROVE  Kept([t EXCEPT !.seq = n]) /\ [t EXCEPT !.seq = n].seq = n
  <1>1. t \in Readouts
    BY DEF Kept
  <1> QED BY <1>1 DEF Kept, Readouts

\* A readout with one clip placed.
LEMMA KeptClip ==
  ASSUME NEW t, Kept(t), NEW c \in (-1)..MaxClips, NEW k \in Talk!Slots, k < MaxClips
  PROVE  Kept([t EXCEPT !.clips[k] = c]) /\ [t EXCEPT !.clips[k] = c].seq = t.seq
  <1> DEFINE f == [t.clips EXCEPT ![k] = c]
             u == [t EXCEPT !.clips = f]
  <1>1. t \in Readouts /\ t.clips \in [Talk!Slots -> (-1)..MaxClips]
    BY DEF Readouts, Kept
  <1>2. f \in [Talk!Slots -> (-1)..MaxClips] /\ \A n \in Talk!Slots : f[n] # 0 => n < MaxClips
    BY <1>1 DEF Kept
  <1> HIDE DEF f
  <1>3. u \in Readouts /\ u.clips = f /\ u.seq = t.seq
    BY <1>1, <1>2 DEF Readouts
  <1>4. Kept(u)
    BY <1>2, <1>3 DEF Kept
  <1>5. u = [t EXCEPT !.clips[k] = c]
    BY DEF f
  <1> QED BY <1>3, <1>4, <1>5

\* Where a sentence's clip goes, and what it is.
LEMMA Placed ==
  ASSUME ReadoutInv, NEW x \in synths, NEW clip \in {Talk!NoClip, x.id}
  PROVE  Kept(tts) /\ x.at \in Talk!Slots /\ x.at < MaxClips /\ clip \in (-1)..MaxClips
  <1>1. x \in [at : Talk!Slots, id : 1..MaxClips] /\ x.at < MaxClips /\ Kept(tts)
    BY DEF ReadoutInv
  <1>2. x.id \in 1..MaxClips /\ x.at \in Talk!Slots
    BY <1>1
  <1> QED BY <1>1, <1>2, BoundsAssumption DEF Talk!NoClip

\* A step keeps it.
LEMMA ButtonStep == MicTypes /\ ReadoutInv /\ ButtonTypes /\ [Talk!Next]_talkVars => ButtonTypes'
  <1> SUFFICES ASSUME MicTypes, ReadoutInv, ButtonTypes, [Talk!Next]_talkVars PROVE ButtonTypes'
    OBVIOUS
  <1> DEFINE Turns == talkTurns \in 0..MaxTurns /\ sent \subseteq Talk!Recs /\ talkSrv \in Seq(1..MaxTurns) /\ left \in 0..2
  <1>1. /\ Turns /\ talkSt \in {"idle", "rec", "busy"}
        /\ talkMuted \in BOOLEAN /\ suppress \in BOOLEAN /\ talkActs \in 0..MaxPresses
    BY DEF ButtonTypes
  <1>2. Talk!Act => talkActs' \in 0..MaxPresses
    BY <1>1, BoundsAssumption DEF Talk!Act
  <1>3. ASSUME NEW r \in Talk!Recs \cup {0}, Talk!Sends(r)
        PROVE  Turns' /\ talkSt' \in {"idle", "busy"} /\ suppress' \in BOOLEAN
    <2>1. CASE talkTurns < MaxTurns
      <3>1. /\ talkTurns' = talkTurns + 1 /\ talkSrv' = Append(talkSrv, talkTurns + 1) /\ left' \in {2, left}
            /\ talkSt' = "busy" /\ suppress' = FALSE /\ sent' \subseteq sent \cup {r} /\ (r = 0 => sent' = sent)
        BY <1>3, <2>1 DEF Talk!Sends
      <3>2. talkTurns + 1 \in 1..MaxTurns
        BY <1>1, <2>1, BoundsAssumption
      <3>3. talkSrv' \in Seq(1..MaxTurns)
        BY <1>1, <3>1, <3>2, AppendProperties
      <3>4. talkTurns' \in 0..MaxTurns /\ sent' \subseteq Talk!Recs /\ left' \in 0..2
        BY <1>1, <3>1, <3>2, BoundsAssumption
      <3>5. suppress' \in BOOLEAN
        BY Zenon, <3>1
      <3> QED BY <3>1, <3>3, <3>4, <3>5
    <2>2. CASE ~(talkTurns < MaxTurns)
      BY <1>1, <1>3, <2>2 DEF Talk!Sends, Talk!talk
    <2> QED BY <2>1, <2>2
  <1>4. talkSrv # <<>> => Tail(talkSrv) \in Seq(1..MaxTurns)
    BY <1>1
  <1>5. \A t, snd, ca : /\ Kept(t) /\ snd \in SUBSET (1..MaxClips) /\ ca \in 0..MaxClips
                         /\ Talk!drainTTS(t, talkSt, snd, ca)
                         => talkSt' \in {"idle", "rec", "busy"}
    BY <1>1, Drains
  <1> HIDE DEF Turns
  <1>6. UNCHANGED Talk!talk => Turns'
    BY <1>1 DEF Turns, Talk!talk
  <1>7. CASE Talk!startRec \/ Talk!startVAD \/ Talk!speak \/ Talk!setMuted \/ (\E d \in BOOLEAN : Talk!pressRec(d))
             \/ (\E r \in Talk!Recs : Talk!micOpens(r) \/ Talk!micRefused(r))
             \/ (\E x \in tries : Talk!minted(x) \/ Talk!connected(x) \/ Talk!failed(x))
    <2>1. /\ UNCHANGED <<suppress, talkTurns, sent, talkSrv, left>> /\ talkSt' \in {talkSt, "rec", "idle"}
          /\ talkMuted' \in BOOLEAN /\ (talkActs' = talkActs \/ Talk!Act)
      BY <1>1, <1>7 DEF Talk!startRec, Talk!startVAD, Talk!speak, Talk!setMuted, Talk!pressRec, Talk!micOpens,
         Talk!micRefused, Talk!minted, Talk!connected, Talk!failed, Talk!talk
    <2> QED BY <1>1, <1>2, <1>6, <2>1 DEF ButtonTypes, Turns, Talk!talk
  <1>8. CASE Talk!onRecStop
    <2>1. Head(stops) \in Talk!Recs
      BY <1>8 DEF MicTypes, Talk!onRecStop
    <2>2. /\ UNCHANGED <<talkMuted, talkActs>>
          /\ \/ talkSt' \in {"idle", "busy"} /\ UNCHANGED Talk!talk /\ (suppress' = TRUE \/ suppress' = suppress)
             \/ Talk!Sends(Head(stops))
      BY <1>8 DEF Talk!onRecStop
    <2>3. Turns' /\ talkSt' \in {"idle", "busy"} /\ suppress' \in BOOLEAN
      BY <1>1, <1>3, <1>6, <2>1, <2>2
    <2> QED BY <1>1, <2>2, <2>3 DEF ButtonTypes, Turns
  <1>9. ASSUME NEW r \in Talk!Recs, Talk!transcribed(r) PROVE ButtonTypes'
    <2>1. /\ UNCHANGED <<talkMuted, talkActs>>
          /\ \/ talkSt' = "idle" /\ UNCHANGED Talk!talk /\ (suppress' = TRUE \/ suppress' = suppress)
             \/ Talk!Sends(r)
      BY <1>9 DEF Talk!transcribed
    <2>2. Turns' /\ talkSt' \in {"idle", "busy"} /\ suppress' \in BOOLEAN
      BY <1>1, <1>3, <1>6, <2>1
    <2> QED BY <1>1, <2>1, <2>2 DEF ButtonTypes, Turns
  <1>10. CASE Talk!sendTurn
    <2>1. talkMuted' = talkMuted /\ Talk!Act /\ Talk!Sends(0)
      BY <1>10 DEF Talk!sendTurn
    <2> QED BY <1>1, <1>2, <1>3, <2>1 DEF ButtonTypes, Turns
  <1>11. CASE Talk!delta
    <2>1. /\ UNCHANGED <<talkSt, talkTurns, sent, talkSrv, talkMuted, suppress, talkActs>>
          /\ left > 0 /\ left' = left - 1
      BY <1>11 DEF Talk!delta
    <2> QED BY <1>1, <2>1 DEF ButtonTypes, Turns
  <1>12. CASE Talk!done \/ Talk!error
    <2>1. /\ UNCHANGED <<talkTurns, sent, talkMuted, suppress, talkActs>> /\ left' \in {0, 2}
          /\ talkSrv # <<>> /\ talkSrv' = Tail(talkSrv)
      BY <1>12 DEF Talk!done, Talk!error
    <2>2. talkSt' \in {"idle", "rec", "busy"}
      <3>1. CASE talkSt' = "idle"
        BY <3>1
      <3>2. CASE Talk!drainTTS([tts EXCEPT !.done = TRUE], talkSt, sounding, curAudio)
        <4>1. Kept([tts EXCEPT !.done = TRUE])
          BY KeptFlags DEF ReadoutInv
        <4>2. sounding \in SUBSET (1..MaxClips) /\ curAudio \in 0..MaxClips
          BY DEF ReadoutInv
        <4> QED BY <1>5, <3>2, <4>1, <4>2
      <3> QED BY <1>12, <3>1, <3>2 DEF Talk!done, Talk!error
    <2> QED BY <1>1, <1>4, <2>1, <2>2 DEF ButtonTypes, Turns
  <1>13. CASE Talk!stopEverything
    <2>1. /\ UNCHANGED <<talkTurns, sent, talkSrv, talkMuted>> /\ left' \in {0, left} /\ talkSt' = "idle"
          /\ suppress' = TRUE /\ Talk!Act
      BY <1>13 DEF Talk!stopEverything
    <2>2. suppress' \in BOOLEAN
      BY Zenon, <2>1
    <2> QED BY <1>1, <1>2, <2>1, <2>2 DEF ButtonTypes, Turns
  <1>14. CASE (\E x \in synths : Talk!synthSentence(x)) \/ (\E c \in 1..MaxClips : Talk!ended(c))
    <2>1. UNCHANGED Talk!talk /\ UNCHANGED <<talkMuted, suppress, talkActs>>
      BY <1>14 DEF Talk!synthSentence, Talk!ended
    <2>2. talkSt' \in {"idle", "rec", "busy"}
      <3>1. ASSUME NEW x \in synths, Talk!synthSentence(x) PROVE talkSt' \in {"idle", "rec", "busy"}
        <4>1. PICK clip \in {Talk!NoClip, x.id} :
                Talk!drainTTS([tts EXCEPT !.clips[x.at] = clip], talkSt, sounding, curAudio)
          BY <3>1 DEF Talk!synthSentence
        <4>2. Kept([tts EXCEPT !.clips[x.at] = clip])
          BY KeptClip, Placed
        <4>3. sounding \in SUBSET (1..MaxClips) /\ curAudio \in 0..MaxClips
          BY DEF ReadoutInv
        <4> QED BY <1>5, <4>1, <4>2, <4>3
      <3>2. ASSUME NEW c \in 1..MaxClips, Talk!ended(c) PROVE talkSt' \in {"idle", "rec", "busy"}
        <4>1. Talk!drainTTS([tts EXCEPT !.playing = FALSE], talkSt, sounding \ {c},
                            IF curAudio = c THEN 0 ELSE curAudio)
          BY <3>2 DEF Talk!ended
        <4>2. Kept([tts EXCEPT !.playing = FALSE])
          BY KeptFlags DEF ReadoutInv
        <4>3. sounding \ {c} \in SUBSET (1..MaxClips) /\ (IF curAudio = c THEN 0 ELSE curAudio) \in 0..MaxClips
          BY BoundsAssumption DEF ReadoutInv
        <4> QED BY <1>5, <4>1, <4>2, <4>3
      <3> QED BY <1>14, <3>1, <3>2
    <2> QED BY <1>1, <1>6, <2>1, <2>2 DEF ButtonTypes, Turns
  <1>15. CASE UNCHANGED talkVars
    BY <1>15 DEF talkVars, ButtonTypes
  <1> QED BY <1>7, <1>8, <1>9, <1>10, <1>11, <1>12, <1>13, <1>14, <1>15 DEF Talk!Next

\* A step keeps it.
LEMMA ReadoutStep == ReadoutInv /\ ButtonTypes /\ [Talk!Next]_talkVars => ReadoutInv'
  <1> SUFFICES ASSUME ReadoutInv, ButtonTypes, [Talk!Next]_talkVars PROVE ReadoutInv'
    OBVIOUS
  <1>1. /\ Kept(tts) /\ tts.seq <= talkMade /\ tts.seq \in 0..MaxClips /\ talkMade \in 0..MaxClips
        /\ sounding \in SUBSET (1..MaxClips) /\ curAudio \in 0..MaxClips
    BY DEF ReadoutInv, Kept, Readouts, Talk!Slots
  <1>2. ASSUME tts' \in {tts, Talk!Fresh}, UNCHANGED <<talkMade, of, synths>>, sounding' \subseteq sounding,
               curAudio' \in {curAudio, 0}
        PROVE  ReadoutInv'
    <2>1. Kept(tts') /\ tts'.seq <= talkMade
      BY <1>1, <1>2, FreshKept
    <2> QED BY <1>1, <1>2, <2>1, BoundsAssumption DEF ReadoutInv
  <1>3. ASSUME NEW t, Kept(t), t.seq = tts.seq, NEW snd \in SUBSET (1..MaxClips), NEW ca \in 0..MaxClips,
               Talk!drainTTS(t, talkSt, snd, ca), UNCHANGED <<talkMade, of>>, synths' \subseteq synths
        PROVE  ReadoutInv'
    <2>1. /\ Kept(tts') /\ tts'.seq \in {tts.seq, 0}
          /\ sounding' \subseteq 1..MaxClips /\ curAudio' \in 0..MaxClips
      BY <1>3, Drains
    <2>2. tts'.seq <= talkMade
      BY <1>1, <2>1
    <2> QED BY <1>1, <1>3, <2>1, <2>2 DEF ReadoutInv
  <1>4. CASE \/ Talk!startRec \/ Talk!startVAD \/ Talk!onRecStop \/ Talk!sendTurn \/ Talk!error \/ Talk!stopEverything
             \/ Talk!setMuted \/ (\E d \in BOOLEAN : Talk!pressRec(d))
             \/ (\E r \in Talk!Recs : Talk!micOpens(r) \/ Talk!micRefused(r) \/ Talk!transcribed(r))
             \/ (\E x \in tries : Talk!minted(x) \/ Talk!connected(x) \/ Talk!failed(x)) \/ UNCHANGED talkVars
    <2>1. \A r : Talk!Sends(r) => tts' \in {tts, Talk!Fresh}
      BY DEF Talk!Sends
    <2> QED BY <1>2, <1>4, <2>1 DEF Talk!startRec, Talk!startVAD, Talk!onRecStop, Talk!sendTurn, Talk!error,
       Talk!stopEverything, Talk!stopAudio, Talk!setMuted, Talk!pressRec, Talk!micOpens, Talk!micRefused,
       Talk!transcribed, Talk!minted, Talk!connected, Talk!failed, Talk!voice, talkVars
  <1>5. CASE Talk!delta
    <2>1. UNCHANGED <<sounding, curAudio>>
      BY <1>5 DEF Talk!delta
    <2>2. CASE talkMuted
      BY <1>2, <1>5, <2>1, <2>2 DEF Talk!delta
    <2>3. CASE ~talkMuted
      <3>1. Talk!Synth(tts, Head(talkSrv)) /\ tts' = [tts EXCEPT !.seq = @ + 1]
        BY <1>5, <2>3 DEF Talk!delta
      <3>2. Head(talkSrv) \in 0..MaxTurns
        <4>1. talkSrv # <<>> /\ talkSrv \in Seq(1..MaxTurns)
          BY <1>5 DEF Talk!delta, ButtonTypes
        <4>2. Head(talkSrv) \in 1..MaxTurns
          BY <4>1, HeadTailProperties
        <4> QED BY <4>2, BoundsAssumption
      <3>3. /\ talkMade' = talkMade + 1 /\ talkMade < MaxClips
            /\ talkMade' \in 0..MaxClips /\ of' \in [1..MaxClips -> 0..MaxTurns]
            /\ synths' \subseteq [at : Talk!Slots, id : 1..MaxClips] /\ (\A x \in synths' : x.at < MaxClips)
        BY <1>1, <3>1, <3>2, Spoken
      <3>4. Kept(tts') /\ tts'.seq = tts.seq + 1
        <4>1. tts.seq + 1 \in Talk!Slots
          BY <1>1, <3>3, BoundsAssumption DEF Talk!Slots
        <4>2. tts' = [tts EXCEPT !.seq = tts.seq + 1]
          BY <3>1
        <4> QED BY <1>1, <4>1, <4>2, KeptSeq
      <3> QED BY <1>1, <2>1, <3>3, <3>4 DEF ReadoutInv
    <2> QED BY <2>2, <2>3
  <1>6. CASE Talk!speak
    <2> DEFINE t == [Talk!Fresh EXCEPT !.seq = 1, !.done = TRUE]
    <2>1. Talk!Synth(Talk!Fresh, 0) /\ tts' = t /\ UNCHANGED <<sounding, curAudio>>
      BY <1>6 DEF Talk!speak
    <2>2. /\ talkMade' = talkMade + 1 /\ talkMade < MaxClips
          /\ talkMade' \in 0..MaxClips /\ of' \in [1..MaxClips -> 0..MaxTurns]
          /\ synths' \subseteq [at : Talk!Slots, id : 1..MaxClips] /\ (\A x \in synths' : x.at < MaxClips)
      <3>1. Talk!Fresh.seq <= talkMade /\ 0 \in 0..MaxTurns
        BY <1>1, FreshKept, BoundsAssumption
      <3> QED BY <2>1, <3>1, FreshKept, Spoken
    <2>3. Kept(t) /\ t.seq = 1
      <3>1. 1 \in Talk!Slots
        BY <1>1, <2>2, BoundsAssumption DEF Talk!Slots
      <3>2. Kept([Talk!Fresh EXCEPT !.seq = 1]) /\ [Talk!Fresh EXCEPT !.seq = 1].seq = 1
        BY <3>1, FreshKept, KeptSeq
      <3>3. t = [[Talk!Fresh EXCEPT !.seq = 1] EXCEPT !.done = TRUE]
        OBVIOUS
      <3> HIDE DEF t
      <3> QED BY <3>2, <3>3, KeptFlags
    <2> HIDE DEF t
    <2> QED BY <1>1, <2>1, <2>2, <2>3 DEF ReadoutInv
  <1>7. CASE Talk!done
    <2>1. CASE talkMuted
      BY <1>2, <1>7, <2>1 DEF Talk!done
    <2>2. CASE ~talkMuted
      <3>1. /\ Talk!drainTTS([tts EXCEPT !.done = TRUE], talkSt, sounding, curAudio)
            /\ UNCHANGED <<talkMade, of, synths>>
        BY <1>7, <2>2 DEF Talk!done
      <3>2. Kept([tts EXCEPT !.done = TRUE]) /\ [tts EXCEPT !.done = TRUE].seq = tts.seq
        BY <1>1, KeptFlags
      <3> QED BY <1>1, <1>3, <3>1, <3>2
    <2> QED BY <2>1, <2>2
  <1>8. ASSUME NEW x \in synths, Talk!synthSentence(x) PROVE ReadoutInv'
    <2>1. PICK clip \in {Talk!NoClip, x.id} :
            Talk!drainTTS([tts EXCEPT !.clips[x.at] = clip], talkSt, sounding, curAudio)
      BY <1>8 DEF Talk!synthSentence
    <2>2. Kept([tts EXCEPT !.clips[x.at] = clip]) /\ [tts EXCEPT !.clips[x.at] = clip].seq = tts.seq
      BY KeptClip, Placed
    <2>3. UNCHANGED <<talkMade, of>> /\ synths' \subseteq synths
      BY <1>8 DEF Talk!synthSentence
    <2> QED BY <1>1, <1>3, <2>1, <2>2, <2>3
  <1>9. ASSUME NEW c \in 1..MaxClips, Talk!ended(c) PROVE ReadoutInv'
    <2>1. /\ Talk!drainTTS([tts EXCEPT !.playing = FALSE], talkSt, sounding \ {c},
                           IF curAudio = c THEN 0 ELSE curAudio)
          /\ UNCHANGED <<talkMade, of, synths>>
      BY <1>9 DEF Talk!ended
    <2>2. Kept([tts EXCEPT !.playing = FALSE]) /\ [tts EXCEPT !.playing = FALSE].seq = tts.seq
      BY <1>1, KeptFlags
    <2>3. sounding \ {c} \in SUBSET (1..MaxClips) /\ (IF curAudio = c THEN 0 ELSE curAudio) \in 0..MaxClips
      BY <1>1, BoundsAssumption
    <2> QED BY <1>3, <2>1, <2>2, <2>3
  <1> QED BY <1>4, <1>5, <1>6, <1>7, <1>8, <1>9 DEF Talk!Next

\* However short the utterance and whenever it was stopped, no live transcription stays open without a
\* microphone in hand, and never two: for any number of recordings, turns, clips and presses.
THEOREM CaptionsHaveTheMic == Spec => [](Talk!TypeOK /\ Talk!CaptionsNeedTheMic)
  <1>1. TalkInv /\ [Talk!Next]_talkVars => TalkInv'
    BY MicStep, CaptionStep, ButtonStep, ReadoutStep DEF TalkInv
  <1>2. TalkInv => Talk!TypeOK
    <2> SUFFICES ASSUME TalkInv PROVE Talk!TypeOK
      OBVIOUS
    <2>1. MicTypes /\ CaptionInv /\ ButtonTypes /\ ReadoutInv
      BY DEF TalkInv
    <2> QED BY Zenon, <2>1 DEF Talk!TypeOK, MicTypes, CaptionInv, ButtonTypes, ReadoutInv, Kept, Readouts, Tries
  <1>3. TalkInv => Talk!CaptionsNeedTheMic
    <2> SUFFICES ASSUME TalkInv PROVE Talk!CaptionsNeedTheMic
      OBVIOUS
    <2>1. /\ peers \subseteq {rtpc} /\ (peers # {} => mics # {})
          /\ \A x \in tries : x.gen = talkGen => mics # {}
      BY DEF TalkInv, CaptionInv
    <2>2. Talk!Cardinality(peers) <= 1
      <3>1. peers = {} \/ peers = {rtpc}
        BY <2>1
      <3>2. Cardinality({}) = 0 /\ Cardinality({rtpc}) = 1
        BY FS_EmptySet, FS_Singleton
      <3>3. Cardinality(peers) <= 1
        BY <3>1, <3>2
      <3> QED BY Zenon, <3>3 DEF Talk!Cardinality, Cardinality
    <2> QED BY <2>1, <2>2 DEF Talk!CaptionsNeedTheMic
  <1> QED BY <1>1, <1>2, <1>3, TalkInit, EachOnItsOwn, PTL

---------------------------------------------------------------------------
(* The group. The tabs of the phone are folds over sequences of frames: what *)
(* they promise is checked on small instances.                               *)

\* Every variable of every part but the tabs keeps its type, and every one of these parts keeps what it
\* promises: no code, command or answer is used twice, watchers, screens, words and captions are whole
\* and alone, for every value of the constants.
THEOREM PromisesKept == Spec => [](part # "tabs" => TypesOK /\ PromisesHold)
  <1> DEFINE All ==
        /\ Registry!TypeOK /\ Registry!OneCredentialPerCode
        /\ Remote!TypeOK /\ Remote!WatchedWhole
        /\ Dongle!TypeOK /\ Dongle!RunsOnce
        /\ Net!TypeOK /\ Net!StatusIsHonest /\ Net!LandsInFleet
        /\ Screen!TypeOK /\ Screen!OneLiveConnection /\ Screen!ClickIsAlone /\ Screen!StartsClean
        /\ Room!TypeOK /\ Room!CaptionFollows /\ Room!HeardAsSaid /\ Room!GateIsMonotone
        /\ Gateway!TypeOK /\ Gateway!AnsweredOnce /\ Gateway!Reachable
        /\ Talk!TypeOK /\ Talk!CaptionsNeedTheMic
  <1>1. All => (part # "tabs" => TypesOK /\ PromisesHold)
    BY Zenon DEF TypesOK, PromisesHold
  <1>2. Spec => []All
    BY OneCredential, WatchersSeeAll, CommandsRunOnce, EnrolledAsReported, OneScreenEach, HeardAndShown,
       AnsweredAndReachable, CaptionsHaveTheMic, PTL
  <1> HIDE DEF All
  <1> QED BY <1>1, <1>2, PTL

\* Every variable of every part but the tabs keeps its type: the types' half of it.
THEOREM TypesKept == Spec => [](part # "tabs" => TypesOK)
  BY PromisesKept, PTL

\* What was taken away stays away in every behaviour of a part that is not the tabs: a revoked token, a
\* forbidden capability, a machine's screen once the broker heard of it, a stopped voice.
THEOREM StaysAway == Spec /\ [](part # "tabs") => TakenAway
  <1>1. [Next]_vars /\ part # "tabs" => UNCHANGED tabsVars
    BY Zenon DEF Next, vars
  <1>2. UNCHANGED tabsVars => UNCHANGED Tabs!vars
    BY DEF tabsVars, Tabs!vars
  <1>3. Spec /\ [](part # "tabs") => Tabs!SortedIntoTabs
    BY <1>1, <1>2, PTL DEF Spec, Tabs!SortedIntoTabs
  <1> QED
    BY <1>3, OneCredential, ForbiddenStayOut, OneScreenEach, StoppedStaysQuiet, PTL
    DEF TakenAway
=============================================================================

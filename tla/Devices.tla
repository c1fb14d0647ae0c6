------------------------------ MODULE Devices ------------------------------
(***************************************************************************)
(* One machine of the device registry (core/src/devices): its row, one      *)
(* transport with the hash of the credential issued for it, and the         *)
(* one-time codes a machine redeems for one.  The registry's SQL runs in    *)
(* one step; the vault is awaited, and other requests run meanwhile.        *)
(***************************************************************************)
EXTENDS Integers

CONSTANTS
  Codes,
  Callers,     \* requests that may be issuing a credential
  MaxTokens    \* bound: credentials generated

VARIABLES
  device,     \* "absent", "active" or "retired"
  row,        \* the transport row, or Absent
  vault,      \* the token under the transport's key name (0: none), and whether it is sealed
  code,       \* each enrollment code
  caller,     \* what each issuing request does
  deleting,   \* a revoke is at the vault
  tokens,     \* tokens generated so far
  redeemed,   \* how many credentials each code was turned into
  dropped,    \* tokens a revoke took out of the row
  overtaken   \* tokens whose issue was under way when a revoke came

vars == <<device, row, vault, code, caller, deleting, tokens, redeemed, dropped, overtaken>>

Absent == <<>>
Row(hash, enabled, revoked) == [hash |-> hash, enabled |-> enabled, revoked |-> revoked]
Idle == [at |-> "idle", token |-> 0, code |-> "none"]

TypeOK ==
  /\ device \in {"absent", "active", "retired"}
  /\ row = Absent \/ row \in [hash : 0..MaxTokens, enabled : BOOLEAN, revoked : BOOLEAN]
  /\ vault \in [token : 0..MaxTokens, sealed : BOOLEAN]
  /\ code \in [Codes -> {"unminted", "live", "spent"}]
  /\ \A c \in Callers : caller[c].at \in {"idle", "health", "store", "bind"}

Init ==
  /\ device = "absent" /\ row = Absent
  /\ vault = [token |-> 0, sealed |-> FALSE]
  /\ code = [k \in Codes |-> "unminted"] /\ caller = [c \in Callers |-> Idle]
  /\ deleting = FALSE
  /\ tokens = 0 /\ redeemed = [k \in Codes |-> 0] /\ dropped = {} /\ overtaken = {}

---------------------------------------------------------------------------
(* The registry.                                                            *)

create ==
  /\ device = "absent" /\ device' = "active"
  /\ UNCHANGED <<row, vault, code, caller, deleting, tokens, redeemed, dropped, overtaken>>

update(status) ==
  /\ device # "absent" /\ device' = status
  /\ UNCHANGED <<row, vault, code, caller, deleting, tokens, redeemed, dropped, overtaken>>

\* Transports and codes go with the row; the vault's secret stays.
remove ==
  /\ device # "absent" /\ device' = "absent" /\ row' = Absent
  /\ code' = [k \in Codes |-> IF code[k] = "live" THEN "spent" ELSE code[k]]
  /\ UNCHANGED <<vault, caller, deleting, tokens, redeemed, dropped, overtaken>>

\* The row's hash and revoked_at survive an upsert.
Upserted(enabled) == IF row = Absent THEN Row(0, enabled, FALSE) ELSE [row EXCEPT !.enabled = enabled]
upsert(enabled) ==
  /\ device # "absent" /\ row' = Upserted(enabled)
  /\ UNCHANGED <<device, vault, code, caller, deleting, tokens, redeemed, dropped, overtaken>>

removeTransport ==
  /\ row # Absent /\ row' = Absent
  /\ UNCHANGED <<device, vault, code, caller, deleting, tokens, redeemed, dropped, overtaken>>

\* The token the hot path would accept (0: none).
Accepted ==
  IF device = "active" /\ row # Absent /\ row.enabled /\ ~row.revoked THEN row.hash ELSE 0

---------------------------------------------------------------------------
(* Issuing a credential.                                                    *)

mintCode(k) ==
  /\ device # "absent" /\ code[k] = "unminted"
  /\ code' = [code EXCEPT ![k] = "live"]
  /\ UNCHANGED <<device, row, vault, caller, deleting, tokens, redeemed, dropped, overtaken>>

expireCode(k) ==
  /\ code[k] = "live" /\ code' = [code EXCEPT ![k] = "spent"]
  /\ UNCHANGED <<device, row, vault, caller, deleting, tokens, redeemed, dropped, overtaken>>

\* Codes a redemption finds usable, and what is left of the code.
Usable_Spent(k) == code[k] # "unminted"
Usable(k) == code[k] = "live"

\* issue() up to the health check, for a machine with a code or for the operator.
Begin(c, k) ==
  /\ caller[c] = Idle /\ device # "absent"
  /\ row' = IF row = Absent THEN Row(0, TRUE, FALSE) ELSE row
  /\ caller' = [caller EXCEPT ![c] = [at |-> "health", token |-> 0, code |-> k]]
  /\ UNCHANGED <<device, vault, deleting, tokens, redeemed, dropped, overtaken>>
redeem(c, k) == Usable(k) /\ code' = [code EXCEPT ![k] = "spent"] /\ Begin(c, k)
issue(c) == Begin(c, "none") /\ UNCHANGED code

\* The vault answered: sealed or unreachable refuses, and the code is gone all the same.
Checked(c) ==
  /\ caller[c].at = "health" /\ tokens < MaxTokens
  /\ \/ /\ ~vault.sealed /\ tokens' = tokens + 1
        /\ caller' = [caller EXCEPT ![c].at = "store", ![c].token = tokens + 1]
     \/ caller' = [caller EXCEPT ![c] = Idle] /\ UNCHANGED tokens
  /\ UNCHANGED <<device, row, vault, code, deleting, redeemed, dropped, overtaken>>

\* The secret is in the vault, the request not yet told so; or the vault refused.
Stores(c) ==
  /\ caller[c].at = "store"
  /\ \/ /\ ~vault.sealed /\ vault' = [vault EXCEPT !.token = caller[c].token]
        /\ caller' = [caller EXCEPT ![c].at = "bind"]
     \/ caller' = [caller EXCEPT ![c] = Idle] /\ UNCHANGED vault
  /\ UNCHANGED <<device, row, code, deleting, tokens, redeemed, dropped, overtaken>>

\* bindCredential: an UPDATE, which matches no row when the device is gone.
bindCredential(c) ==
  /\ caller[c].at = "bind" /\ caller' = [caller EXCEPT ![c] = Idle]
  /\ row' = IF row = Absent THEN row ELSE Row(caller[c].token, TRUE, FALSE)
  /\ redeemed' = [k \in Codes |-> redeemed[k] + (IF caller[c].code = k THEN 1 ELSE 0)]
  /\ UNCHANGED <<device, vault, code, deleting, tokens, dropped, overtaken>>

Seal ==
  /\ vault' = [vault EXCEPT !.sealed = ~@]
  /\ UNCHANGED <<device, row, code, caller, deleting, tokens, redeemed, dropped, overtaken>>

\* What a revoke makes of the row.
RevokedRow_Disabled == [row EXCEPT !.enabled = FALSE]
RevokedRow == Row(0, FALSE, TRUE)

\* The hash first, so that a token fails closed whatever the vault answers.
revoke ==
  /\ row # Absent /\ ~deleting
  /\ row' = RevokedRow /\ dropped' = dropped \cup ({row.hash} \ {0}) /\ deleting' = TRUE
  /\ overtaken' = overtaken \cup ({caller[c].token : c \in Callers} \ {0})
  /\ UNCHANGED <<device, vault, code, caller, tokens, redeemed>>

VaultDeletes ==
  /\ deleting /\ deleting' = FALSE
  /\ vault' \in {[vault EXCEPT !.token = 0], vault}   \* a vault error is reported, not retried
  /\ UNCHANGED <<device, row, code, caller, tokens, redeemed, dropped, overtaken>>

\* The core dies: the requests under way with it, not the rows.
Restart ==
  /\ caller' = [c \in Callers |-> Idle] /\ deleting' = FALSE
  /\ UNCHANGED <<device, row, vault, code, tokens, redeemed, dropped, overtaken>>

Next ==
  \/ create \/ remove \/ removeTransport \/ revoke
  \/ \E status \in {"active", "retired"} : update(status)
  \/ \E b \in BOOLEAN : upsert(b)
  \/ \E k \in Codes : mintCode(k) \/ expireCode(k)
  \/ \E c \in Callers, k \in Codes : redeem(c, k)
  \/ \E c \in Callers : issue(c) \/ Checked(c) \/ Stores(c) \/ bindCredential(c)
  \/ Seal \/ VaultDeletes \/ Restart

Spec == Init /\ [][Next]_vars

---------------------------------------------------------------------------
\* A code becomes at most one credential, however many machines present it at once.
OneCredentialPerCode == \A k \in Codes : redeemed[k] <= 1

\* A token that a revoke dropped never works again, whatever is enabled, upserted or issued
\* afterwards.
DroppedStaysDropped == Accepted \notin dropped

\* At rest, the vault holds the token the registry accepts.
VaultHasTheToken ==
  Accepted # 0 /\ (\A c \in Callers : caller[c] = Idle) => vault.token = Accepted

\* A revoke also stops the credentials still being issued when it came.
RevokeStopsIssues == Accepted \notin overtaken
=============================================================================

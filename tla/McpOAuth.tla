------------------------------- MODULE McpOAuth -------------------------------
(***************************************************************************)
(* The MCP connector (types/mcp): its authorization server, from a client's *)
(* registration through the code it is granted to the bearer token it holds *)
(* in memory and on disk, and the event streams authenticated clients open, *)
(* one for each user.                                                       *)
(***************************************************************************)
EXTENDS Integers, FiniteSets

CONSTANTS
  Known,    \* clients of the clients file, each with a user of its own
  Dynamic,  \* clients that register themselves: all of them are the user "unknown"
  MaxCodes, \* bound: authorization codes made
  MaxTokens, \* bound: access tokens made
  MaxOpens  \* bound: event streams opened

VARIABLES
  registered,  \* self-registered clients (in memory)
  code,        \* each code: none, open, used or gone
  grantee,     \* history: the client each code was made for
  token, disk, \* each token: none, valid or expired, in memory and on disk
  minted,      \* history: each token's code and client
  clock,       \* tokens and codes whose time has passed
  stream,      \* each stream: none, open, ending (closed, its response not yet) or ended
  whose,       \* each stream's user
  current,     \* userToSession
  asked        \* each stream: no tool call, one running, answered on it, or lost

vars == <<registered, code, grantee, token, disk, minted, clock, stream, whose, current, asked>>
grants == <<registered, code, grantee, token, disk, minted, clock>>
streams == <<stream, whose, current, asked>>

Codes == 1..MaxCodes
Tokens == (MaxCodes + 1)..(MaxCodes + MaxTokens)
Opens == 1..MaxOpens
Clients == Known \cup Dynamic
\* The next one that was not made yet.
Fresh(f, x) == f[x] = "none" /\ \A y \in DOMAIN f : y < x => f[y] # "none"

TypeOK ==
  /\ registered \subseteq Dynamic
  /\ code \in [Codes -> {"none", "open", "used", "gone"}]
  /\ \A c \in Codes : IF code[c] = "none" THEN grantee[c] = {} ELSE \E k \in Clients : grantee[c] = {k}
  /\ token \in [Tokens -> {"none", "valid", "gone"}] /\ disk \subseteq Tokens
  /\ \A t \in Tokens : Cardinality(minted[t]) <= 1 /\ minted[t] \subseteq Codes \X Clients
  /\ clock \subseteq Codes \cup Tokens
  /\ stream \in [Opens -> {"none", "open", "ending", "ended"}]
  /\ asked \in [Opens -> {"none", "runs", "answered", "lost"}]
  /\ \A o \in Opens : whose[o] \subseteq Clients
  /\ \A k \in DOMAIN current : current[k] \subseteq Opens /\ Cardinality(current[k]) <= 1

\* A client's user is its own, or that of every self-registered client.
clientToIdentity(k) == IF k \in Known THEN {k} ELSE Dynamic
Users == {clientToIdentity(k) : k \in Clients}

Init ==
  /\ registered = {} /\ code = [c \in Codes |-> "none"] /\ grantee = [c \in Codes |-> {}]
  /\ token = [t \in Tokens |-> "none"] /\ disk = {} /\ minted = [t \in Tokens |-> {}] /\ clock = {}
  /\ stream = [o \in Opens |-> "none"] /\ whose = [o \in Opens |-> {}]
  /\ current = [u \in Users |-> {}] /\ asked = [o \in Opens |-> "none"]

---------------------------------------------------------------------------
(* Registration, authorization and the token.                               *)

registerClient(k) ==
  /\ k \in Dynamic \ registered /\ registered' = registered \cup {k}
  /\ UNCHANGED <<code, grantee, token, disk, minted, clock, streams>>

getClient(k) == k \in Known \cup registered

\* POST /oauth/approve: a code for the client the body names, with the redirect and the challenge it
\* names. Whether there is such a client was asked only when the consent page was shown, which changes
\* no state, and is asked again for the token.
approve(k, c) ==
  /\ Fresh(code, c) /\ code' = [code EXCEPT ![c] = "open"] /\ grantee' = [grantee EXCEPT ![c] = {k}]
  /\ UNCHANGED <<registered, token, disk, minted, clock, streams>>

\* The client of the request, with the redirect and the verifier of the request.
Matches_AnyClient(c, k, proof) == proof = grantee[c]
Matches(c, k, proof) == grantee[c] = {k} /\ proof = grantee[c]

\* A code is marked used as it is exchanged; another attempt only forgets it.
MarkUsed_Later(c) == code
MarkUsed(c) == [code EXCEPT ![c] = "used"]

saveTokensToDisk(now) == disk' = {t \in Tokens : now[t] = "valid"} \/ UNCHANGED disk

validateAuthorizationCode(c, k, proof) ==
  /\ code[c] = "open" /\ c \notin clock /\ Matches(c, k, proof) /\ code' = MarkUsed(c)

createAccessToken(t, c, k) ==
  /\ Fresh(token, t) /\ minted' = [minted EXCEPT ![t] = {<<c, k>>}]
  /\ token' = [token EXCEPT ![t] = "valid"] /\ saveTokensToDisk(token')

\* proof: the client whose request's redirect and verifier are presented.
handleTokenRequest(k, c, proof, t) ==
  /\ getClient(k)
  /\ validateAuthorizationCode(c, k, proof) /\ createAccessToken(t, c, k)
  /\ UNCHANGED <<registered, grantee, clock, streams>>

\* A used or an expired code is forgotten by the next attempt.
Refused(c) ==
  /\ (code[c] = "used" \/ (code[c] = "open" /\ c \in clock))
  /\ code' = [code EXCEPT ![c] = "gone"]
  /\ UNCHANGED <<registered, grantee, token, disk, minted, clock, streams>>

Expire(x) ==
  /\ x \in {c \in Codes : code[c] = "open"} \cup {t \in Tokens : token[t] = "valid"} /\ clock' = clock \cup {x}
  /\ UNCHANGED <<registered, code, grantee, token, disk, minted, streams>>

\* An expired token is dropped, here and on disk, by the request that presents it.
validateAccessToken(t) == token[t] = "valid" /\ t \notin clock
TokenExpired(t) ==
  /\ token[t] = "valid" /\ t \in clock /\ token' = [token EXCEPT ![t] = "gone"] /\ saveTokensToDisk(token')
  /\ UNCHANGED <<registered, code, grantee, minted, clock, streams>>

---------------------------------------------------------------------------
(* Event streams.                                                           *)

UserOf(t) == clientToIdentity((CHOOSE m \in minted[t] : TRUE)[2])

\* The user's stream, if it is still a session, is closed before another takes its place.
Displaced_None(u) == {}
Displaced(u) == {o \in current[u] : stream[o] = "open"}

Lost(gone) == [o \in Opens |-> IF o \in gone /\ asked[o] = "runs" THEN "lost" ELSE asked[o]]

sse(o, t) ==
  /\ validateAccessToken(t) /\ Fresh(stream, o)
  /\ LET u == UserOf(t) IN
       /\ stream' = [p \in Opens |-> IF p = o THEN "open" ELSE IF p \in Displaced(u) THEN "ending" ELSE stream[p]]
       /\ whose' = [whose EXCEPT ![o] = u] /\ current' = [current EXCEPT ![u] = {o}]
       /\ asked' = Lost(Displaced(u))
  /\ UNCHANGED grants

\* The user's current stream is forgotten by its own end only.
Forget_Any(o) == {}
Forget(o) == current[whose[o]] \ {o}

\* The client goes away, or the response of a stream that was displaced has ended.
onclose(o) ==
  /\ stream[o] \in {"open", "ending"} /\ stream' = [stream EXCEPT ![o] = "ended"]
  /\ current' = [current EXCEPT ![whose[o]] = Forget(o)] /\ asked' = Lost({o})
  /\ UNCHANGED <<whose, grants>>

\* A tool call posted to a session, by its own user; the core's answer is written to its stream.
message(o, t) ==
  /\ validateAccessToken(t) /\ stream[o] = "open" /\ whose[o] = UserOf(t) /\ asked[o] # "runs"
  /\ asked' = [asked EXCEPT ![o] = "runs"] /\ UNCHANGED <<stream, whose, current, grants>>
askOracle(o) ==
  /\ asked[o] = "runs" /\ asked' = [asked EXCEPT ![o] = "answered"] /\ UNCHANGED <<stream, whose, current, grants>>

\* What is on disk and has not expired is a token again.
loadTokensFromDisk ==
  token' = [t \in Tokens |-> IF t \in disk \ clock THEN "valid" ELSE IF token[t] = "none" THEN "none" ELSE "gone"]

\* The process starts again: only the clients file and the tokens on disk are left.
initializeOAuthServer ==
  /\ registered' = {} /\ code' = [c \in Codes |-> IF code[c] = "none" THEN "none" ELSE "gone"]
  /\ loadTokensFromDisk
  /\ stream' = [o \in Opens |-> IF stream[o] = "none" THEN "none" ELSE "ended"]
  /\ current' = [u \in Users |-> {}] /\ asked' = Lost(Opens) /\ UNCHANGED <<grantee, disk, minted, clock, whose>>

Next ==
  \/ initializeOAuthServer
  \/ \E k \in Clients, c \in Codes : \/ registerClient(k) \/ approve(k, c)
                                     \/ \E p \in Clients, t \in Tokens : handleTokenRequest(k, c, {p}, t)
  \/ \E c \in Codes : Refused(c)
  \/ \E x \in Codes \cup Tokens : Expire(x)
  \/ \E t \in Tokens : TokenExpired(t) \/ \E o \in Opens : sse(o, t) \/ message(o, t)
  \/ \E o \in Opens : onclose(o) \/ askOracle(o)

Spec == Init /\ [][Next]_vars

---------------------------------------------------------------------------
\* A code is exchanged once, whatever is retried and restarted, and by the client it was made for.
OneTokenPerCode ==
  \A s, t \in Tokens : \A m \in minted[s] :
    /\ grantee[m[1]] = {m[2]}
    /\ s # t => \A n \in minted[t] : m[1] # n[1]

\* A user has one event stream at a time.
OneStreamPerUser == \A o, p \in Opens : (stream[o] = "open" /\ stream[p] = "open" /\ o # p) => whose[o] # whose[p]

\* Presenting a code again takes back what was issued for it.
ReplayRevokes ==
  [][\A c \in Codes, t \in Tokens :
       (Refused(c) /\ code[c] = "used" /\ \E m \in minted[t] : m[1] = c) => token'[t] # "valid"]_vars

\* A token that was answered outlives a restart of the connector.
TokensSurvive == \A t \in Tokens \ clock : minted[t] # {} => token[t] = "valid"
=============================================================================

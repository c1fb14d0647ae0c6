------------------------------ MODULE AuthGate ------------------------------
(***************************************************************************)
(* The forward-auth gate: the rules file an operator edits while the core   *)
(* runs (core/src/auth-rules.js), re-read when its stamp changes, and the   *)
(* judgement of /v2/auth/verify for each request a proxy asks about.        *)
(* The file may be replaced, half-written or gone when a request comes.     *)
(***************************************************************************)
EXTENDS Integers, Sequences, FiniteSets, SequencesExt

CONSTANTS
  Places,     \* a host and path, as the domain, resource and network matchers see them
  Users,
  Team,       \* the users of one group
  Docs,       \* the documents an operator may write: sequences of rules
  MaxEdits    \* bound: edits of the file

VARIABLES
  file,     \* gone, torn, or whole with the document it holds
  stamp,    \* its modification time and size: changes with every edit
  cache,    \* the stamp and the content of the last good read
  lastGood, \* the newest content a request was judged by the whole of
  answers   \* the latest answer, if the file was not edited since

vars == <<file, stamp, cache, lastGood, answers>>

Policies == {"bypass", "one_factor", "two_factor", "deny"}
Rule(place, subject, policy) == [place |-> place, subject |-> subject, policy |-> policy]
Rules == [place : Places \cup {"every"}, subject : Users \cup {"anyone", "team"},
          policy : Policies \cup {"unknown"}]

Anon == "anonymous"
Requests == [place : Places, user : Users \cup {Anon}, factors : {1, 2}, browser : BOOLEAN]

\* The file, or the last good read or write: there may be no document in it.
With(doc) == [is |-> "whole", doc |-> doc]
Gone == [is |-> "gone", doc |-> <<>>]
Half == [is |-> "torn", doc |-> <<>>]
Files == {With(d) : d \in Docs} \cup {Gone, Half}

TypeOK ==
  /\ file \in Files /\ stamp \in 0..MaxEdits
  /\ cache.stamp \in (-1)..MaxEdits /\ cache.file \in Files \ {Half}
  /\ \A a \in answers : a.answer \in {"admit", "login", "401", "403"}

---------------------------------------------------------------------------
\* ASMLTR_AUTH_ALLOW is unset: without a file, any session will do.
defaultDoc == <<>>

\* A rule with a policy that does not exist, or a bypass bound to a subject, is skipped.
normalise(doc) ==
  SelectSeq(doc, LAMBDA r : r.policy \in Policies /\ (r.policy = "bypass" => r.subject = "anyone"))

\* The rules in force when a request comes, and the cache it leaves.
Fresh_PathOnly == cache.file # Gone
Fresh == cache.stamp = stamp /\ cache.file # Gone
load ==
  IF file = Gone THEN defaultDoc
  ELSE IF file # Half /\ ~Fresh THEN normalise(file.doc)
  ELSE IF cache.file # Gone THEN normalise(cache.file.doc) ELSE defaultDoc
Loaded ==
  IF file = Gone THEN [stamp |-> -1, file |-> Gone]
  ELSE IF Fresh \/ file = Half THEN cache
  ELSE [stamp |-> stamp, file |-> file]

\* No identity, no subject: the rule cannot be evaluated and is passed over.
subjectMatches(subject, user) ==
  \/ subject = "anyone"
  \/ user # Anon /\ (subject = user \/ (subject = "team" /\ user \in Team))

Matches(r, place, user) == r.place \in {"every", place} /\ subjectMatches(r.subject, user)

\* First match wins; what no rule matches needs one factor.
evaluate(rules, place, user) ==
  LET hit == SelectInSeq(rules, LAMBDA r : Matches(r, place, user))
  IN IF hit = 0 THEN "one_factor" ELSE rules[hit].policy

\* /v2/auth/verify: an anonymous pass for bypass rules, then the session's own judgement.
Judge(rules, q) ==
  IF evaluate(rules, q.place, Anon) = "bypass" THEN "admit"
  ELSE LET challenge == IF q.browser THEN "login" ELSE "401"
           policy == evaluate(rules, q.place, q.user)
       IN IF q.user = Anon THEN challenge
          ELSE IF policy = "deny" THEN "403"
          ELSE IF policy = "two_factor" /\ q.factors < 2 THEN challenge
          ELSE "admit"

\* /v2/auth/rules?host=&path=&user=: how the request would be judged.
Probe(rules, q) == evaluate(rules, q.place, q.user)

---------------------------------------------------------------------------
Init ==
  /\ file = Gone /\ stamp = 0 /\ cache = [stamp |-> -1, file |-> Gone]
  /\ lastGood = Gone /\ answers = {}

Edit(f) ==
  /\ stamp < MaxEdits /\ stamp' = stamp + 1
  /\ file' = f /\ answers' = {}
  /\ UNCHANGED <<cache, lastGood>>

verify(q) ==
  /\ cache' = Loaded
  /\ answers' = {[q |-> q, answer |-> Judge(load, q)]}
  /\ lastGood' = IF file.is = "whole" THEN file ELSE lastGood
  /\ UNCHANGED <<file, stamp>>

Next ==
  \/ \E f \in Files : Edit(f)
  \/ \E q \in Requests : verify(q)

Spec == Init /\ [][Next]_vars

---------------------------------------------------------------------------
\* A request is judged by the rules in the file as it stands, however recently they were
\* written; whoever is admitted without a bypass has a session with the factors they ask.
JudgedByTheFile ==
  \A a \in answers : file.is = "whole" =>
    LET rules == normalise(file.doc) IN
      /\ a.answer = Judge(rules, a.q)
      /\ a.answer = "admit" /\ evaluate(rules, a.q.place, Anon) # "bypass" =>
           /\ a.q.user # Anon
           /\ evaluate(rules, a.q.place, a.q.user) = "two_factor" => a.q.factors = 2

\* While the file is half-written, the rules last read from it are the ones in force.
KeepsPreviousRules ==
  \A a \in answers : file = Half /\ lastGood # Gone => a.answer = Judge(normalise(lastGood.doc), a.q)

\* What the rules page says of a request is what the gate does with it.
ProbeAgrees ==
  \A a \in answers : file.is = "whole" /\ a.q.user # Anon =>
    (Probe(normalise(file.doc), a.q) = "deny") = (a.answer = "403")
=============================================================================

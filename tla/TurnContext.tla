---------------------------- MODULE TurnContext ----------------------------
(***************************************************************************)
(* What a turn's prompt carries besides the message itself: announcements   *)
(* from other sessions (the mailbox of core/src/sessions.js, drained by a   *)
(* cursor in the conversation's row), and two buffers of core/src/server.js *)
(* that live in memory only: messages observed without a reply, and posts   *)
(* other sessions made into this conversation.                             *)
(*                                                                         *)
(* Turns of one conversation hold its lock (module Turns), so each          *)
(* conversation has at most one, and an observed message is never taken in  *)
(* while one runs.  Announcements are drained before moderation, the        *)
(* buffers right before the engine run.                                    *)
(***************************************************************************)
EXTENDS Integers, Sequences, FiniteSets, TLAPS, SequenceTheorems

CONSTANTS
  Keys,             \* conversation keys
  People,           \* identities that send messages
  Chats,            \* the conversations on the surface "chat"; the others are on "mail"
  OBSERVE_MAX, SELFSENT_MAX, \* what each buffer keeps
  MaxDue,           \* the cap on announcements in one prompt
  MaxAnnouncements, \* bound: announcements posted
  MaxNotes,         \* bound: notes pushed per conversation and buffer
  Authors           \* who posts announcements: these and other conversations, operators

Buffers == {"observed", "selfSent"}
Window == [observed |-> OBSERVE_MAX, selfSent |-> SELFSENT_MAX]
Surface(k) == IF k \in Chats THEN "chat" ELSE "mail"
Everyone == "*"
Targets == {Everyone} \cup Keys \cup {Surface(k) : k \in Keys} \cup People

ASSUME Bounds ==
  /\ MaxDue \in Nat \ {0}
  /\ MaxAnnouncements \in Nat
  /\ MaxNotes \in Nat
  /\ OBSERVE_MAX \in Nat \ {0} /\ SELFSENT_MAX \in Nat \ {0}
  /\ Keys \subseteq Authors

VARIABLES
  announcements,  \* the mailbox, in order of id
  expired,        \* ids past their time to live
  row,            \* the conversation's row: is it there, last_announce_id
  phase,          \* the conversation's turn
  drained,        \* the announcements in the turn's system prompt
  buffer,         \* the observed and self-sent buffers: numbered notes
  pushed,         \* how many notes each buffer was ever given
  told,           \* history: announcements the session's engine runs were given, run by run
  heard           \* history: notes engine runs were given, in order

vars == <<announcements, expired, row, phase, drained, buffer, pushed, told, heard>>

Ids == 1..MaxAnnouncements
Notes == 1..MaxNotes

TypeOK ==
  /\ announcements \in Seq([target : Targets, from : Authors])
  /\ Len(announcements) <= MaxAnnouncements
  /\ expired \in SUBSET Ids
  /\ row \in [Keys -> [here : BOOLEAN, cursor : 0..MaxAnnouncements]]
  /\ phase \in [Keys -> {"idle", "moderating", "running"}]
  /\ drained \in [Keys -> SUBSET Ids]
  /\ buffer \in [Keys -> [Buffers -> Seq(Notes)]]
  /\ pushed \in [Keys -> [Buffers -> 0..MaxNotes]]
  /\ told \in [Keys -> Seq(SUBSET Ids)]
  /\ heard \in [Keys -> [Buffers -> Seq(Notes)]]

NoRow == [here |-> FALSE, cursor |-> 0]
Empty == [b \in Buffers |-> <<>>]

Init ==
  /\ announcements = <<>>
  /\ expired = {}
  /\ row = [k \in Keys |-> NoRow]
  /\ phase = [k \in Keys |-> "idle"]
  /\ drained = [k \in Keys |-> {}]
  /\ buffer = [k \in Keys |-> Empty]
  /\ pushed = [k \in Keys |-> [b \in Buffers |-> 0]]
  /\ told = [k \in Keys |-> <<>>]
  /\ heard = [k \in Keys |-> Empty]

---------------------------------------------------------------------------
(* Helpers.  A definition with a suffix after _ is the code with one mistake. *)

\* _targetMatches
Matches(target, k, person) == target \in {Everyone, k, Surface(k), person}

\* slice(-n): the n newest.
Newest(S, n) == {a \in S : Cardinality({b \in S : b > a}) < n}

Due_CursorInclusive(k, person) ==
  Newest({a \in 1..Len(announcements) :
            /\ a >= row[k].cursor
            /\ a \notin expired
            /\ announcements[a].from # k
            /\ Matches(announcements[a].target, k, person)}, MaxDue)

\* drainAnnouncements: unseen, live, another session's, for this conversation.
Due(k, person) ==
  Newest({a \in 1..Len(announcements) :
            /\ a > row[k].cursor
            /\ a \notin expired
            /\ announcements[a].from # k
            /\ Matches(announcements[a].target, k, person)}, MaxDue)

MaxId_Next == Len(announcements) + 1
MaxId == Len(announcements)

\* while (arr.length > max) arr.shift()
Slid(s, n) == IF Len(s) <= n THEN s ELSE SubSeq(s, Len(s) - n + 1, Len(s))

Push(k, b) ==
  /\ pushed[k][b] < MaxNotes
  /\ pushed' = [pushed EXCEPT ![k][b] = @ + 1]
  /\ buffer' = [buffer EXCEPT ![k][b] = Slid(Append(@, pushed[k][b] + 1), Window[b])]

---------------------------------------------------------------------------
(* The turn.                                                                *)

\* handle() up to moderation.  The cursor moves past every announcement there is;
\* the UPDATE misses when the conversation has no row yet.
Begin(k, person) ==
  LET due == Due(k, person) IN
  /\ phase[k] = "idle"
  /\ phase' = [phase EXCEPT ![k] = "moderating"]
  /\ drained' = [drained EXCEPT ![k] = due]
  /\ row' = [row EXCEPT ![k].cursor = IF row[k].here THEN MaxId ELSE @]
  /\ UNCHANGED <<announcements, expired, buffer, pushed, told, heard>>

\* Moderation blocks the message, or the turn was stopped.
EndInModeration(k) ==
  /\ phase[k] = "moderating"
  /\ phase' = [phase EXCEPT ![k] = "idle"]
  /\ drained' = [drained EXCEPT ![k] = {}]
  /\ UNCHANGED <<announcements, expired, row, buffer, pushed, told, heard>>

DrainBuffers_NotCleared(k) == UNCHANGED buffer
DrainBuffers(k) == buffer' = [buffer EXCEPT ![k] = Empty]

\* resolveForTurn makes the row, its cursor at 0 whatever the turn drained; drainSelfSent
\* and drainObserved empty the buffers.  (A later run without announcements adds nothing
\* to the history.)
Run(k) ==
  /\ phase[k] = "moderating"
  /\ phase' = [phase EXCEPT ![k] = "running"]
  /\ row' = [row EXCEPT ![k].here = TRUE]
  /\ DrainBuffers(k)
  /\ heard' = [heard EXCEPT ![k] = [b \in Buffers |-> @[b] \o buffer[k][b]]]
  /\ told' = [told EXCEPT ![k] = IF @ = <<>> \/ drained[k] # {} THEN Append(@, drained[k]) ELSE @]
  /\ drained' = [drained EXCEPT ![k] = {}]
  /\ UNCHANGED <<announcements, expired, pushed>>

\* The run returns, fails or is stopped.
Finish(k) ==
  /\ phase[k] = "running"
  /\ phase' = [phase EXCEPT ![k] = "idle"]
  /\ UNCHANGED <<announcements, expired, row, drained, buffer, pushed, told, heard>>

---------------------------------------------------------------------------
(* The writers.                                                             *)

\* POST /v2/announce
Announce(target, from) ==
  /\ Len(announcements) < MaxAnnouncements
  /\ announcements' = Append(announcements, [target |-> target, from |-> from])
  /\ UNCHANGED <<expired, row, phase, drained, buffer, pushed, told, heard>>

Expire(a) ==
  /\ a \in 1..Len(announcements) \ expired
  /\ expired' = expired \cup {a}
  /\ UNCHANGED <<announcements, row, phase, drained, buffer, pushed, told, heard>>

\* An observe-only message, or one of a sender the trust store observes: dispatched
\* like any other, so it waits for the conversation's turn.
Observe(k) ==
  /\ phase[k] = "idle"
  /\ Push(k, "observed")
  /\ UNCHANGED <<announcements, expired, row, phase, drained, told, heard>>

\* POST /v2/send from another session, once the connector delivered it.
CrossPost(k) ==
  /\ Push(k, "selfSent")
  /\ UNCHANGED <<announcements, expired, row, phase, drained, told, heard>>

---------------------------------------------------------------------------
(* Forget and restart.                                                      *)

\* The next run is a new session's.
Forget(k) ==
  /\ row' = [row EXCEPT ![k] = NoRow]
  /\ buffer' = [buffer EXCEPT ![k]["observed"] = <<>>]
  /\ told' = [told EXCEPT ![k] = <<>>]
  /\ UNCHANGED <<announcements, expired, phase, drained, pushed, heard>>

\* The core restarts: the database stays, turns and buffers are gone.
CoreRestart ==
  /\ phase' = [k \in Keys |-> "idle"]
  /\ drained' = [k \in Keys |-> {}]
  /\ buffer' = [k \in Keys |-> Empty]
  /\ UNCHANGED <<announcements, expired, row, pushed, told, heard>>

Next ==
  \/ \E k \in Keys :
       \/ \E p \in People : Begin(k, p)
       \/ EndInModeration(k) \/ Run(k) \/ Finish(k)
       \/ Observe(k) \/ CrossPost(k) \/ Forget(k)
  \/ \E t \in Targets, f \in Authors : Announce(t, f)
  \/ \E a \in Ids : Expire(a)
  \/ CoreRestart

Spec == Init /\ [][Next]_vars

---------------------------------------------------------------------------
(* Properties.                                                              *)

Increasing(s) == \A m, n \in DOMAIN s : m < n => s[m] < s[n]

\* From its third run on a session is told only announcements later than all it was told
\* before, whatever stops, restarts, blocked messages and forgets come between.  The first
\* run is one of a conversation without a row, whose cursor stays behind: the second may
\* be told the same again.
ToldInOrder ==
  \A k \in Keys : \A m, n \in DOMAIN told[k] :
    m < n /\ n > 2 => \A a \in told[k][m], b \in told[k][n] : a < b

\* "each is evaluated once": no two runs of a session are told the same announcement.
ToldOnce ==
  \A k \in Keys : \A m, n \in DOMAIN told[k] : m # n => told[k][m] \cap told[k][n] = {}

\* Observed and cross-posted notes reach the engine at most once, in order.
HeardOnceInOrder == \A k \in Keys, b \in Buffers : Increasing(heard[k][b])

\* The sliding window drops the oldest: what waits are the newest notes, without a gap.
NewestWait ==
  \A k \in Keys, b \in Buffers :
    /\ Len(buffer[k][b]) <= Window[b]
    /\ \A n \in DOMAIN buffer[k][b] : buffer[k][b][n] = pushed[k][b] - Len(buffer[k][b]) + n

\* The memory buffers, filled from two kinds of event while turns drain them: nothing is
\* heard twice or out of order, and only the oldest notes are ever lost.
NotesInOrder == HeardOnceInOrder /\ NewestWait

\* "guaranteed-on-next-activity awareness": no announcement that a turn took, and that the
\* cursor will keep every later turn from taking, ends without an engine run given it.
GuaranteedOnNextActivity ==
  [][\A k \in Keys : drained[k] # {} /\ drained'[k] = {} =>
       told'[k] # told[k] \/ \A a \in drained[k] : a > row'[k].cursor]_vars

---------------------------------------------------------------------------
(* Proofs, for every set of conversations, senders and caps, and however     *)
(* many announcements and notes there are.  First the inductive invariant.   *)

\* One conversation's row, turn, drained announcements and history, len announcements
\* being posted.  A turn that found the row drained nothing its cursor has not passed; a
\* session's second run and all later ones leave the cursor past what it was told.
ToldRight(r, ph, d, t, len) ==
  /\ r.cursor <= len
  /\ r.here <=> t # <<>>
  /\ \A a \in d : a <= len
  /\ \A n \in DOMAIN t : \A a \in t[n] : a <= len
  /\ Len(t) > 1 \/ (ph = "moderating" /\ r.here) => \A n \in DOMAIN t : \A a \in t[n] : a <= r.cursor
  /\ ph = "moderating" /\ r.here => \A a \in d : a <= r.cursor
  /\ ph = "moderating" /\ Len(t) > 1 => \A n \in DOMAIN t : \A a \in t[n], b \in d : a < b
  /\ \A m, n \in DOMAIN t : m < n /\ n > 2 => \A a \in t[m], b \in t[n] : a < b

ToldInv == \A k \in Keys : ToldRight(row[k], phase[k], drained[k], told[k], Len(announcements))

\* What was heard is older than what waits, and what waits ends at the last note pushed.
HeardInv ==
  \A k \in Keys, b \in Buffers :
    /\ Len(buffer[k][b]) <= pushed[k][b]
    /\ \A n \in DOMAIN heard[k][b] : heard[k][b][n] <= pushed[k][b] - Len(buffer[k][b])

IInv ==
  /\ TypeOK
  /\ ToldInv
  /\ HeardInv /\ HeardOnceInOrder /\ NewestWait

---------------------------------------------------------------------------
(* Lemmas about the helpers.                                                *)

\* A turn drains posted announcements past the row's cursor.
LEMMA DueIs ==
  ASSUME TypeOK, NEW k \in Keys, NEW person
  PROVE  /\ Due(k, person) \in SUBSET Ids
         /\ \A a \in Due(k, person) : a <= Len(announcements) /\ a > row[k].cursor
  <1>1. \A a \in Due(k, person) : a \in 1..Len(announcements) /\ a > row[k].cursor
    BY DEF Due, Newest
  <1>2. Len(announcements) \in Nat /\ Len(announcements) <= MaxAnnouncements /\ MaxAnnouncements \in Nat
    BY Bounds DEF TypeOK
  <1>3. 1..Len(announcements) \subseteq Ids
    BY <1>2 DEF Ids
  <1>. QED BY <1>1, <1>2, <1>3

\* A turn that begins drains what lies past the cursor, and moves the cursor past it.
LEMMA BeginTold ==
  ASSUME NEW r \in [here : BOOLEAN, cursor : 0..MaxAnnouncements], NEW ph, NEW d, NEW e \in SUBSET Ids,
         NEW t \in Seq(SUBSET Ids), NEW len \in Nat, ToldRight(r, ph, d, t, len),
         \A a \in e : a <= len /\ a > r.cursor
  PROVE  ToldRight([r EXCEPT !.cursor = IF r.here THEN len ELSE @], "moderating", e, t, len)
  <1> DEFINE q == [r EXCEPT !.cursor = IF r.here THEN len ELSE @]
  <1>1. q.here = r.here /\ q.cursor = (IF r.here THEN len ELSE r.cursor) /\ r.cursor \in Nat
    BY Bounds
  <1>2. /\ \A a \in Ids : a \in Nat
        /\ \A n \in DOMAIN t : t[n] \in SUBSET Ids
        /\ Len(t) \in Nat /\ DOMAIN t = 1..Len(t)
    BY Bounds DEF Ids
  <1> HIDE DEF q
  <1>3. Len(t) > 1 => r.here
    BY <1>2 DEF ToldRight
  <1>4. \A n \in DOMAIN t : \A a \in t[n] : a <= len
    BY DEF ToldRight
  <1>5. Len(t) > 1 => \A n \in DOMAIN t : \A a \in t[n], b \in e : a < b
    <2> SUFFICES ASSUME Len(t) > 1, NEW n \in DOMAIN t, NEW a \in t[n], NEW b \in e PROVE a < b
      OBVIOUS
    <2>1. a <= r.cursor /\ b > r.cursor /\ a \in Nat /\ b \in Nat
      BY <1>2 DEF ToldRight
    <2>. QED BY <1>1, <2>1
  <1>6. \A m, n \in DOMAIN t : m < n /\ n > 2 => \A a \in t[m], b \in t[n] : a < b
    BY DEF ToldRight
  <1>7. /\ q.cursor <= len
        /\ q.here <=> t # <<>>
        /\ q.here => q.cursor = len
    BY <1>1 DEF ToldRight
  <1>8. \A a \in e : a <= len
    OBVIOUS
  <1>9. ToldRight(q, "moderating", e, t, len)
    BY <1>1, <1>3, <1>4, <1>5, <1>6, <1>7, <1>8 DEF ToldRight
  <1>. QED BY <1>9 DEF q

\* A run is told what its turn drained.
LEMMA RunTold ==
  ASSUME NEW r \in [here : BOOLEAN, cursor : 0..MaxAnnouncements], NEW d \in SUBSET Ids,
         NEW t \in Seq(SUBSET Ids), NEW len \in Nat, ToldRight(r, "moderating", d, t, len)
  PROVE  LET u == IF t = <<>> \/ d # {} THEN Append(t, d) ELSE t
         IN /\ u \in Seq(SUBSET Ids)
            /\ ToldRight([r EXCEPT !.here = TRUE], "running", {}, u, len)
  <1> DEFINE u == IF t = <<>> \/ d # {} THEN Append(t, d) ELSE t
             q == [r EXCEPT !.here = TRUE]
  <1>1. q.here = TRUE /\ q.cursor = r.cursor /\ r.cursor \in Nat
    BY Bounds
  <1>2. Len(t) \in Nat /\ DOMAIN t = 1..Len(t) /\ (t = <<>> <=> Len(t) = 0)
    OBVIOUS
  <1>3. CASE t = <<>> \/ d # {}
    <2>1. /\ u \in Seq(SUBSET Ids) /\ Len(u) = Len(t) + 1 /\ DOMAIN u = 1..Len(t) + 1 /\ u # <<>>
          /\ \A n \in 1..Len(t) : u[n] = t[n]
          /\ u[Len(t) + 1] = d
      BY <1>2, <1>3
    <2> HIDE DEF u, q
    <2>2. \A n \in DOMAIN u : (n \in DOMAIN t /\ u[n] = t[n]) \/ (n = Len(t) + 1 /\ u[n] = d)
      BY <1>2, <2>1
    <2>3. \A n \in DOMAIN u : \A a \in u[n] : a <= len
      BY <2>2 DEF ToldRight
    <2>4. Len(u) > 1 => \A n \in DOMAIN u : \A a \in u[n] : a <= q.cursor
      <3>1. Len(u) > 1 => r.here
        BY <1>2, <2>1 DEF ToldRight
      <3>. QED BY <1>1, <2>2, <3>1 DEF ToldRight
    <2>5. \A m, n \in DOMAIN u : m < n /\ n > 2 => \A a \in u[m], b \in u[n] : a < b
      <3> SUFFICES ASSUME NEW m \in DOMAIN u, NEW n \in DOMAIN u, m < n, n > 2, NEW a \in u[m], NEW b \in u[n]
                   PROVE  a < b
        OBVIOUS
      <3>1. m \in 1..Len(t) /\ u[m] = t[m]
        BY <1>2, <2>1
      <3>2. CASE n \in 1..Len(t)
        BY <1>2, <2>1, <3>1, <3>2 DEF ToldRight
      <3>3. CASE n = Len(t) + 1
        <4>1. Len(t) > 1 /\ b \in d
          BY <1>2, <2>1, <3>3
        <4>. QED BY <1>2, <3>1, <4>1 DEF ToldRight
      <3>. QED BY <1>2, <2>1, <3>2, <3>3
    <2>6. ToldRight(q, "running", {}, u, len)
      BY <1>1, <2>1, <2>3, <2>4, <2>5 DEF ToldRight
    <2>. QED BY <2>1, <2>6 DEF u, q
  <1>4. CASE ~(t = <<>> \/ d # {})
    <2>1. u = t
      BY <1>4
    <2> HIDE DEF u, q
    <2>2. ToldRight(q, "running", {}, t, len)
      BY <1>1, <1>2, <1>4 DEF ToldRight
    <2>. QED BY <2>1, <2>2 DEF u, q
  <1>. QED BY <1>3, <1>4

\* More announcements disturb nothing.
LEMMA LaterTold ==
  ASSUME NEW r \in [here : BOOLEAN, cursor : 0..MaxAnnouncements], NEW ph, NEW d \in SUBSET Ids,
         NEW t \in Seq(SUBSET Ids), NEW len \in Nat, ToldRight(r, ph, d, t, len)
  PROVE  ToldRight(r, ph, d, t, len + 1)
  <1>1. /\ \A a \in Ids : a \in Nat
        /\ \A n \in DOMAIN t : t[n] \in SUBSET Ids
        /\ r.cursor \in Nat
    BY Bounds DEF Ids
  <1>2. \A a \in Nat : a <= len => a <= len + 1
    OBVIOUS
  <1>3. /\ r.cursor <= len + 1
        /\ \A a \in d : a <= len + 1
        /\ \A n \in DOMAIN t : \A a \in t[n] : a <= len + 1
    BY <1>1, <1>2 DEF ToldRight
  <1>. QED BY <1>3 DEF ToldRight

\* The window drops the oldest notes: what stays is the end of the list.
LEMMA SlidIs ==
  ASSUME NEW T, NEW s \in Seq(T), NEW w \in Nat
  PROVE  /\ Slid(s, w) \in Seq(T)
         /\ Len(Slid(s, w)) <= w /\ Len(Slid(s, w)) <= Len(s)
         /\ \A n \in 1..Len(Slid(s, w)) : Slid(s, w)[n] = s[Len(s) - Len(Slid(s, w)) + n]
  <1>0. Len(s) \in Nat /\ \A i \in 1..Len(s) : s[i] \in T
    OBVIOUS
  <1>1. CASE Len(s) <= w
    BY <1>0, <1>1 DEF Slid
  <1>2. CASE Len(s) > w
    <2> DEFINE t == SubSeq(s, Len(s) - w + 1, Len(s))
    <2>1. Slid(s, w) = t
      BY <1>0, <1>2 DEF Slid
    <2>2. /\ t \in Seq(T) /\ Len(t) = w
          /\ \A i \in 1..Len(t) : t[i] = s[Len(s) - w + 1 + i - 1]
      BY <1>0, <1>2, SubSeqProperties
    <2>3. \A i \in 1..w : Len(s) - w + 1 + i - 1 = Len(s) - w + i
      BY <1>0
    <2> HIDE DEF t
    <2>. QED BY <1>0, <1>2, <2>1, <2>2, <2>3
  <1>. QED BY <1>0, <1>1, <1>2

\* Two increasing lists, the second behind the first, make an increasing one.
LEMMA JoinedIncreasing ==
  ASSUME NEW s \in Seq(Nat), NEW t \in Seq(Nat), NEW c \in Nat, Increasing(s), Increasing(t),
         \A n \in DOMAIN s : s[n] <= c, \A n \in DOMAIN t : t[n] > c
  PROVE  Increasing(s \o t)
  <1>1. /\ Len(s) \in Nat /\ Len(t) \in Nat /\ DOMAIN s = 1..Len(s) /\ DOMAIN t = 1..Len(t)
        /\ \A i \in 1..Len(s) : s[i] \in Nat
        /\ \A i \in 1..Len(t) : t[i] \in Nat
    OBVIOUS
  <1>2. /\ s \o t \in Seq(Nat) /\ Len(s \o t) = Len(s) + Len(t)
        /\ \A i \in 1..Len(s) + Len(t) : (s \o t)[i] = IF i <= Len(s) THEN s[i] ELSE t[i - Len(s)]
    BY ConcatProperties
  <1>3. DOMAIN (s \o t) = 1..Len(s) + Len(t)
    BY <1>2
  <1> SUFFICES ASSUME NEW m \in 1..Len(s) + Len(t), NEW n \in 1..Len(s) + Len(t), m < n
               PROVE  (s \o t)[m] < (s \o t)[n]
    BY <1>3 DEF Increasing
  <1>4. CASE n <= Len(s)
    <2>1. m \in DOMAIN s /\ n \in DOMAIN s
      BY <1>1, <1>4
    <2>2. (s \o t)[m] = s[m] /\ (s \o t)[n] = s[n]
      BY <1>1, <1>2, <1>4
    <2>. QED BY <2>1, <2>2 DEF Increasing
  <1>5. CASE m <= Len(s) /\ n > Len(s)
    <2>1. n - Len(s) \in 1..Len(t) /\ m \in 1..Len(s)
      BY <1>1, <1>5
    <2>2. (s \o t)[m] = s[m] /\ (s \o t)[n] = t[n - Len(s)]
      BY <1>1, <1>2, <1>5
    <2>3. s[m] \in Nat /\ t[n - Len(s)] \in Nat /\ s[m] <= c /\ t[n - Len(s)] > c
      BY <1>1, <2>1
    <2>. QED BY <2>2, <2>3
  <1>6. CASE m > Len(s)
    <2>1. m - Len(s) \in 1..Len(t) /\ n - Len(s) \in 1..Len(t) /\ m - Len(s) < n - Len(s)
      BY <1>1, <1>6
    <2>2. (s \o t)[m] = t[m - Len(s)] /\ (s \o t)[n] = t[n - Len(s)]
      BY <1>1, <1>2, <1>6
    <2>. QED BY <1>1, <2>1, <2>2 DEF Increasing
  <1>. QED BY <1>1, <1>4, <1>5, <1>6

---------------------------------------------------------------------------
(* The invariant under each action.                                         *)

\* The invariant holds before anything was said.
LEMMA Initially == Init => IInv
  <1> SUFFICES ASSUME Init PROVE IInv
    OBVIOUS
  <1> USE DEF Init
  <1>1. TypeOK
    BY Bounds DEF TypeOK, NoRow, Empty
  <1>2. ToldInv
    <2>1. Len(<<>>) = 0 /\ DOMAIN <<>> = {}
      OBVIOUS
    <2>. QED BY <2>1 DEF ToldInv, ToldRight, NoRow
  <1>3. HeardInv /\ HeardOnceInOrder /\ NewestWait
    BY Bounds DEF HeardInv, HeardOnceInOrder, NewestWait, Empty, Increasing, Buffers, Window
  <1>. QED BY <1>1, <1>2, <1>3 DEF IInv

\* The buffers' part of the invariant reads nothing else.
LEMMA BuffersApart ==
  ASSUME IInv, UNCHANGED <<buffer, pushed, heard>>
  PROVE  HeardInv' /\ HeardOnceInOrder' /\ NewestWait'
  BY DEF IInv, HeardInv, HeardOnceInOrder, NewestWait

\* The mailbox's part of the invariant reads nothing else.
LEMMA MailboxApart ==
  ASSUME IInv, UNCHANGED <<announcements, row, phase, drained, told>>
  PROVE  ToldInv'
  BY DEF IInv, ToldInv

\* A turn begins.
LEMMA BeginKeeps == ASSUME IInv, NEW k \in Keys, NEW person \in People, Begin(k, person) PROVE IInv'
  <1> DEFINE due == Due(k, person)
             q == [row[k] EXCEPT !.cursor = IF row[k].here THEN Len(announcements) ELSE @]
  <1>1. /\ phase' = [phase EXCEPT ![k] = "moderating"]
        /\ drained' = [drained EXCEPT ![k] = due]
        /\ row' = [row EXCEPT ![k].cursor = IF row[k].here THEN MaxId ELSE @]
        /\ UNCHANGED <<announcements, expired, buffer, pushed, told, heard>>
    BY DEF Begin
  <1>2. due \in SUBSET Ids /\ \A a \in due : a <= Len(announcements) /\ a > row[k].cursor
    BY DueIs DEF IInv
  <1> HIDE DEF due
  <1>3. /\ TypeOK /\ ToldInv
        /\ row \in [Keys -> [here : BOOLEAN, cursor : 0..MaxAnnouncements]]
        /\ told \in [Keys -> Seq(SUBSET Ids)] /\ drained \in [Keys -> SUBSET Ids]
        /\ phase \in [Keys -> {"idle", "moderating", "running"}]
        /\ Len(announcements) \in Nat /\ Len(announcements) \in 0..MaxAnnouncements
    BY Bounds DEF IInv, TypeOK
  <1>4. row'[k] = q /\ q \in [here : BOOLEAN, cursor : 0..MaxAnnouncements] /\ row' = [row EXCEPT ![k] = q]
    BY <1>1, <1>3 DEF MaxId
  <1>5. TypeOK'
    <2> HIDE DEF q
    <2>1. row' \in [Keys -> [here : BOOLEAN, cursor : 0..MaxAnnouncements]]
      BY <1>3, <1>4
    <2>2. drained' \in [Keys -> SUBSET Ids] /\ phase' \in [Keys -> {"idle", "moderating", "running"}]
      BY <1>1, <1>2, <1>3
    <2>. QED BY <1>1, <1>3, <2>1, <2>2 DEF TypeOK
  <1>6. ToldRight(q, "moderating", due, told[k], Len(announcements))
    <2>1. row[k] \in [here : BOOLEAN, cursor : 0..MaxAnnouncements] /\ told[k] \in Seq(SUBSET Ids)
      BY <1>3
    <2>2. ToldRight(row[k], phase[k], drained[k], told[k], Len(announcements))
      BY <1>3 DEF ToldInv
    <2>. QED BY <1>2, <1>3, <2>1, <2>2, BeginTold
  <1> HIDE DEF q
  <1>7. ToldInv'
    <2> SUFFICES ASSUME NEW i \in Keys
                 PROVE  ToldRight(row'[i], phase'[i], drained'[i], told'[i], Len(announcements'))
      BY DEF ToldInv
    <2>1. CASE i = k
      BY <1>1, <1>3, <1>4, <1>6, <2>1
    <2>2. CASE i # k
      BY <1>1, <1>3, <1>4, <2>2 DEF ToldInv
    <2>. QED BY <2>1, <2>2
  <1>. QED BY <1>1, <1>5, <1>7, BuffersApart DEF IInv

\* Emptying some of the buffers loses notes, but neither reorders nor repeats any.
LEMMA EmptiedKeep ==
  ASSUME IInv, buffer' \in [Keys -> [Buffers -> Seq(Notes)]], UNCHANGED <<pushed, heard>>,
         \A k \in Keys, b \in Buffers : buffer'[k][b] = buffer[k][b] \/ buffer'[k][b] = <<>>
  PROVE  HeardInv' /\ NewestWait'
  <1> SUFFICES ASSUME NEW k \in Keys, NEW b \in Buffers
               PROVE  /\ Len(buffer'[k][b]) <= pushed[k][b]
                      /\ \A n \in DOMAIN heard[k][b] : heard[k][b][n] <= pushed[k][b] - Len(buffer'[k][b])
                      /\ Len(buffer'[k][b]) <= Window[b]
                      /\ \A n \in DOMAIN buffer'[k][b] :
                           buffer'[k][b][n] = pushed[k][b] - Len(buffer'[k][b]) + n
    BY DEF HeardInv, NewestWait
  <1>1. /\ HeardInv /\ NewestWait /\ pushed[k][b] \in Nat /\ Window[b] \in Nat
        /\ heard[k][b] \in Seq(Notes) /\ buffer[k][b] \in Seq(Notes) /\ \A n \in Notes : n \in Nat
    BY Bounds DEF IInv, TypeOK, Window, Buffers, Notes
  <1>2. CASE buffer'[k][b] = buffer[k][b]
    BY <1>1, <1>2 DEF HeardInv, NewestWait
  <1>3. CASE buffer'[k][b] = <<>>
    <2>1. Len(buffer'[k][b]) = 0 /\ DOMAIN buffer'[k][b] = {}
      BY <1>3
    <2>2. \A n \in DOMAIN heard[k][b] : heard[k][b][n] \in Nat
      BY <1>1
    <2>3. Len(buffer[k][b]) \in Nat
      BY <1>1
    <2>4. \A n \in DOMAIN heard[k][b] : heard[k][b][n] <= pushed[k][b] - Len(buffer[k][b])
      BY <1>1 DEF HeardInv
    <2>5. \A h \in Nat : h <= pushed[k][b] - Len(buffer[k][b]) => h <= pushed[k][b] - 0
      BY <1>1, <2>3
    <2>6. \A n \in DOMAIN heard[k][b] : heard[k][b][n] <= pushed[k][b] - 0
      BY <2>2, <2>4, <2>5
    <2>7. 0 <= pushed[k][b] /\ 0 <= Window[b]
      BY <1>1
    <2>. QED BY <2>1, <2>6, <2>7
  <1>. QED BY <1>2, <1>3

\* A run is given what waits in the buffers, and empties them.
LEMMA RunKeeps == ASSUME IInv, NEW k \in Keys, Run(k) PROVE IInv'
  <1>1. /\ phase' = [phase EXCEPT ![k] = "running"]
        /\ row' = [row EXCEPT ![k].here = TRUE]
        /\ buffer' = [buffer EXCEPT ![k] = Empty]
        /\ heard' = [heard EXCEPT ![k] = [b \in Buffers |-> @[b] \o buffer[k][b]]]
        /\ told' = [told EXCEPT ![k] = IF @ = <<>> \/ drained[k] # {} THEN Append(@, drained[k]) ELSE @]
        /\ drained' = [drained EXCEPT ![k] = {}]
        /\ phase[k] = "moderating"
        /\ UNCHANGED <<announcements, expired, pushed>>
    BY DEF Run, DrainBuffers
  <1>2. /\ TypeOK /\ HeardInv /\ HeardOnceInOrder /\ NewestWait
        /\ row \in [Keys -> [here : BOOLEAN, cursor : 0..MaxAnnouncements]]
        /\ buffer \in [Keys -> [Buffers -> Seq(Notes)]]
        /\ heard \in [Keys -> [Buffers -> Seq(Notes)]]
        /\ pushed \in [Keys -> [Buffers -> 0..MaxNotes]]
        /\ \A n \in Notes : n \in Nat
        /\ ToldInv /\ drained \in [Keys -> SUBSET Ids] /\ told \in [Keys -> Seq(SUBSET Ids)]
        /\ phase \in [Keys -> {"idle", "moderating", "running"}] /\ Len(announcements) \in Nat
    BY Bounds DEF IInv, TypeOK, Notes
  <1>3. ASSUME NEW b \in Buffers
        PROVE  /\ heard'[k][b] = heard[k][b] \o buffer[k][b] /\ buffer'[k][b] = <<>>
               /\ heard'[k][b] \in Seq(Notes)
               /\ Increasing(heard'[k][b])
               /\ \A n \in DOMAIN heard'[k][b] : heard'[k][b][n] <= pushed[k][b]
    <2> DEFINE s == heard[k][b]
               t == buffer[k][b]
               c == pushed[k][b] - Len(t)
    <2>1. heard'[k][b] = s \o t /\ buffer'[k][b] = <<>>
      BY <1>1, <1>2 DEF Empty
    <2>2. /\ s \in Seq(Notes) /\ t \in Seq(Notes) /\ s \in Seq(Nat) /\ t \in Seq(Nat)
          /\ Len(s) \in Nat /\ Len(t) \in Nat /\ DOMAIN s = 1..Len(s) /\ DOMAIN t = 1..Len(t)
      <3>1. s \in Seq(Notes) /\ t \in Seq(Notes)
        BY <1>2
      <3>2. \A u \in Seq(Notes) : u \in Seq(Nat) /\ Len(u) \in Nat /\ DOMAIN u = 1..Len(u)
        BY <1>2
      <3>. QED BY <3>1, <3>2
    <2>3. pushed[k][b] \in Nat /\ Len(t) <= pushed[k][b] /\ c \in Nat
      <3>1. pushed[k][b] \in Nat
        BY <1>2, Bounds
      <3>2. Len(t) <= pushed[k][b]
        BY <1>2 DEF HeardInv
      <3>. QED BY <2>2, <3>1, <3>2
    <2>4. \A n \in 1..Len(t) : t[n] = c + n
      <3>1. \A n \in DOMAIN t : t[n] = pushed[k][b] - Len(t) + n
        BY <1>2 DEF NewestWait
      <3>. QED BY <2>2, <3>1
    <2>5. \A n \in DOMAIN s : s[n] <= c
      BY <1>2 DEF HeardInv
    <2>6. Increasing(s)
      BY <1>2 DEF HeardOnceInOrder
    <2> HIDE DEF s, t, c
    <2>7. Increasing(t) /\ \A n \in DOMAIN t : t[n] > c
      BY <2>2, <2>3, <2>4 DEF Increasing
    <2>8. Increasing(s \o t)
      BY <2>2, <2>3, <2>5, <2>6, <2>7, JoinedIncreasing
    <2>9. /\ s \o t \in Seq(Notes) /\ Len(s \o t) = Len(s) + Len(t)
          /\ \A i \in 1..Len(s) + Len(t) : (s \o t)[i] = IF i <= Len(s) THEN s[i] ELSE t[i - Len(s)]
      BY <2>2, ConcatProperties
    <2>10. c + Len(t) = pushed[k][b]
      BY <2>2, <2>3 DEF c
    <2>11. \A n \in 1..Len(s) + Len(t) : (s \o t)[n] <= pushed[k][b]
      <3> TAKE n \in 1..Len(s) + Len(t)
      <3>1. CASE n <= Len(s)
        <4>1. n \in DOMAIN s /\ s[n] \in Nat /\ s[n] <= c
          BY <2>2, <2>5, <3>1
        <4>. QED BY <2>2, <2>3, <2>9, <2>10, <3>1, <4>1
      <3>2. CASE n > Len(s)
        <4>1. n - Len(s) \in 1..Len(t)
          BY <2>2, <3>2
        <4>2. (s \o t)[n] = c + (n - Len(s))
          BY <2>2, <2>4, <2>9, <3>2, <4>1
        <4>. QED BY <2>2, <2>3, <2>10, <4>1, <4>2
      <3>. QED BY <2>2, <3>1, <3>2
    <2>12. DOMAIN (s \o t) = 1..Len(s) + Len(t)
      BY <2>9
    <2>. QED BY <2>1, <2>8, <2>9, <2>11, <2>12 DEF s, t
  <1>4. \A i \in Keys \ {k} : buffer'[i] = buffer[i] /\ heard'[i] = heard[i]
    BY <1>1, <1>2
  <1> DEFINE u == IF told[k] = <<>> \/ drained[k] # {} THEN Append(told[k], drained[k]) ELSE told[k]
             q == [row[k] EXCEPT !.here = TRUE]
  <1>8. /\ u \in Seq(SUBSET Ids)
        /\ ToldRight(q, "running", {}, u, Len(announcements))
    <2>1. row[k] \in [here : BOOLEAN, cursor : 0..MaxAnnouncements] /\ told[k] \in Seq(SUBSET Ids)
          /\ drained[k] \in SUBSET Ids
      BY <1>2
    <2>2. ToldRight(row[k], "moderating", drained[k], told[k], Len(announcements))
      BY <1>1, <1>2 DEF ToldInv
    <2>. QED BY <1>2, <2>1, <2>2, RunTold
  <1>9. row' = [row EXCEPT ![k] = q] /\ told' = [told EXCEPT ![k] = u]
    BY <1>1, <1>2
  <1> HIDE DEF u, q
  <1>10. ToldInv'
    <2> SUFFICES ASSUME NEW i \in Keys
                 PROVE  ToldRight(row'[i], phase'[i], drained'[i], told'[i], Len(announcements'))
      BY DEF ToldInv
    <2>1. CASE i = k
      BY <1>1, <1>2, <1>8, <1>9, <2>1
    <2>2. CASE i # k
      BY <1>1, <1>2, <1>9, <2>2 DEF ToldInv
    <2>. QED BY <2>1, <2>2
  <1>5. TypeOK'
    <2>1. buffer' \in [Keys -> [Buffers -> Seq(Notes)]]
      BY <1>1, <1>2 DEF Empty
    <2>2. heard' \in [Keys -> [Buffers -> Seq(Notes)]]
      <3>1. heard' = [heard EXCEPT ![k] = heard'[k]] /\ heard'[k] = [b \in Buffers |-> heard'[k][b]]
        BY <1>1, <1>2
      <3>2. \A b \in Buffers : heard'[k][b] \in Seq(Notes)
        BY <1>3
      <3>3. heard'[k] \in [Buffers -> Seq(Notes)]
        BY ONLY <3>1, <3>2, Zenon
      <3>4. heard \in [Keys -> [Buffers -> Seq(Notes)]]
        BY <1>2
      <3>. QED BY ONLY <3>1, <3>3, <3>4, k \in Keys, Zenon
    <2>3. row' \in [Keys -> [here : BOOLEAN, cursor : 0..MaxAnnouncements]]
      BY <1>1, <1>2
    <2>4. drained' \in [Keys -> SUBSET Ids] /\ told' \in [Keys -> Seq(SUBSET Ids)]
          /\ phase' \in [Keys -> {"idle", "moderating", "running"}]
      BY <1>1, <1>2, <1>8, <1>9
    <2>. QED BY <1>1, <1>2, <2>1, <2>2, <2>3, <2>4 DEF TypeOK
  <1>6. HeardOnceInOrder'
    BY <1>2, <1>3, <1>4 DEF HeardOnceInOrder
  <1>7. HeardInv' /\ NewestWait'
    <2> SUFFICES ASSUME NEW i \in Keys, NEW b \in Buffers
                 PROVE  /\ Len(buffer'[i][b]) <= pushed'[i][b]
                        /\ \A n \in DOMAIN heard'[i][b] : heard'[i][b][n] <= pushed'[i][b] - Len(buffer'[i][b])
                        /\ Len(buffer'[i][b]) <= Window[b]
                        /\ \A n \in DOMAIN buffer'[i][b] :
                             buffer'[i][b][n] = pushed'[i][b] - Len(buffer'[i][b]) + n
      BY DEF HeardInv, NewestWait
    <2>1. CASE i # k
      BY <1>1, <1>2, <1>4, <2>1 DEF HeardInv, NewestWait
    <2>2. CASE i = k
      <3>1. Len(buffer'[k][b]) = 0 /\ DOMAIN buffer'[k][b] = {} /\ pushed'[k][b] = pushed[k][b]
        <4>1. buffer'[k][b] = <<>>
          BY <1>3
        <4>. QED BY <1>1, <4>1
      <3>2. pushed[k][b] \in Nat /\ Window[b] \in Nat
        <4>1. pushed \in [Keys -> [Buffers -> 0..MaxNotes]]
          BY <1>2
        <4>2. pushed[k][b] \in 0..MaxNotes
          BY <4>1
        <4>3. Window[b] \in Nat
          BY Bounds DEF Window, Buffers
        <4>. QED BY <4>2, <4>3
      <3>3. \A n \in DOMAIN heard'[k][b] : heard'[k][b][n] <= pushed[k][b] - 0
        <4>1. \A n \in DOMAIN heard'[k][b] : heard'[k][b][n] <= pushed[k][b]
          BY <1>3
        <4>. QED BY <3>2, <4>1
      <3>. QED BY <2>2, <3>1, <3>2, <3>3
    <2>. QED BY <2>1, <2>2
  <1>. QED BY <1>5, <1>6, <1>7, <1>10 DEF IInv

\* A note goes behind those that wait; the oldest leaves when there are too many.
LEMMA PushKeeps ==
  ASSUME IInv, NEW k \in Keys, NEW b \in Buffers, Push(k, b),
         UNCHANGED <<announcements, expired, row, phase, drained, told, heard>>
  PROVE  IInv'
  <1> DEFINE s == Append(buffer[k][b], pushed[k][b] + 1)
             t == Slid(s, Window[b])
  <1>1. /\ pushed[k][b] < MaxNotes
        /\ pushed' = [pushed EXCEPT ![k][b] = @ + 1]
        /\ buffer' = [buffer EXCEPT ![k][b] = t]
    BY DEF Push, IInv, TypeOK
  <1>2. /\ TypeOK /\ HeardInv /\ HeardOnceInOrder /\ NewestWait
        /\ buffer \in [Keys -> [Buffers -> Seq(Notes)]]
        /\ heard \in [Keys -> [Buffers -> Seq(Notes)]]
        /\ pushed \in [Keys -> [Buffers -> 0..MaxNotes]]
        /\ MaxNotes \in Nat /\ Window[b] \in Nat
    <2>1. Window[b] \in Nat
      BY Bounds DEF Window, Buffers
    <2>. QED BY <2>1, Bounds DEF IInv, TypeOK
  <1>3. /\ buffer[k][b] \in Seq(Notes) /\ pushed[k][b] \in Nat /\ pushed[k][b] + 1 \in Notes
        /\ Len(buffer[k][b]) \in Nat /\ DOMAIN buffer[k][b] = 1..Len(buffer[k][b])
        /\ Len(buffer[k][b]) <= pushed[k][b] /\ Len(buffer[k][b]) <= Window[b]
        /\ \A n \in DOMAIN buffer[k][b] : buffer[k][b][n] = pushed[k][b] - Len(buffer[k][b]) + n
    <2>1. buffer[k][b] \in Seq(Notes) /\ pushed[k][b] \in 0..MaxNotes
      BY <1>2
    <2>2. pushed[k][b] \in Nat /\ pushed[k][b] + 1 \in Notes
      BY <1>1, <1>2, <2>1 DEF Notes
    <2>3. Len(buffer[k][b]) \in Nat /\ DOMAIN buffer[k][b] = 1..Len(buffer[k][b])
      BY <2>1
    <2>. QED BY <1>2, <2>1, <2>2, <2>3 DEF HeardInv, NewestWait
  <1>4. /\ s \in Seq(Notes) /\ Len(s) = Len(buffer[k][b]) + 1
        /\ \A n \in 1..Len(s) : s[n] = (pushed[k][b] + 1) - Len(s) + n
    <2>1. s \in Seq(Notes) /\ Len(s) = Len(buffer[k][b]) + 1
          /\ (\A n \in 1..Len(buffer[k][b]) : s[n] = buffer[k][b][n])
          /\ s[Len(buffer[k][b]) + 1] = pushed[k][b] + 1
      BY <1>3
    <2> HIDE DEF s
    <2>2. \A n \in 1..Len(s) : n \in 1..Len(buffer[k][b]) \/ n = Len(buffer[k][b]) + 1
      BY <1>3, <2>1
    <2>3. ASSUME NEW n \in 1..Len(buffer[k][b]) PROVE s[n] = (pushed[k][b] + 1) - Len(s) + n
      <3>1. s[n] = pushed[k][b] - Len(buffer[k][b]) + n
        BY <1>3, <2>1
      <3>2. n \in Nat /\ pushed[k][b] \in Nat /\ Len(buffer[k][b]) \in Nat
        BY <1>3
      <3>3. pushed[k][b] - Len(buffer[k][b]) + n = (pushed[k][b] + 1) - (Len(buffer[k][b]) + 1) + n
        BY <3>2
      <3>4. Len(s) = Len(buffer[k][b]) + 1
        BY <2>1
      <3>. QED BY <3>1, <3>3, <3>4
    <2>4. s[Len(buffer[k][b]) + 1] = (pushed[k][b] + 1) - Len(s) + (Len(buffer[k][b]) + 1)
      BY <1>3, <2>1
    <2>. QED BY <2>1, <2>2, <2>3, <2>4
  <1> HIDE DEF s
  <1>5. /\ t \in Seq(Notes) /\ Len(t) \in Nat /\ DOMAIN t = 1..Len(t)
        /\ Len(t) <= Window[b] /\ Len(t) <= Len(buffer[k][b]) + 1
        /\ \A n \in 1..Len(t) : t[n] = (pushed[k][b] + 1) - Len(t) + n
    <2>1. /\ t \in Seq(Notes) /\ Len(t) <= Window[b] /\ Len(t) <= Len(s)
          /\ \A n \in 1..Len(t) : t[n] = s[Len(s) - Len(t) + n]
      <3>1. Window[b] \in Nat /\ s \in Seq(Notes)
        BY <1>2, <1>4
      <3>. QED BY <3>1, SlidIs
    <2> HIDE DEF t
    <2>2. Len(t) \in Nat /\ DOMAIN t = 1..Len(t) /\ Len(s) \in Nat
      BY <1>4, <2>1
    <2>3. \A n \in 1..Len(t) : Len(s) - Len(t) + n \in 1..Len(s)
      BY <2>1, <2>2
    <2>4. ASSUME NEW n \in 1..Len(t) PROVE t[n] = (pushed[k][b] + 1) - Len(t) + n
      <3>1. t[n] = (pushed[k][b] + 1) - Len(s) + (Len(s) - Len(t) + n)
        BY <1>4, <2>1, <2>3
      <3>. QED BY <1>3, <2>2, <3>1
    <2>. QED BY <1>3, <1>4, <2>1, <2>2, <2>4
  <1> HIDE DEF t
  <1>6. TypeOK'
    <2>1. pushed' \in [Keys -> [Buffers -> 0..MaxNotes]]
      BY <1>1, <1>2, <1>3
    <2>2. buffer' \in [Keys -> [Buffers -> Seq(Notes)]]
      BY <1>1, <1>2, <1>5
    <2>. QED BY <1>2, <2>1, <2>2 DEF TypeOK
  <1>7. HeardOnceInOrder'
    BY <1>2 DEF HeardOnceInOrder
  <1>8. HeardInv' /\ NewestWait'
    <2> SUFFICES ASSUME NEW i \in Keys, NEW c \in Buffers
                 PROVE  /\ Len(buffer'[i][c]) <= pushed'[i][c]
                        /\ \A n \in DOMAIN heard'[i][c] : heard'[i][c][n] <= pushed'[i][c] - Len(buffer'[i][c])
                        /\ Len(buffer'[i][c]) <= Window[c]
                        /\ \A n \in DOMAIN buffer'[i][c] :
                             buffer'[i][c][n] = pushed'[i][c] - Len(buffer'[i][c]) + n
      BY DEF HeardInv, NewestWait
    <2>1. CASE i # k \/ c # b
      <3>1. buffer'[i][c] = buffer[i][c] /\ pushed'[i][c] = pushed[i][c] /\ heard'[i][c] = heard[i][c]
        BY <1>1, <1>2, <2>1
      <3>. QED BY <1>2, <3>1 DEF HeardInv, NewestWait
    <2>2. CASE i = k /\ c = b
      <3>1. buffer'[k][b] = t /\ pushed'[k][b] = pushed[k][b] + 1 /\ heard'[k][b] = heard[k][b]
        BY <1>1, <1>2
      <3>2. \A n \in DOMAIN heard[k][b] : heard[k][b][n] \in Nat /\ heard[k][b][n] <= pushed[k][b] - Len(buffer[k][b])
        <4>1. heard[k][b] \in Seq(Notes) /\ \A n \in Notes : n \in Nat
          BY <1>2 DEF Notes
        <4>. QED BY <1>2, <4>1 DEF HeardInv
      <3>3. pushed[k][b] - Len(buffer[k][b]) <= (pushed[k][b] + 1) - Len(t)
        BY <1>3, <1>5
      <3>4. \A n \in DOMAIN heard[k][b] : heard[k][b][n] <= (pushed[k][b] + 1) - Len(t)
        <4>1. \A h \in Nat : h <= pushed[k][b] - Len(buffer[k][b]) => h <= (pushed[k][b] + 1) - Len(t)
          BY <1>3, <1>5, <3>3
        <4>. QED BY <3>2, <4>1
      <3>5. Len(t) <= pushed[k][b] + 1
        BY <1>3, <1>5
      <3>. QED BY <1>5, <2>2, <3>1, <3>4, <3>5
    <2>. QED BY <2>1, <2>2
  <1>. QED BY <1>6, <1>7, <1>8, MailboxApart DEF IInv

\* An announcement gets the next id.
LEMMA AnnounceKeeps ==
  ASSUME IInv, NEW target \in Targets, NEW from \in Authors, Announce(target, from)
  PROVE  IInv'
  <1> DEFINE a == [target |-> target, from |-> from]
  <1>1. /\ Len(announcements) < MaxAnnouncements
        /\ announcements' = Append(announcements, a)
        /\ UNCHANGED <<expired, row, phase, drained, buffer, pushed, told, heard>>
    BY DEF Announce
  <1>2. /\ TypeOK /\ ToldInv
        /\ announcements \in Seq([target : Targets, from : Authors])
        /\ Len(announcements) \in Nat /\ MaxAnnouncements \in Nat
        /\ row \in [Keys -> [here : BOOLEAN, cursor : 0..MaxAnnouncements]]
        /\ drained \in [Keys -> SUBSET Ids] /\ told \in [Keys -> Seq(SUBSET Ids)]
    BY Bounds DEF IInv, TypeOK
  <1>3. /\ announcements' \in Seq([target : Targets, from : Authors])
        /\ Len(announcements') = Len(announcements) + 1
        /\ \A i \in 1..Len(announcements) : announcements'[i] = announcements[i]
    BY <1>1, <1>2
  <1>4. TypeOK'
    BY <1>1, <1>2, <1>3 DEF TypeOK
  <1>5. ToldInv'
    <2> SUFFICES ASSUME NEW k \in Keys
                 PROVE  ToldRight(row[k], phase[k], drained[k], told[k], Len(announcements) + 1)
      BY <1>1, <1>3 DEF ToldInv
    <2>1. row[k] \in [here : BOOLEAN, cursor : 0..MaxAnnouncements] /\ told[k] \in Seq(SUBSET Ids)
          /\ drained[k] \in SUBSET Ids
      BY <1>2
    <2>2. ToldRight(row[k], phase[k], drained[k], told[k], Len(announcements))
      BY <1>2 DEF ToldInv
    <2>. QED BY <1>2, <2>1, <2>2, LaterTold
  <1>. QED BY <1>1, <1>4, <1>5, BuffersApart DEF IInv

\* A forgotten conversation starts again at the first announcement.
LEMMA ForgetKeeps == ASSUME IInv, NEW k \in Keys, Forget(k) PROVE IInv'
  <1>1. /\ row' = [row EXCEPT ![k] = NoRow]
        /\ buffer' = [buffer EXCEPT ![k]["observed"] = <<>>]
        /\ told' = [told EXCEPT ![k] = <<>>]
        /\ UNCHANGED <<announcements, expired, phase, drained, pushed, heard>>
    BY DEF Forget
  <1>2. /\ TypeOK /\ ToldInv /\ HeardInv /\ HeardOnceInOrder /\ NewestWait
        /\ row \in [Keys -> [here : BOOLEAN, cursor : 0..MaxAnnouncements]]
        /\ told \in [Keys -> Seq(SUBSET Ids)]
        /\ buffer \in [Keys -> [Buffers -> Seq(Notes)]]
        /\ pushed \in [Keys -> [Buffers -> 0..MaxNotes]] /\ MaxAnnouncements \in Nat
        /\ Len(announcements) \in Nat
    BY Bounds DEF IInv, TypeOK
  <1>3. /\ NoRow \in [here : BOOLEAN, cursor : 0..MaxAnnouncements] /\ "observed" \in Buffers
    BY <1>2 DEF NoRow, Buffers
  <1>4. TypeOK'
    <2>1. buffer' \in [Keys -> [Buffers -> Seq(Notes)]]
      BY <1>1, <1>2, <1>3
    <2>2. row' \in [Keys -> [here : BOOLEAN, cursor : 0..MaxAnnouncements]]
      BY <1>1, <1>2, <1>3
    <2>3. told' \in [Keys -> Seq(SUBSET Ids)]
      BY <1>1, <1>2
    <2>. QED BY <1>1, <1>2, <2>1, <2>2, <2>3 DEF TypeOK
  <1>5. ToldInv'
    <2> SUFFICES ASSUME NEW i \in Keys
                 PROVE  ToldRight(row'[i], phase[i], drained[i], told'[i], Len(announcements))
      BY <1>1 DEF ToldInv
    <2>1. CASE i = k
      <3>1. row'[i] = NoRow /\ told'[i] = <<>> /\ Len(<<>>) = 0 /\ DOMAIN <<>> = {}
        BY <1>1, <1>2, <2>1
      <3>2. \A a \in drained[i] : a <= Len(announcements)
        BY <1>2 DEF ToldInv, ToldRight
      <3>. QED BY <1>2, <3>1, <3>2 DEF ToldRight, NoRow
    <2>2. CASE i # k
      BY <1>1, <1>2, <2>2 DEF ToldInv
    <2>. QED BY <2>1, <2>2
  <1>6. HeardOnceInOrder'
    BY <1>1, <1>2 DEF HeardOnceInOrder
  <1>7. HeardInv' /\ NewestWait'
    BY <1>1, <1>2, <1>3, EmptiedKeep
  <1>. QED BY <1>4, <1>5, <1>6, <1>7 DEF IInv

\* The end of a turn, an expiry and a restart of the core.
LEMMA OthersKeep ==
  ASSUME IInv, (\E k \in Keys : EndInModeration(k) \/ Finish(k)) \/ (\E a \in Ids : Expire(a)) \/ CoreRestart
  PROVE  IInv'
  <1>1. /\ TypeOK /\ ToldInv /\ HeardOnceInOrder /\ UNCHANGED <<announcements, row, pushed, told, heard>>
        /\ phase \in [Keys -> {"idle", "moderating", "running"}] /\ drained \in [Keys -> SUBSET Ids]
        /\ buffer \in [Keys -> [Buffers -> Seq(Notes)]] /\ expired \in SUBSET Ids
    BY DEF EndInModeration, Finish, Expire, CoreRestart, IInv, TypeOK
  <1>2. ToldInv'
    <2>1. \A k \in Keys : \/ phase'[k] = phase[k] /\ drained'[k] = drained[k]
                          \/ phase'[k] = "idle" /\ drained'[k] \in {{}, drained[k]}
      BY <1>1 DEF EndInModeration, Finish, Expire, CoreRestart
    <2> SUFFICES ASSUME NEW k \in Keys
                 PROVE  ToldRight(row[k], phase'[k], drained'[k], told[k], Len(announcements))
      BY <1>1 DEF ToldInv
    <2>2. ToldRight(row[k], phase[k], drained[k], told[k], Len(announcements))
      BY <1>1 DEF ToldInv
    <2>3. CASE phase'[k] = phase[k] /\ drained'[k] = drained[k]
      BY <2>2, <2>3
    <2>4. CASE phase'[k] = "idle" /\ drained'[k] \in {{}, drained[k]}
      BY <2>2, <2>4 DEF ToldRight
    <2>. QED BY <2>1, <2>3, <2>4
  <1>3. HeardOnceInOrder'
    BY <1>1 DEF HeardOnceInOrder
  <1>4. CASE \E k \in Keys : EndInModeration(k) \/ Finish(k)
    <2>1. TypeOK'
      BY <1>1, <1>4 DEF EndInModeration, Finish, TypeOK
    <2>2. UNCHANGED <<buffer, pushed, heard>>
      BY <1>4 DEF EndInModeration, Finish
    <2>. QED BY <1>2, <2>1, <2>2, BuffersApart DEF IInv
  <1>5. CASE \E a \in Ids : Expire(a)
    <2>1. TypeOK'
      BY <1>1, <1>5 DEF Expire, TypeOK
    <2>2. UNCHANGED <<buffer, pushed, heard>>
      BY <1>5 DEF Expire
    <2>. QED BY <1>2, <2>1, <2>2, BuffersApart DEF IInv
  <1>6. CASE CoreRestart
    <2>1. /\ buffer' \in [Keys -> [Buffers -> Seq(Notes)]]
          /\ \A k \in Keys, b \in Buffers : buffer'[k][b] = <<>>
      BY <1>6 DEF CoreRestart, Empty
    <2>2. TypeOK'
      BY <1>1, <1>6, <2>1 DEF CoreRestart, TypeOK
    <2>. QED BY <1>1, <1>2, <1>3, <2>1, <2>2, EmptiedKeep DEF IInv
  <1>. QED BY <1>4, <1>5, <1>6

\* Every step of the turns and of the writers preserves the invariant.
LEMMA Inductive == IInv /\ [Next]_vars => IInv'
  <1> SUFFICES ASSUME IInv, [Next]_vars PROVE IInv'
    OBVIOUS
  <1>1. CASE UNCHANGED vars
    <2>1. TypeOK'
      BY <1>1 DEF vars, IInv, TypeOK
    <2>. QED BY <1>1, <2>1, BuffersApart, MailboxApart DEF vars, IInv
  <1>2. ASSUME NEW k \in Keys, Observe(k) \/ CrossPost(k) PROVE IInv'
    <2>1. \E b \in Buffers : Push(k, b)
      BY <1>2 DEF Observe, CrossPost, Buffers
    <2>2. UNCHANGED <<announcements, expired, row, phase, drained, told, heard>>
      BY <1>2 DEF Observe, CrossPost
    <2>. QED BY <2>1, <2>2, PushKeeps
  <1>. QED BY <1>1, <1>2, BeginKeeps, RunKeeps, AnnounceKeeps, ForgetKeeps, OthersKeep DEF Next

\* It holds throughout.
LEMMA Invariance == Spec => []IInv
  BY Initially, Inductive, PTL DEF Spec

---------------------------------------------------------------------------
\* Every variable keeps its type; no cursor passes the ids there may be.
THEOREM TypeCorrect == Spec => []TypeOK
  <1>1. IInv => TypeOK
    BY DEF IInv
  <1>. QED BY <1>1, Invariance, PTL

\* "each is evaluated once", but for the run that makes the row: however many announcements
\* there are and wherever turns are blocked, stopped, forgotten or cut short, from its third
\* run on a session is told only announcements later than all it was told before.
THEOREM ToldOnward == Spec => []ToldInOrder
  <1>1. IInv => ToldInOrder
    BY DEF IInv, ToldInv, ToldRight, ToldInOrder
  <1>. QED BY <1>1, Invariance, PTL

\* Observed and cross-posted notes reach the engine at most once, in order, and what
\* waits is the newest of them without a gap: for windows of any size.
THEOREM NotesHeard == Spec => []NotesInOrder
  <1>1. IInv => NotesInOrder
    BY DEF IInv, NotesInOrder
  <1>. QED BY <1>1, Invariance, PTL

=============================================================================

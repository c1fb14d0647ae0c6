------------------------------ MODULE GitHubPoll ------------------------------
(***************************************************************************)
(* The GitHub connector (connectors/types/github): the poll for comments    *)
(* that mention the assistant, the working comment it posts and edits as    *)
(* the turn runs, the sets that keep it from answering twice or answering   *)
(* itself, and the file they survive a restart in.  The interval starts a   *)
(* poll whether or not the last one has ended.                              *)
(***************************************************************************)
EXTENDS Integers, Sequences, FiniteSets

CONSTANTS
  Ticks,        \* polls that may run at the same time
  MaxComments,  \* bound: comments on the issue
  MaxPosts,     \* bound: those people write
  MaxFalls      \* bound: crashes and stops

VARIABLES
  thread,       \* the comments, oldest first: author, whether it holds the mention, and for
                \* the assistant's own, what it says of the turn
  seen, mine, since, disk, \* triggers taken, own comments, where the next poll starts, the file
  tick,         \* each poll: where it is, when it began, comments to look at, trigger, its comment
  inflight,     \* working comments
  running,      \* "up", "stopping" or "down"
  turnsOf,      \* turns run for each comment since the last state lost
  falls

vars == <<thread, seen, mine, since, disk, tick, inflight, running, turnsOf, falls>>

Ids == 1..MaxComments
Idle == [at |-> "idle", started |-> 0, todo |-> <<>>, for |-> 0, own |-> 0]
Comment(by, mention, body) == [by |-> by, mention |-> mention, body |-> body]

TypeOK ==
  /\ thread \in Seq([by : {"human", "bot"}, mention : BOOLEAN,
                     body : {"text", "working", "final", "interrupted"}]) /\ Len(thread) <= MaxComments
  /\ seen \subseteq Ids /\ mine \subseteq Ids /\ since \in 0..MaxComments /\ inflight \subseteq mine
  /\ disk \in [seen : SUBSET Ids, mine : SUBSET Ids, since : 0..MaxComments]
  /\ \A t \in Ticks : /\ tick[t].at \in {"idle", "poll", "walk", "clone", "posted", "turn", "more", "continued"}
                      /\ tick[t].todo \in Seq(Ids) /\ tick[t].for \in 0..MaxComments
  /\ running \in {"up", "stopping", "down"} /\ turnsOf \in [Ids -> 0..2] /\ falls \in 0..MaxFalls

Init ==
  /\ thread = <<>> /\ seen = {} /\ mine = {} /\ since = 0
  /\ disk = [seen |-> {}, mine |-> {}, since |-> 0]
  /\ tick = [t \in Ticks |-> Idle] /\ inflight = {} /\ running = "up"
  /\ turnsOf = [i \in Ids |-> 0] /\ falls = 0

Snapshot(s, m, from) == [seen |-> s, mine |-> m, since |-> from]
New == Len(thread) + 1
Room == Len(thread) < MaxComments

Post(mention) ==
  /\ Room /\ Cardinality({i \in DOMAIN thread : thread[i].by = "human"}) < MaxPosts
  /\ thread' = Append(thread, Comment("human", mention, "text"))
  /\ UNCHANGED <<seen, mine, since, disk, tick, inflight, running, turnsOf, falls>>

tickStarts(t) ==
  /\ running = "up" /\ tick[t].at = "idle"
  /\ tick' = [tick EXCEPT ![t] = [Idle EXCEPT !.at = "poll", !.started = Len(thread)]]
  /\ UNCHANGED <<thread, seen, mine, since, disk, inflight, running, turnsOf, falls>>

\* The comments since the last poll, or a request that fails: the poll goes on to its end.
pollRepo(t) ==
  /\ tick[t].at = "poll" /\ running # "down"
  /\ \E got \in {[i \in 1..(Len(thread) - since) |-> since + i], <<>>} :
       tick' = [tick EXCEPT ![t].at = "walk", ![t].todo = got]
  /\ UNCHANGED <<thread, seen, mine, since, disk, inflight, running, turnsOf, falls>>

\* A trigger is marked as taken before its turn is awaited.
Marked_Later(i) == seen
Marked(i) == seen \cup {i}

\* A comment is looked at when its turn in the list comes: the assistant's own, those taken
\* already and those without the mention are passed over.
Walk(t) ==
  /\ tick[t].at = "walk" /\ tick[t].todo # <<>> /\ running # "down"
  /\ LET i == Head(tick[t].todo) IN
       IF i \in mine \cup seen \/ ~thread[i].mention
       THEN tick' = [tick EXCEPT ![t].todo = Tail(@)] /\ UNCHANGED <<seen, turnsOf>>
       ELSE /\ seen' = Marked(i)
            /\ turnsOf' = [turnsOf EXCEPT ![i] = IF @ < 2 THEN @ + 1 ELSE @]
            /\ tick' = [tick EXCEPT ![t] = [@ EXCEPT !.todo = Tail(@), !.at = "clone", !.for = i]]
  /\ UNCHANGED <<thread, mine, since, disk, inflight, running, falls>>

\* The placeholder reaches GitHub, or the trigger fails here for good.
Placeholder(t) ==
  /\ tick[t].at = "clone" /\ running # "down"
  /\ \/ /\ Room /\ thread' = Append(thread, Comment("bot", FALSE, "working"))
        /\ tick' = [tick EXCEPT ![t].at = "posted", ![t].own = New]
     \/ tick' = [tick EXCEPT ![t].at = "walk"] /\ UNCHANGED thread
  /\ UNCHANGED <<seen, mine, since, disk, inflight, running, turnsOf, falls>>

\* Its answer is here: the comment is the assistant's own, on disk too.
PlaceholderPosted(t) ==
  /\ tick[t].at = "posted" /\ running # "down" /\ mine' = mine \cup {tick[t].own}
  /\ disk' = Snapshot(seen, mine', since) /\ inflight' = inflight \cup {tick[t].own}
  /\ tick' = [tick EXCEPT ![t].at = "turn"]
  /\ UNCHANGED <<thread, seen, since, running, turnsOf, falls>>

\* While the turn runs the comment shows the live trace.
Streamer(t) ==
  /\ tick[t].at = "turn" /\ running # "down"
  /\ thread' = [thread EXCEPT ![tick[t].own].body = "working"]
  /\ UNCHANGED <<seen, mine, since, disk, tick, inflight, running, turnsOf, falls>>

\* The answer, or the error, replaces it (a refused edit is logged); a long trace goes on in
\* further comments.
Answer(t) ==
  /\ tick[t].at = "turn" /\ running # "down"
  /\ thread' \in {thread, [thread EXCEPT ![tick[t].own] = Comment("bot", TRUE, "final")]}
  /\ \/ tick' = [tick EXCEPT ![t].at = "walk"] /\ inflight' = inflight \ {tick[t].own}
     \/ tick' = [tick EXCEPT ![t].at = "more"] /\ UNCHANGED inflight
  /\ UNCHANGED <<seen, mine, since, disk, running, turnsOf, falls>>

Continuation(t) ==
  /\ tick[t].at = "more" /\ Room /\ running # "down"
  /\ \E quoted \in BOOLEAN : thread' = Append(thread, Comment("bot", quoted, "final"))
  /\ inflight' = inflight /\ tick' = [tick EXCEPT ![t] = [@ EXCEPT !.at = "continued", !.for = New]]
  /\ UNCHANGED <<seen, mine, since, disk, running, turnsOf, falls>>

ContinuationPosted(t) ==
  /\ tick[t].at = "continued" /\ running # "down" /\ mine' = mine \cup {tick[t].for}
  /\ disk' = Snapshot(seen, mine', since) /\ inflight' = inflight \ {tick[t].own}
  /\ tick' = [tick EXCEPT ![t].at = "walk"]
  /\ UNCHANGED <<thread, seen, since, running, turnsOf, falls>>

tickEnds(t) ==
  /\ tick[t].at = "walk" /\ tick[t].todo = <<>> /\ running # "down"
  /\ since' = tick[t].started /\ disk' = Snapshot(seen, mine, since')
  /\ tick' = [tick EXCEPT ![t] = Idle]
  /\ UNCHANGED <<thread, seen, mine, inflight, running, turnsOf, falls>>

\* A stop marks each working comment as interrupted; the polls go on while it does.
stop ==
  /\ running = "up" /\ falls < MaxFalls /\ falls' = falls + 1 /\ running' = "stopping"
  /\ thread' = [i \in DOMAIN thread |->
                 IF i \in inflight THEN [thread[i] EXCEPT !.body = "interrupted"] ELSE thread[i]]
  /\ inflight' = {} /\ UNCHANGED <<seen, mine, since, disk, tick, turnsOf>>

\* Then it saves and exits, unless the harness's deadline is first.
stopEnds ==
  /\ running = "stopping" /\ running' = "down"
  /\ \/ disk' = Snapshot(seen, mine, since) /\ UNCHANGED turnsOf
     \/ UNCHANGED disk /\ turnsOf' = [i \in Ids |-> 0]
  /\ tick' = [t \in Ticks |-> Idle] /\ inflight' = {}
  /\ UNCHANGED <<thread, seen, mine, since, falls>>

Crash ==
  /\ running = "up" /\ falls < MaxFalls /\ falls' = falls + 1 /\ running' = "down"
  /\ turnsOf' = [i \in Ids |-> 0] /\ tick' = [t \in Ticks |-> Idle] /\ inflight' = {}
  /\ UNCHANGED <<thread, seen, mine, since, disk>>

start ==
  /\ running = "down" /\ running' = "up"
  /\ seen' = disk.seen /\ mine' = disk.mine /\ since' = disk.since
  /\ UNCHANGED <<thread, disk, tick, inflight, turnsOf, falls>>

Next ==
  \/ \E m \in BOOLEAN : Post(m)
  \/ \E t \in Ticks : \/ tickStarts(t) \/ pollRepo(t) \/ Walk(t) \/ Placeholder(t)
                      \/ PlaceholderPosted(t) \/ Streamer(t) \/ Answer(t) \/ Continuation(t)
                      \/ ContinuationPosted(t) \/ tickEnds(t)
  \/ stop \/ stopEnds \/ Crash \/ start

Spec == Init /\ [][Next]_vars

---------------------------------------------------------------------------
\* However polls overlap, and across a stop that saved its state, a mention gets one turn.
OneTurnPerMention == \A i \in Ids : turnsOf[i] <= 1

\* The assistant does not take a comment of its own for a mention.
NeverAnswersItself == \A i \in DOMAIN thread : thread[i].by = "bot" => i \notin seen

\* A mention is taken, or a later poll will still be given it.
MentionsKept ==
  running = "up" => \A i \in DOMAIN thread :
    (thread[i].by = "human" /\ thread[i].mention) =>
      \/ i > since \/ i \in seen
      \/ \E t \in Ticks : \E k \in DOMAIN tick[t].todo : tick[t].todo[k] = i

\* No comment is left saying that the assistant is working once it has stopped.
NotLeftWorking == running = "down" => \A i \in DOMAIN thread : thread[i].body # "working"
=============================================================================

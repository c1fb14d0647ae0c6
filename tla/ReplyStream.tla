---------------------------- MODULE ReplyStream ----------------------------
(***************************************************************************)
(* How handle() in core/src/server.js streams a reply while it is written,  *)
(* and what it hands back at the end: the mood tag at the head is held      *)
(* until it is complete and then cut, text for a reader who must not see    *)
(* secrets goes out only up to a blank and redacted, and a reply with the   *)
(* silence sentinel, one that refuses, or one without text is not posted.   *)
(* Text is a sequence of pieces small enough to be cut anywhere that        *)
(* matters.                                                                *)
(***************************************************************************)
EXTENDS Integers, SequencesExt

CONSTANTS MaxPieces  \* bound: pieces of a reply

\* The halves of a mood tag, of a one-token secret and of a secret that may hold blanks (a
\* private key, a quoted value), a blank, a word, words that refuse, [[NO_REPLY]].
Pieces == {"[[MOOD:", "happy]]", "sec", "ret", "BEGIN", "END", " ", "word", "not me", "[[NO_REPLY]]"}
Shown == Pieces \cup {"masked"}

VARIABLES
  mustRedact,   \* a public surface, or a reader without full trust
  streamRaw,    \* _streamRaw: everything the engine has said
  moodPending, moodCut,
  shipped,      \* what onText has sent
  reply         \* the reply action's text once the turn is over, or "none"

vars == <<mustRedact, streamRaw, moodPending, moodCut, shipped, reply>>

Tag == <<"[[MOOD:", "happy]]">>
NotYet == <<"none">>

TypeOK ==
  /\ mustRedact \in BOOLEAN
  /\ streamRaw \in Seq(Pieces) /\ Len(streamRaw) <= MaxPieces
  /\ moodPending \in BOOLEAN /\ moodCut \in 0..MaxPieces
  /\ shipped \in Seq(Shown) /\ reply \in Seq(Shown \cup {"none"})

Init ==
  /\ mustRedact \in BOOLEAN
  /\ streamRaw = <<>> /\ moodPending = TRUE /\ moodCut = 0
  /\ shipped = <<>> /\ reply = NotYet

\* The number of blanks a text starts with.
Blanks(s) == CHOOSE n \in 0..Len(s) :
               (\A i \in 1..n : s[i] = " ") /\ (n < Len(s) => s[n + 1] # " ")
From(s, n) == SubSeq(s, n + 1, Len(s))

\* MOOD_RE: how much it would cut from the head (0: no match), and MOOD_PARTIAL.
MoodMatch(s) ==
  LET head == Blanks(s) IN
    IF IsPrefix(Tag, From(s, head))
    THEN head + Len(Tag) + Blanks(From(s, head + Len(Tag))) ELSE 0
MoodPartial(s) == From(s, Blanks(s)) = <<"[[MOOD:">>  \* blanks alone are not held

\* redactSecrets: a secret is masked once all of it is there, from its first BEGIN on.
Ends(acc, x) == x = "ret" /\ acc # <<>> /\ Last(acc) = "sec"
Closes(acc, x) == x = "END" /\ Contains(acc, "BEGIN")
Redact(s) ==
  FoldLeft(LAMBDA acc, x :
             IF Ends(acc, x) THEN Append(Front(acc), "masked")
             ELSE IF Closes(acc, x) THEN Append(SubSeq(acc, 1, SelectInSeq(acc, LAMBDA y : y = "BEGIN") - 1), "masked")
             ELSE Append(acc, x), <<>>, s)
View(s) == IF mustRedact THEN Redact(s) ELSE s

\* _visible: the cut once the tag is known, or nothing while a tag may be forming.
Cut(s) == IF moodPending THEN MoodMatch(s) ELSE moodCut
Holding(s) == moodPending /\ MoodMatch(s) = 0 /\ MoodPartial(s)
Visible_TagTail(s) == s
Visible(s) == From(s, Cut(s))

\* The index up to which the redacted text may go: just past its last blank.
Boundary_Eager(red) == Len(red)
Boundary(red) ==
  IF mustRedact
  THEN CHOOSE n \in 0..Len(red) : /\ n = 0 \/ red[n] = " "
                                  /\ \A m \in (n + 1)..Len(red) : red[m] # " "
  ELSE Len(red)

Ship(red, end) == shipped' = shipped \o SubSeq(red, Len(shipped) + 1, end)

\* _pushDelta, one piece at a time.
pushDelta(x) ==
  /\ reply = NotYet /\ Len(streamRaw) < MaxPieces
  /\ LET s == Append(streamRaw, x)
         red == View(Visible(s)) IN
       /\ streamRaw' = s
       /\ IF Holding(s) THEN UNCHANGED <<moodPending, moodCut, shipped>>
          ELSE /\ moodPending' = FALSE /\ moodCut' = Cut(s)
               /\ Ship(red, Boundary(red))
  /\ UNCHANGED <<mustRedact, reply>>

\* The sentinel, looksLikeNonReply, no text.
Silent(s) == "[[NO_REPLY]]" \in ToSet(s) \/ "not me" \in ToSet(s) \/ ToSet(s) \subseteq {" "}
\* The final stages: silence, the mood tag, redaction.
FinalText(s) == IF Silent(s) THEN <<>> ELSE View(From(s, MoodMatch(s)))

\* _flushStream, then the final stages.
flushStream ==
  /\ reply = NotYet /\ streamRaw # <<>>
  /\ LET red == View(Visible(streamRaw)) IN
       IF "[[NO_REPLY]]" \in ToSet(red) THEN UNCHANGED shipped ELSE Ship(red, Len(red))
  /\ reply' = FinalText(streamRaw)
  /\ UNCHANGED <<mustRedact, streamRaw, moodPending, moodCut>>

Next == flushStream \/ \E x \in Pieces : pushDelta(x)
Spec == Init /\ [][Next]_vars

---------------------------------------------------------------------------
Unblanked(s) == SelectSeq(s, LAMBDA x : x # " ")

\* A secret with a blank in it is complete.
SpansBlank(s) ==
  \E i, j, k \in DOMAIN s : i < j /\ j < k /\ s[i] = "BEGIN" /\ s[j] = " " /\ s[k] = "END"

\* What a reader sees grow is what the reply turns out to be, however the engine's deltas cut
\* through the mood tag or a secret: it is never taken back while the reply is written, also
\* when silence follows; at the end it is the whole reply, if one is posted; and a redacted
\* text keeps a sentinel it ends with to itself.  (Left out are a reply whose first delta is
\* blank, see TagNeverShown, and one with a secret that spans a blank, see SecretNeverShipped;
\* what silence finds already shown, see SilenceShowsNothing.)
StreamedIsReply ==
  LET final == View(From(streamRaw, MoodMatch(streamRaw))) IN
    /\ streamRaw # <<>> /\ Head(streamRaw) # " " /\ ~(mustRedact /\ SpansBlank(streamRaw)) =>
         /\ ~Holding(streamRaw) => IsPrefix(Unblanked(shipped), Unblanked(final))
         /\ reply \notin {NotYet, <<>>} => Unblanked(shipped) = Unblanked(reply)
    /\ mustRedact /\ streamRaw # <<>> /\ ~Contains(Front(streamRaw), "[[NO_REPLY]]") =>
         ~Contains(shipped, "[[NO_REPLY]]")

\* "a secret is never shipped": what the masking takes out has not gone out before.
SecretNeverShipped ==
  mustRedact => ToSet(shipped) \cap {"sec", "ret", "BEGIN", "END"} \subseteq ToSet(Redact(streamRaw))

\* "emit no action so EVERY connector stays quiet": a turn that is silenced has shown nothing.
SilenceShowsNothing == reply = <<>> => Unblanked(shipped) = <<>>

\* The comment on MOOD_PARTIAL: a tag is held back however many deltas it comes in.
TagNeverShown == MoodMatch(streamRaw) > 0 => ~IsPrefix(Tag, Unblanked(shipped))

\* The comment in _flushStream: the silence sentinel is not shipped.
SentinelStaysIn == "[[NO_REPLY]]" \notin ToSet(shipped)
=============================================================================

---------------------------- MODULE PortalDrive ----------------------------
(***************************************************************************)
(* Driving a host through a Portal dongle (core/src/portal): the relay both *)
(* ends poll (drive.js), with its held requests; the phone that carries     *)
(* commands to the dongle and the host's bytes back; the read-eval loop the *)
(* recipe types into the host (recipes.js); and the key that signs the      *)
(* modules a dongle accepts (modules.js).                                   *)
(***************************************************************************)
EXTENDS Integers, Sequences, FiniteSets, SequencesExt

CONSTANTS
  MaxCommands,  \* bound: commands the driver queues
  Polls,        \* requests of the phone that may be held open
  Signers,      \* requests that may be asking for the signing key
  MaxMinted     \* bound: keys generated

VARIABLES
  pushed,    \* commands queued so far
  execQ,     \* commands waiting at the relay
  poll,      \* each request of the phone: free, held, left by the phone, or answered
  waiters,   \* held requests in the order they came
  host,      \* what the host runs: nothing, a shell, the probe's answer, or the loop
  ran,       \* commands the host ran, in order
  ioBuf,     \* the host's bytes at the relay: one frame per command, ended by the sentinel
  drained,   \* frames the driver has read
  signer, cached, stored, minted \* the signing key: requests, in memory, in the vault, generated

relay == <<pushed, execQ, poll, waiters>>
target == <<host, ran>>
bytes == <<ioBuf, drained>>
key == <<signer, cached, stored, minted>>
vars == <<relay, target, bytes, key>>

Commands == 1..MaxCommands

TypeOK ==
  /\ pushed \in 0..MaxCommands /\ execQ \in Seq(Commands)
  /\ \A p \in Polls : poll[p].at \in {"free", "held", "left", "answered"}
  /\ Range(waiters) \subseteq Polls
  /\ host \in {"locked", "shell", "ready", "loop"} /\ ran \in Seq(Commands)
  /\ cached \in 0..minted /\ stored \in 0..minted

Init ==
  /\ pushed = 0 /\ execQ = <<>> /\ poll = [p \in Polls |-> [at |-> "free", got |-> 0]]
  /\ waiters = <<>> /\ host = "locked" /\ ran = <<>> /\ ioBuf = <<>> /\ drained = <<>>
  /\ signer = [s \in Signers |-> "idle"] /\ cached = 0 /\ stored = 0 /\ minted = 0

---------------------------------------------------------------------------
(* The relay.                                                               *)

\* What is left of the queue when a command is handed out.
Shift_Peek(q) == q
Shift(q) == Tail(q)

\* A queued command wakes one held request, which takes the oldest command; one whose
\* phone has gone is woken like any other.
pushExec ==
  /\ pushed < MaxCommands /\ pushed' = pushed + 1
  /\ LET q == Append(execQ, pushed + 1) IN
       IF waiters = <<>> THEN execQ' = q /\ UNCHANGED <<poll, waiters>>
       ELSE LET p == Head(waiters) IN
              /\ waiters' = Tail(waiters) /\ execQ' = Shift(q)
              /\ poll' = [poll EXCEPT ![p] =
                   IF @.at = "left" THEN [at |-> "free", got |-> 0]
                   ELSE [at |-> "answered", got |-> Head(q)]]
  /\ UNCHANGED <<target, bytes, key>>

\* GET exec/next, with or without ?wait.
nextExec(p, wait) ==
  /\ poll[p].at = "free"
  /\ IF execQ # <<>>
     THEN /\ execQ' = Shift(execQ) /\ UNCHANGED waiters
          /\ poll' = [poll EXCEPT ![p] = [at |-> "answered", got |-> Head(execQ)]]
     ELSE /\ wait /\ waiters' = Append(waiters, p) /\ UNCHANGED execQ
          /\ poll' = [poll EXCEPT ![p].at = "held"]
  /\ UNCHANGED <<pushed, target, bytes, key>>

\* Thirty seconds at most.
waitEnds(p) ==
  /\ poll[p].at \in {"held", "left"}
  /\ poll' = [poll EXCEPT ![p].at = "free"]
  /\ \E i \in DOMAIN waiters : waiters[i] = p /\ waiters' = RemoveAt(waiters, i)
  /\ UNCHANGED <<pushed, execQ, target, bytes, key>>

\* The phone sleeps or loses its network: the core still holds the request.
PhoneLeaves(p) ==
  /\ poll[p].at = "held" /\ poll' = [poll EXCEPT ![p].at = "left"]
  /\ UNCHANGED <<pushed, execQ, waiters, target, bytes, key>>

---------------------------------------------------------------------------
(* The phone and the host.                                                  *)

\* The recipe, typed over HID: open a terminal, probe for the marker, start the loop.
terminalOpen == host = "locked" /\ host' = "shell" /\ UNCHANGED <<ran, relay, bytes, key>>
probe == host = "shell" /\ host' \in {"ready", "locked"} /\ UNCHANGED <<ran, relay, bytes, key>>
replBootstrap == host = "ready" /\ host' = "loop" /\ UNCHANGED <<ran, relay, bytes, key>>

\* The phone writes the command to the dongle; the loop runs one line at a time and ends its
\* output with the sentinel.  Without a loop the line is lost on the host.
Carry(p) ==
  /\ poll[p].at = "answered" /\ poll' = [poll EXCEPT ![p] = [at |-> "free", got |-> 0]]
  /\ IF host = "loop"
     THEN ran' = Append(ran, poll[p].got) /\ ioBuf' = Append(ioBuf, poll[p].got)
     ELSE UNCHANGED <<ran, ioBuf>>
  /\ UNCHANGED <<pushed, execQ, waiters, host, drained, key>>

\* The bytes the driver is given, and those that stay.
Drain_Head == <<Head(ioBuf)>>
Drain == ioBuf
drainIo ==
  /\ ioBuf # <<>> /\ drained' = drained \o Drain /\ ioBuf' = <<>>
  /\ UNCHANGED <<relay, target, key>>

---------------------------------------------------------------------------
(* The signing key.                                                         *)

\* ensureKey, to the await: a key in memory is used at once.
ensureKey(s) ==
  /\ signer[s] = "idle" /\ cached = 0
  /\ signer' = [signer EXCEPT ![s] = "reading"]
  /\ UNCHANGED <<cached, stored, minted, relay, target, bytes>>

\* A vault error reads as no key.
KeyRead(s) ==
  /\ signer[s] = "reading"
  /\ \/ /\ stored # 0 /\ cached' = stored /\ signer' = [signer EXCEPT ![s] = "idle"]
        /\ UNCHANGED minted
     \/ /\ minted < MaxMinted /\ minted' = minted + 1
        /\ signer' = [signer EXCEPT ![s] = "storing"] /\ UNCHANGED cached
  /\ UNCHANGED <<stored, relay, target, bytes>>

\* The new key is stored over whatever was there, or the vault refuses and the request fails.
KeyStored(s) ==
  /\ signer[s] = "storing" /\ signer' = [signer EXCEPT ![s] = "idle"]
  /\ \/ stored' = minted /\ cached' = minted
     \/ UNCHANGED <<stored, cached>>
  /\ UNCHANGED <<minted, relay, target, bytes>>

\* The relay's queues and the cached key are in memory.
Restart ==
  /\ execQ' = <<>> /\ waiters' = <<>> /\ ioBuf' = <<>> /\ cached' = 0
  /\ poll' = [p \in Polls |-> IF poll[p].at = "answered" THEN poll[p] ELSE [at |-> "free", got |-> 0]]
  /\ signer' = [s \in Signers |-> "idle"]
  /\ UNCHANGED <<pushed, target, drained, stored, minted>>

Next ==
  \/ pushExec \/ drainIo \/ terminalOpen \/ probe \/ replBootstrap \/ Restart
  \/ \E p \in Polls, wait \in BOOLEAN : nextExec(p, wait)
  \/ \E p \in Polls : waitEnds(p) \/ PhoneLeaves(p) \/ Carry(p)
  \/ \E s \in Signers : ensureKey(s) \/ KeyRead(s) \/ KeyStored(s)

Spec == Init /\ [][Next]_vars

---------------------------------------------------------------------------
\* No command is run twice on the host, and the driver reads the output of each at most once,
\* in the order the host ran them.
RunsOnce ==
  /\ \A m, n \in 1..Len(ran) : m # n => ran[m] # ran[n]
  /\ \A m, n \in 1..Len(drained) : m < n =>
       \E i, j \in 1..Len(ran) : i < j /\ ran[i] = drained[m] /\ ran[j] = drained[n]

\* A command is at the relay, with the phone, or it was run: none is lost while the core runs.
NothingLost ==
  host = "loop" => \A c \in 1..pushed :
    c \in Range(execQ) \cup Range(ran) \cup {poll[p].got : p \in Polls}

\* The key in the vault, once there, stays the one dongles were paired with.
SigningKeyStays == [][stored # 0 => stored' = stored]_vars
=============================================================================

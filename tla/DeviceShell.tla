---------------------------- MODULE DeviceShell ----------------------------
(***************************************************************************)
(* Shells on a device (core/src/devices/shell.js): who may open one, by the *)
(* grants of the registry; the PTY and its row in device_sessions; and the  *)
(* fan-out of its output to watchers, late ones included.  Opening awaits   *)
(* the ssh connection, and the grants may change meanwhile.                 *)
(***************************************************************************)
EXTENDS Integers, Sequences, FiniteSets

CONSTANTS
  Principals,
  Shells,
  MaxOutput,   \* bound: chunks a shell prints
  Scrollback   \* chunks of output kept for a late watcher

VARIABLES
  owner, enabled,  \* the device's owner, and whether its ssh transport is usable
  allow, forbid,   \* principals with an allow or a forbid row for the shell
  shell, by,       \* each shell, and who opened it
  audit,           \* its row in device_sessions
  printed, buffer, \* output of the shell looked at, and its scrollback
  watching         \* what a watcher of it was sent

vars == <<owner, enabled, allow, forbid, shell, by, audit, printed, buffer, watching>>

NoWatcher == <<>>

TypeOK ==
  /\ owner \in Principals /\ enabled \in BOOLEAN
  /\ allow \subseteq Principals /\ forbid \subseteq Principals
  /\ shell \in [Shells -> {"none", "opening", "live", "running", "gone"}]
  /\ by \in [Shells -> Principals \cup {"nobody"}]
  /\ audit \in [Shells -> {"none", "open", "closed"}]
  /\ Len(buffer) <= Scrollback

\* A device is created with its owner's grants written as rows.
Init ==
  /\ owner \in Principals /\ enabled = TRUE /\ allow = {owner} /\ forbid = {}
  /\ shell = [s \in Shells |-> "none"] /\ by = [s \in Shells |-> "nobody"]
  /\ audit = [s \in Shells |-> "none"]
  /\ printed = <<>> /\ buffer = <<>> /\ watching = NoWatcher

---------------------------------------------------------------------------
(* The registry's side.                                                     *)

ensureOwnerGrants(p) == allow' = allow \cup {p}

\* A PATCH that names an owner, even the same one, writes the owner's grants again; the
\* grants of a former owner stay.
update(p) ==
  /\ owner' = p /\ ensureOwnerGrants(p)
  /\ UNCHANGED <<enabled, forbid, shell, by, audit, printed, buffer, watching>>

grant(p, effect) ==
  /\ IF effect = "allow" THEN allow' = allow \cup {p} /\ UNCHANGED forbid
                         ELSE forbid' = forbid \cup {p} /\ UNCHANGED allow
  /\ UNCHANGED <<owner, enabled, shell, by, audit, printed, buffer, watching>>

revokeGrant(p) ==
  /\ \/ p \in allow /\ allow' = allow \ {p} /\ UNCHANGED forbid
     \/ p \in forbid /\ forbid' = forbid \ {p} /\ UNCHANGED allow
  /\ UNCHANGED <<owner, enabled, shell, by, audit, printed, buffer, watching>>

setTransport ==
  /\ enabled' = ~enabled
  /\ UNCHANGED <<owner, allow, forbid, shell, by, audit, printed, buffer, watching>>

\* The whole device: its transports, its grants, and the rows of its sessions.
revoke ==
  /\ enabled' = FALSE /\ allow' = {} /\ forbid' = {}
  /\ audit' = [s \in Shells |-> IF audit[s] = "open" THEN "closed" ELSE audit[s]]
  /\ UNCHANGED <<owner, shell, by, printed, buffer, watching>>

\* Default-deny, and an explicit forbid cannot be out-voted by any allow.
Capable_AllowWins == allow
Capable == allow \ forbid
resolveDeviceGrants(p) == p \in Capable

---------------------------------------------------------------------------
(* The shells.                                                              *)

open(s, p) ==
  /\ shell[s] = "none" /\ resolveDeviceGrants(p) /\ enabled
  /\ shell' = [shell EXCEPT ![s] = "opening"] /\ by' = [by EXCEPT ![s] = p]
  /\ UNCHANGED <<owner, enabled, allow, forbid, audit, printed, buffer, watching>>

\* The ssh connection is up, or not: nothing is resolved again.
opened(s) ==
  /\ shell[s] = "opening"
  /\ \/ shell' = [shell EXCEPT ![s] = "live"] /\ audit' = [audit EXCEPT ![s] = "open"]
     \/ shell' = [shell EXCEPT ![s] = "gone"] /\ UNCHANGED audit
  /\ UNCHANGED <<owner, enabled, allow, forbid, by, printed, buffer, watching>>

\* run(): one command, recorded before it starts.
run(s, p) ==
  /\ shell[s] = "none" /\ resolveDeviceGrants(p) /\ enabled
  /\ shell' = [shell EXCEPT ![s] = "running"] /\ by' = [by EXCEPT ![s] = p]
  /\ audit' = [audit EXCEPT ![s] = "open"]
  /\ UNCHANGED <<owner, enabled, allow, forbid, printed, buffer, watching>>

\* The stream ended, the shell was killed, or run()'s command ended, well or not.
close(s) ==
  /\ shell[s] \in {"live", "running"}
  /\ shell' = [shell EXCEPT ![s] = "gone"]
  /\ audit' = [audit EXCEPT ![s] = IF @ = "open" THEN "closed" ELSE @]
  /\ UNCHANGED <<owner, enabled, allow, forbid, by, printed, buffer, watching>>

\* DELETE /v2/device-sessions: the row, and the remote-desktop broker; not the shell.
closeSession(s) ==
  /\ audit[s] = "open" /\ audit' = [audit EXCEPT ![s] = "closed"]
  /\ UNCHANGED <<owner, enabled, allow, forbid, shell, by, printed, buffer, watching>>

\* The scrollback loses its oldest chunk once it is full.
Trimmed_Late(b) == IF Len(b) > Scrollback + 1 THEN Tail(b) ELSE b
Trimmed(b) == IF Len(b) > Scrollback THEN Tail(b) ELSE b

\* Typing needs the grant at the time of typing, whoever opened the shell.
write(s, p) ==
  /\ shell[s] = "live" /\ resolveDeviceGrants(p) /\ Len(printed) < MaxOutput
  /\ LET chunk == [n |-> Len(printed) + 1, by |-> p] IN
       /\ printed' = Append(printed, chunk)
       /\ buffer' = Trimmed(Append(buffer, chunk))
       /\ watching' = IF watching = NoWatcher THEN NoWatcher
                      ELSE <<Append(watching[1], chunk)>>
  /\ UNCHANGED <<owner, enabled, allow, forbid, shell, by, audit>>

\* What a watcher is sent on joining.
Replay_Nothing == <<>>
Replay == buffer
subscribe ==
  /\ watching = NoWatcher /\ (\E s \in Shells : shell[s] = "live")
  /\ watching' = <<Replay>>
  /\ UNCHANGED <<owner, enabled, allow, forbid, shell, by, audit, printed, buffer>>

\* The core dies: the shells with it, not the rows.
Restart ==
  /\ shell' = [s \in Shells |-> IF shell[s] = "none" THEN "none" ELSE "gone"]
  /\ printed' = <<>> /\ buffer' = <<>> /\ watching' = NoWatcher
  /\ UNCHANGED <<owner, enabled, allow, forbid, by, audit>>

Next ==
  \/ setTransport \/ revoke \/ subscribe \/ Restart
  \/ \E p \in Principals : update(p) \/ revokeGrant(p)
  \/ \E p \in Principals, effect \in {"allow", "forbid"} : grant(p, effect)
  \/ \E s \in Shells, p \in Principals : open(s, p) \/ run(s, p) \/ write(s, p)
  \/ \E s \in Shells : opened(s) \/ close(s) \/ closeSession(s)

Spec == Init /\ [][Next]_vars

---------------------------------------------------------------------------
\* What a watcher was sent is the shell's output without a gap, back to where the scrollback
\* began when it joined.
WatchedWhole ==
  watching # NoWatcher => \E n \in 1..(Len(printed) + 1) :
    /\ watching[1] = SubSeq(printed, n, Len(printed))
    /\ n > 1 => Len(watching[1]) >= Scrollback

\* Nobody with a forbid row starts a shell or types into one, even as the device's owner and
\* whatever was allowed before or after.
ForbidWins ==
  [][/\ \A s \in Shells, p \in forbid : ~open(s, p) /\ ~run(s, p)
     /\ printed' # printed /\ printed' # <<>> => printed'[Len(printed')].by \notin forbid]_vars

\* Fleet lists every live shell: it has an open row, and an open row has a shell.
ShellsAreListed == \A s \in Shells : (shell[s] \in {"live", "running"}) = (audit[s] = "open")
=============================================================================

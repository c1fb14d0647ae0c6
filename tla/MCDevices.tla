------------------------------ MODULE MCDevices -------------------------------
(***************************************************************************)
(* Who may do what, where and with which credential: the devices the core *)
(* reaches and the mesh that carries them, the phone and the voice room.    *)
(* The components share no state here: a behaviour is one of one component, *)
(* chosen at the start.                                                     *)
(***************************************************************************)
EXTENDS Integers, Sequences, FiniteSets

CONSTANTS OnceCodes, Callers, Principals, Shells, Polls, Signers, Enrols, Viewers, Fingers,
          Utterances, Phones, Owner, Others, Name, Greeting, Words, NoMove,
          MaxTokens, MaxOutput, Scrollback, MaxCommands, MaxMinted, MaxCodes, MaxPasswords,
          MaxAttempts, MaxActs, MaxFaults, MaxGen, MaxStreams, MaxWords, Window, Backlog,
          Sensitivities, Confidences, MaxLinks, MaxRpcs, MaxOut, MaxTurns, MaxResets,
          MaxDeltas, MaxTabs, MaxDowns, MaxRecs, MaxClips, MaxPresses

\* Bounds are numbers.
ASSUME BoundsAssumption ==
  /\ MaxTokens \in Nat /\ MaxOutput \in Nat /\ Scrollback \in Nat \ {0} /\ MaxCommands \in Nat
  /\ MaxMinted \in Nat /\ MaxCodes \in Nat /\ MaxPasswords \in Nat /\ MaxAttempts \in Nat
  /\ MaxFaults \in Nat /\ MaxGen \in Nat /\ MaxStreams \in Nat /\ MaxWords \in Nat
  /\ Window \in Nat /\ Backlog \in Nat /\ MaxLinks \in Nat /\ MaxRpcs \in Nat
  /\ MaxOut \in Nat /\ MaxTurns \in Nat /\ MaxResets \in Nat /\ MaxRecs \in Nat
  /\ MaxClips \in Nat /\ MaxPresses \in Nat

\* Shares of a whole are shares.
ASSUME Ranges == Sensitivities \subseteq 0..100 /\ Confidences \subseteq 0..1000

\* What stands for nothing is none of the things there may be.
ASSUME Nulls == "none" \notin OnceCodes /\ NoMove \notin {"mine", "old"}

VARIABLES
  part,  \* the component at work
  device, row, vault, registryCode, caller, deleting, tokens, redeemed, registryDropped,
  overtaken,
  owner, enabled, allow, forbid, shell, by, audit, printed, buffer, watching,
  pushed, execQ, poll, waiters, host, ran, ioBuf, drained, signer, cached, stored,
  dongleMinted,
  cloud, safe, netMade, prov, listed, netWire, codes, enrol, newt, down,
  screenScene, ownId, revoked, poke, screenTold, screenAsking, known, screenLate, hosting,
  holder, sessions, screenGen, last, attempt, screenStream, screenMedia, waker, sess, ptrs,
  moved, lpFired, twoFinger, scrolled, lpTimer, pendingMove, kb, did,
  roomScene, joined, roomMuted, busy, roomGen, session, reply, mouth, player, drone,
  roomCur, open, roomHeard, roomClosing, roomSaid, burst, sock, queue, api, seen, from,
  committed, transcript, finals, given, lost, caption, roomLate, lines, roomFaults,
  chat, control, links, live, gatewayClosing, gatewayMade, rpcs, gatewayPending,
  gatewayAnswers, frames, results, gatewayMedia, gatewayFile, out, gatewayHeard,
  gatewayOpened, kept, promised, sig, knows, lately, gatewayTurns, resets,
  tabsSrv, tabsTold, hist, linked, tabsWire, tabs, front, log, tabsPending, bub, ids,
  tabsAsked, hydrated, tabsSt, tabsSaid, tabsTurns, opens, tabsActs, downs, missing, cut,
  talkSt, talkOpened, opening, mics, talkCur, stops, cancelled, talkDropped, talkAsking,
  talkGen, tries, rtpc, peers, talkTurns, sent, killed, talkSrv, left, tts, talkMade, of,
  synths, sounding, curAudio, talkMuted, suppress, talkActs

Registry == INSTANCE Devices WITH Codes <- OnceCodes, code <- registryCode,
            dropped <- registryDropped
Remote == INSTANCE DeviceShell
Dongle == INSTANCE PortalDrive WITH minted <- dongleMinted
Net == INSTANCE MeshEnroll WITH made <- netMade, wire <- netWire
Screen == INSTANCE RemoteDesktop WITH None <- NoMove, scene <- screenScene,
          told <- screenTold, asking <- screenAsking, late <- screenLate, gen <- screenGen,
          stream <- screenStream, media <- screenMedia
Room == INSTANCE DiscordVoice WITH Replies <- Utterances, scene <- roomScene,
        muted <- roomMuted, gen <- roomGen, cur <- roomCur, heard <- roomHeard,
        closing <- roomClosing, said <- roomSaid, late <- roomLate, faults <- roomFaults
Gateway == INSTANCE DeviceGateway WITH closing <- gatewayClosing, made <- gatewayMade,
           pending <- gatewayPending, answers <- gatewayAnswers, media <- gatewayMedia,
           file <- gatewayFile, heard <- gatewayHeard, opened <- gatewayOpened,
           turns <- gatewayTurns
Tabs == INSTANCE PhoneTabs WITH MaxOpens <- MaxTabs, srv <- tabsSrv, told <- tabsTold,
        wire <- tabsWire, pending <- tabsPending, asked <- tabsAsked, st <- tabsSt,
        said <- tabsSaid, turns <- tabsTurns, acts <- tabsActs
Talk == INSTANCE PhoneVoice WITH MaxActs <- MaxPresses, Live <- TRUE, st <- talkSt,
        opened <- talkOpened, cur <- talkCur, dropped <- talkDropped, asking <- talkAsking,
        gen <- talkGen, turns <- talkTurns, srv <- talkSrv, made <- talkMade,
        muted <- talkMuted, acts <- talkActs

registryVars == <<device, row, vault, registryCode, caller, deleting, tokens, redeemed,
                   registryDropped, overtaken>>
shellsVars == <<owner, enabled, allow, forbid, shell, by, audit, printed, buffer, watching>>
dongleVars == <<pushed, execQ, poll, waiters, host, ran, ioBuf, drained, signer, cached,
                 stored, dongleMinted>>
netVars == <<cloud, safe, netMade, prov, listed, netWire, codes, enrol, newt, down>>
screenVars == <<screenScene, ownId, revoked, poke, screenTold, screenAsking, known,
                 screenLate, hosting, holder, sessions, screenGen, last, attempt,
                 screenStream, screenMedia, waker, sess, ptrs, moved, lpFired, twoFinger,
                 scrolled, lpTimer, pendingMove, kb, did>>
roomVars == <<roomScene, joined, roomMuted, busy, roomGen, session, reply, mouth, player,
               drone, roomCur, open, roomHeard, roomClosing, roomSaid, burst, sock, queue,
               api, seen, from, committed, transcript, finals, given, lost, caption, roomLate, lines,
               roomFaults>>
gatewayVars == <<chat, control, links, live, gatewayClosing, gatewayMade, rpcs,
                  gatewayPending, gatewayAnswers, frames, results, gatewayMedia,
                  gatewayFile, out, gatewayHeard, gatewayOpened, kept, promised, sig,
                  knows, lately, gatewayTurns, resets>>
tabsVars == <<tabsSrv, tabsTold, hist, linked, tabsWire, tabs, front, log, tabsPending,
               bub, ids, tabsAsked, hydrated, tabsSt, tabsSaid, tabsTurns, opens, tabsActs,
               downs, missing, cut>>
talkVars == <<talkSt, talkOpened, opening, mics, talkCur, stops, cancelled, talkDropped,
               talkAsking, talkGen, tries, rtpc, peers, talkTurns, sent, killed, talkSrv,
               left, tts, talkMade, of, synths, sounding, curAudio, talkMuted, suppress,
               talkActs>>

vars == <<part, registryVars, shellsVars, dongleVars, netVars, screenVars, roomVars, gatewayVars,
          tabsVars, talkVars>>

Init ==
  /\ part \in {"registry", "shells", "dongle", "net", "screen", "room", "gateway", "tabs", "talk"}
  /\ Registry!Init /\ Remote!Init /\ Dongle!Init /\ Net!Init /\ Screen!Init /\ Room!Init
  /\ Gateway!Init /\ Tabs!Init /\ Talk!Init
  /\ (part # "shells" => owner = CHOOSE p \in Principals : TRUE)
  /\ (part # "screen" => ownId /\ screenScene = "screen") /\ (part # "room" => roomScene = "channel")

Next ==
  /\ UNCHANGED part
  /\ \/ /\ part = "registry" /\ Registry!Next
        /\ UNCHANGED <<shellsVars, dongleVars, netVars, screenVars, roomVars, gatewayVars,
                        tabsVars, talkVars>>
     \/ /\ part = "shells" /\ Remote!Next
        /\ UNCHANGED <<registryVars, dongleVars, netVars, screenVars, roomVars, gatewayVars,
                        tabsVars, talkVars>>
     \/ /\ part = "dongle" /\ Dongle!Next
        /\ UNCHANGED <<registryVars, shellsVars, netVars, screenVars, roomVars, gatewayVars,
                        tabsVars, talkVars>>
     \/ /\ part = "net" /\ Net!Next
        /\ UNCHANGED <<registryVars, shellsVars, dongleVars, screenVars, roomVars, gatewayVars,
                        tabsVars, talkVars>>
     \/ /\ part = "screen" /\ Screen!Next
        /\ UNCHANGED <<registryVars, shellsVars, dongleVars, netVars, roomVars, gatewayVars,
                        tabsVars, talkVars>>
     \/ /\ part = "room" /\ Room!Next
        /\ UNCHANGED <<registryVars, shellsVars, dongleVars, netVars, screenVars, gatewayVars,
                        tabsVars, talkVars>>
     \/ /\ part = "gateway" /\ Gateway!Next
        /\ UNCHANGED <<registryVars, shellsVars, dongleVars, netVars, screenVars, roomVars,
                        tabsVars, talkVars>>
     \/ /\ part = "tabs" /\ Tabs!Next
        /\ UNCHANGED <<registryVars, shellsVars, dongleVars, netVars, screenVars, roomVars,
                        gatewayVars, talkVars>>
     \/ /\ part = "talk" /\ Talk!Next
        /\ UNCHANGED <<registryVars, shellsVars, dongleVars, netVars, screenVars, roomVars,
                        gatewayVars, tabsVars>>

Spec == Init /\ [][Next]_vars

---------------------------------------------------------------------------
\* Every variable keeps its type.
TypesOK ==
  /\ part = "registry" => Registry!TypeOK
  /\ part = "shells" => Remote!TypeOK
  /\ part = "dongle" => Dongle!TypeOK
  /\ part = "net" => Net!TypeOK
  /\ part = "screen" => Screen!TypeOK
  /\ part = "room" => Room!TypeOK
  /\ part = "gateway" => Gateway!TypeOK
  /\ part = "tabs" => Tabs!TypeOK
  /\ part = "talk" => Talk!TypeOK

\* What is promised is there, and once, however connections come and go: an enrolment code and a
\* command for a host used once, an answer to a command given once, a piece of text in a tab and a
\* spoken word shown once and in order; the whole of a shell for its watcher, a device in the fleet, on
\* the mesh and in the gateway's registry as reported, one live screen for a viewer, a click made by
\* one finger, captions with a microphone, what was heard as it was said.
PromisesHold ==
  /\ part = "registry" => Registry!OneCredentialPerCode
  /\ part = "dongle" => Dongle!RunsOnce
  /\ part = "gateway" => Gateway!AnsweredOnce /\ Gateway!Reachable
  /\ part = "tabs" => Tabs!OnceInOrder
  /\ part = "room" => Room!CaptionFollows /\ Room!HeardAsSaid /\ Room!GateIsMonotone
  /\ part = "shells" => Remote!WatchedWhole
  /\ part = "net" => Net!StatusIsHonest /\ Net!LandsInFleet
  /\ part = "screen" => Screen!OneLiveConnection /\ Screen!ClickIsAlone /\ Screen!StartsClean
  /\ part = "talk" => Talk!CaptionsNeedTheMic

\* What was taken away stays away, and no late event undoes a decision: a revoked token, a
\* capability that is forbidden, the screen of a machine once the broker has heard of it, a stop of
\* the voice, the tab a frame belongs to.
TakenAway ==
  /\ []Registry!DroppedStaysDropped /\ Remote!ForbidWins /\ []Screen!RevokedIsOut
  /\ Room!StoppedNeverSpeaks /\ Tabs!SortedIntoTabs
=============================================================================

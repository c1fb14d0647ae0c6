------------------------------ MODULE MCServices ------------------------------
(***************************************************************************)
(* Between people and the core, and what runs beside the turns: the         *)
(* connectors; backups and updates, telemetry, recordings and speech, the   *)
(* terminal and the views, and what the core tells people on its own        *)
(* account and about itself. The components share no state here: a          *)
(* behaviour is one of one component, chosen at the start.                  *)
(***************************************************************************)
EXTENDS Integers, Sequences, FiniteSets

CONSTANTS Ticks, Photos, Singles, Messages, Texts, Dbs, Config, Home, Jobs, Updates, Dry,
          Services, NewDeps, Broken, Sessions, Pids, Speakers, Diars, Asks, Ttys, Keys,
          Twins, Launches, Subjects, Dongles, NoBody, Notices, Notes, Panes, Dirs

VARIABLES
  part,  \* the component at work
  thread, seen, mine, since, issuesDisk, tick, inflight, running, turnsOf, issuesFalls,
  inboundScene, update, group, batch, polling, lastUpdate, lastSeen, inboundFalls,
  inboundBox, policy, link, lastUid, base, fetch, upto, inboundBusy, tried, sentMail, held,
  beatsFor, inboundFaults,
  aim, fate, pending, turn, channelRecent, channelPosted, silenced, channelConf,
  channelDisk, unsaved, channelChanges,
  upkeepScene, main, wal, writes, upkeepMade, local, job, due, remoteUp, restore, stash,
  over, origin, tree, deps, dash, serving, lock, run, progress, silent, upkeepChat,
  upkeepTold, disturbed,
  insightsMade, wire, spine, insightsRow, usage, cut, titles, tracked, host, timers, hit,
  wrote, offset, insightsReflecting, assessed, insightsFeed, insightsLinked, fetching, done,
  speechScene, meta, text, process, diar, speechAsked, filed, edited, removed,
  speechFaults, at, partial, clips, audio, drone, charged, owed, acks, heardAck, tts,
  sttModel, bound, replies, speechChanges,
  cliScene, claimed, tmux, hands, leftWith, begun, mux, cliLive, cli, tail, entries, torn,
  pen, grown, cliRecent, reading, fed, sending, posts, cliDid,
  viewsScene, inputs, viewsBox, mode, appMode, chosen, rows, lines, draws, acted, died,
  pane, subject, body, asks, viewsDid, current, file, panel, status, polls, viewsEvents,
  viewsFeed, seeded, viewsAsked, cutoff, turns, viewsBusy, viewsLinked, viewsRow, fleet,
  paired, steps, shop, viewsLive, shelf, fetches, mesh, calls, sdk, installs, news, watch,
  now, bodyEvents, label, bodyAsked, chain, bodyReflecting, reflected, kept,
  noticesConf, phone, noticesChat, call, noticesTold, queue, draining, tries,
  noticesPosted, uncleared, manager, noticesChanges, falters

Issues == INSTANCE GitHubPoll WITH MaxComments <- 3, MaxPosts <- 1, MaxFalls <- 1,
          disk <- issuesDisk, falls <- issuesFalls
Arrivals == INSTANCE Inbound WITH Parts <- Photos, MaxImages <- 1, MaxFalls <- 1, MaxMail <- 3,
            MaxFaults <- 1, scene <- inboundScene, falls <- inboundFalls,
            box <- inboundBox, busy <- inboundBusy, faults <- inboundFaults
Channel == INSTANCE DiscordChannel WITH MaxPosts <- 2, MaxChanges <- 1,
           recent <- channelRecent, posted <- channelPosted, conf <- channelConf,
           disk <- channelDisk, changes <- channelChanges
Upkeep == INSTANCE Maintenance WITH Runs <- Updates, Newest <- 2, MaxCount <- 1,
          MaxWrites <- 1, MaxMade <- 2, scene <- upkeepScene, made <- upkeepMade,
          chat <- upkeepChat, told <- upkeepTold
Insights == INSTANCE Collector WITH MaxMade <- 1, MaxDone <- 3, made <- insightsMade,
            row <- insightsRow, reflecting <- insightsReflecting, feed <- insightsFeed,
            linked <- insightsLinked
Speech == INSTANCE Speech WITH Chunks <- 2, MaxFaults <- 2, MaxSentences <- 2,
          MaxReplies <- 2, MaxChanges <- 1, scene <- speechScene, asked <- speechAsked,
          faults <- speechFaults, changes <- speechChanges
Cli == INSTANCE Terminal WITH MaxPieces <- 4, MaxTurns <- 3, scene <- cliScene,
       live <- cliLive, recent <- cliRecent, did <- cliDid
Ui == INSTANCE Views WITH Nothing <- NoBody, MaxAsks <- 2, MaxInputs <- 4, MaxEvents <- 3,
      MaxSdk <- 2, scene <- viewsScene, box <- viewsBox, did <- viewsDid,
      events <- viewsEvents, feed <- viewsFeed, asked <- viewsAsked, busy <- viewsBusy,
      linked <- viewsLinked, row <- viewsRow, live <- viewsLive
Self == INSTANCE Body WITH Window <- 1, StatusMin <- 1, ReflectMax <- 1, MaxEvents <- 2,
        MaxNow <- 1, events <- bodyEvents, asked <- bodyAsked, reflecting <- bodyReflecting
Notify == INSTANCE Outbound WITH Hours <- 3, MaxTries <- 2, MaxChanges <- 1,
          MaxFaults <- 1, conf <- noticesConf, chat <- noticesChat, told <- noticesTold,
          posted <- noticesPosted, changes <- noticesChanges

issuesVars == <<thread, seen, mine, since, issuesDisk, tick, inflight, running, turnsOf,
                 issuesFalls>>
inboundVars == <<inboundScene, update, group, batch, polling, lastUpdate, lastSeen,
                  inboundFalls, inboundBox, policy, link, lastUid, base, fetch, upto,
                  inboundBusy, tried, sentMail, held, beatsFor, inboundFaults>>
channelVars == <<aim, fate, pending, turn, channelRecent, channelPosted, silenced,
                  channelConf, channelDisk, unsaved, channelChanges>>
upkeepVars == <<upkeepScene, main, wal, writes, upkeepMade, local, job, due, remoteUp,
                 restore, stash, over, origin, tree, deps, dash, serving, lock, run,
                 progress, silent, upkeepChat, upkeepTold, disturbed>>
insightsVars == <<insightsMade, wire, spine, insightsRow, usage, cut, titles, tracked,
                   host, timers, hit, wrote, offset, insightsReflecting, assessed,
                   insightsFeed, insightsLinked, fetching, done>>
speechVars == <<speechScene, meta, text, process, diar, speechAsked, filed, edited,
                 removed, speechFaults, at, partial, clips, audio, drone, charged, owed,
                 acks, heardAck, tts, sttModel, bound, replies, speechChanges>>
cliVars == <<cliScene, claimed, tmux, hands, leftWith, begun, mux, cliLive, cli, tail,
              entries, torn, pen, grown, cliRecent, reading, fed, sending, posts, cliDid>>
viewsVars == <<viewsScene, inputs, viewsBox, mode, appMode, chosen, rows, lines, draws,
                acted, died, pane, subject, body, asks, viewsDid, current, file, panel,
                status, polls, viewsEvents, viewsFeed, seeded, viewsAsked, cutoff, turns,
                viewsBusy, viewsLinked, viewsRow, fleet, paired, steps, shop, viewsLive,
                shelf, fetches, mesh, calls, sdk, installs, news, watch>>
bodyVars == <<now, bodyEvents, label, bodyAsked, chain, bodyReflecting, reflected, kept>>
noticesVars == <<noticesConf, phone, noticesChat, call, noticesTold, queue, draining,
                  tries, noticesPosted, uncleared, manager, noticesChanges, falters>>

vars == <<part, issuesVars, inboundVars, channelVars, upkeepVars, insightsVars, speechVars,
          cliVars, viewsVars, bodyVars, noticesVars>>

Init ==
  /\ part \in {"issues", "inbound", "channel", "upkeep", "insights", "speech", "cli",
              "views", "body", "notices"}
  /\ Issues!Init /\ Arrivals!Init /\ Channel!Init /\ Upkeep!Init /\ Insights!Init
  /\ Speech!Init /\ Cli!Init /\ Ui!Init /\ Self!Init /\ Notify!Init
  /\ (part # "inbound" => inboundScene = "albums") /\ (part # "channel" => channelDisk.kind = "none")
  /\ (part # "upkeep" => remoteUp /\ upkeepScene = "update")
  /\ (part # "speech" => speechScene = "tape") /\ (part # "cli" => cliScene = "send")
  /\ (part # "views" => viewsScene = "store" /\ shop = "manager") /\ (part # "notices" => ~phone)

Next ==
  /\ UNCHANGED part
  /\ \/ /\ part = "issues" /\ Issues!Next
        /\ UNCHANGED <<inboundVars, channelVars, upkeepVars, insightsVars, speechVars,
                        cliVars, viewsVars, bodyVars, noticesVars>>
     \/ /\ part = "inbound" /\ Arrivals!Next
        /\ UNCHANGED <<issuesVars, channelVars, upkeepVars, insightsVars, speechVars,
                        cliVars, viewsVars, bodyVars, noticesVars>>
     \/ /\ part = "channel" /\ Channel!Next
        /\ UNCHANGED <<issuesVars, inboundVars, upkeepVars, insightsVars, speechVars,
                        cliVars, viewsVars, bodyVars, noticesVars>>
     \/ /\ part = "upkeep" /\ Upkeep!Next
        /\ UNCHANGED <<issuesVars, inboundVars, channelVars, insightsVars, speechVars,
                        cliVars, viewsVars, bodyVars, noticesVars>>
     \/ /\ part = "insights" /\ Insights!Next
        /\ UNCHANGED <<issuesVars, inboundVars, channelVars, upkeepVars, speechVars,
                        cliVars, viewsVars, bodyVars, noticesVars>>
     \/ /\ part = "speech" /\ Speech!Next
        /\ UNCHANGED <<issuesVars, inboundVars, channelVars, upkeepVars, insightsVars,
                        cliVars, viewsVars, bodyVars, noticesVars>>
     \/ /\ part = "cli" /\ Cli!Next
        /\ UNCHANGED <<issuesVars, inboundVars, channelVars, upkeepVars, insightsVars,
                        speechVars, viewsVars, bodyVars, noticesVars>>
     \/ /\ part = "views" /\ Ui!Next
        /\ UNCHANGED <<issuesVars, inboundVars, channelVars, upkeepVars, insightsVars,
                        speechVars, cliVars, bodyVars, noticesVars>>
     \/ /\ part = "body" /\ Self!Next
        /\ UNCHANGED <<issuesVars, inboundVars, channelVars, upkeepVars, insightsVars,
                        speechVars, cliVars, viewsVars, noticesVars>>
     \/ /\ part = "notices" /\ Notify!Next
        /\ UNCHANGED <<issuesVars, inboundVars, channelVars, upkeepVars, insightsVars,
                        speechVars, cliVars, viewsVars, bodyVars>>

Spec == Init /\ [][Next]_vars

---------------------------------------------------------------------------
\* Every variable keeps its type.
TypesOK ==
  /\ part = "issues" => Issues!TypeOK
  /\ part = "inbound" => Arrivals!TypeOK
  /\ part = "channel" => Channel!TypeOK
  /\ part = "upkeep" => Upkeep!TypeOK
  /\ part = "insights" => Insights!TypeOK
  /\ part = "speech" => Speech!TypeOK
  /\ part = "cli" => Cli!TypeOK
  /\ part = "views" => Ui!TypeOK
  /\ part = "body" => Self!TypeOK
  /\ part = "notices" => Notify!TypeOK

\* Polls, pushes, retries and restarts overlap, and still each thing is done once and in order and
\* stays whole: a turn for a mention, a mail, a post in a channel, the photos of an album, a sentence
\* spoken, an announcement after a restart; what a restore overwrites, the usage of a session, the
\* text and the edits of a recording, the lines of a transcript.  And two sides of one thing agree: a
\* channel's switch and the settings file, services and the modules they run on, a paused channel and
\* its terminal, the row a key acts on, the events of a session, the one question asked of the
\* overlay, an update told once, the relations between sessions, the hours a notice respects.
OnceAndWhole ==
  /\ part = "issues" => Issues!OneTurnPerMention
  /\ part = "inbound" => Arrivals!HandedOverInOrder /\ Arrivals!AlbumsAddUp
  /\ part = "channel" => Channel!NoRepeats /\ Channel!RestartKeepsTheSwitch
  /\ part = "upkeep" => Upkeep!OverwrittenIsStashed /\ Upkeep!RestartedOnItsDeps
  /\ part = "insights" => Insights!TokensAddUp
  /\ part = "speech" => Speech!EditedStays /\ Speech!RemovedStaysRemoved /\ Speech!SegmentsInPlace /\ Speech!SpokenInOrder
  /\ part = "cli" => Cli!LinesArriveWhole /\ Cli!PausedBySomebody
  /\ part = "views" => Ui!AppActsOnWhatItShows /\ Ui!ShownOnce /\ Ui!OneMeshCall /\ Ui!NoListForgotten /\ Ui!ToldOnce
  /\ part = "body" => Self!SharedRepoShows /\ Self!RelationsAsMeant
  /\ part = "notices" => Notify!AnnouncedOnce /\ Notify!QuietIsKept /\ Notify!OneRung

\* Decisions stand: a forced answer, an update that ends where it says, a title locked by hand and
\* the order of reflections, a sentence paid for once, the newest archive that a pruning spares, a
\* label that only moves forward.
DecisionsStand ==
  /\ Channel!ForcedStaysForced /\ Upkeep!EndsWhereItSays /\ Upkeep!NewestIsKept
  /\ Insights!LockedTitleStays /\ Insights!AssessedInOrder /\ Self!LabelsAdvance /\ Speech!ChargedOnce
=============================================================================

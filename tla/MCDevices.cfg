SPECIFICATION Spec
CHECK_DEADLOCK FALSE
CONSTANTS
  OnceCodes = {r1}
  Callers = {q1, q2}
  Principals = {p, q}
  Shells = {s}
  Polls = {p1, p2}
  Signers = {w}
  Enrols = {e}
  Viewers = {v1}
  Fingers = {f1, f2}
  Utterances = {v1, v2}
  Phones = {"d1"}
  Owner = "owner"
  Others = {"k"}
  Name = "eve"
  Greeting = "hey"
  Words = {"do"}
  NoMove = NoMove
  MaxTokens = 2
  MaxOutput = 3
  Scrollback = 2
  MaxCommands = 2
  MaxMinted = 2
  MaxCodes = 1
  MaxPasswords = 2
  MaxAttempts = 2
  MaxActs = 2
  MaxFaults = 1
  MaxGen = 1
  MaxStreams = 1
  MaxWords = 3
  Window = 2
  Backlog = 1
  Sensitivities = {0, 50, 100}
  Confidences = {300, 600, 1000}
  MaxLinks = 2
  MaxRpcs = 1
  MaxOut = 1
  MaxTurns = 1
  MaxResets = 1
  MaxDeltas = 2
  MaxTabs = 1
  MaxDowns = 1
  MaxRecs = 2
  MaxClips = 1
  MaxPresses = 1
INVARIANTS TypesOK PromisesHold
PROPERTY TakenAway

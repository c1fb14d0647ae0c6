SPECIFICATION Spec
CONSTANTS
  Keys = {k1}
  People = {ann, bob}
  Chats = {k1}
  OBSERVE_MAX = 1
  SELFSENT_MAX = 2
  MaxDue = 1
  MaxAnnouncements = 2
  MaxNotes = 2
  Authors = {k1, peer}
INVARIANTS
  TypeOK
  ToldInOrder
  NotesInOrder

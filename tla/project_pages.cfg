SPECIFICATION Spec
CONSTANTS
  Pages <- MCPages
  Stories <- MCStories
  MaxPolls = 1
  FitScale = 2
  MAX_SCALE = 3
  User = {"ana", "bia"}
  Me = "ana"
  Link = {"l1", "l2", "l3"}
  MaxTokens = 2
  ShareStories <- MCShareStories
  Project = {"p1", "p2", "p3", "p4"}
  FirstProjects <- MCFirstProjects
  Title = {"n1", "n2"}
  DashStories <- MCDashStories
  Note = {"i1", "i2", "c1", "o1"}
  NoteKind <- MCNoteKind
  BellStories <- MCBellStories
  Tab = {"t1", "t2"}
  SessionStories <- MCSessionStories
  Value = {"v1", "v2"}
  First = "v1"
  Secret = {"g1", "g2", "g3"}
  AccountStories <- MCAccountStories
INVARIANTS PagesTypeOK
PROPERTIES PagesTrue AccessHolds PagesSettle
CHECK_DEADLOCK FALSE

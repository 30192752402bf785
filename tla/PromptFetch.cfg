\* One refresh: every failure of gh, every history of a check, up to three pull requests.
SPECIFICATION Spec
CONSTANTS
  Main = Main
  Topic = Topic
  NoName = NoName
  NoValue = NoValue
  Branch <- Branches
  Answers <- SomeAnswers
INVARIANTS
  TypeOK
  ReadyIsEarned
  OpenPrsShown
  GroupsMatchPrs
  HotWhileRunning
  SavedCompareIsMoot
  TerminalMeansClosed
\* A refresh ends.
CHECK_DEADLOCK FALSE

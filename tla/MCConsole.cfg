SPECIFICATION ConsoleSpec
CONSTANTS
  Places = {p1, p2}
  Requests = {h1, h2}
  MaxRequests = 3
  MaxEdits = 1
  Routes = {q1}
  OwnChannels = {a}
  ForeignChannels = {x}
  Templates = {m}
  NoTemplate = NoTemplate
  Editors = {h1, h2}
  MaxSaves = 3
  Teams = {tA}
  Groups = {g1, g2}
  AdminGroups = {g2}
  Logins = {h1, h2}
  MaxLogins = 2
  MaxActs = 3
  MaxEvents = 4
  MaxTime = 3
  PageSize = 2
  Cap = 3
  Silences = {s1, s2}
  Callers = {h1, h2}
  MaxCalls = 4
SYMMETRY Symmetry
INVARIANTS
  TypeOK
  DeletionIsComplete
  RulesStaySavable
  ExportIsFaithful
  SilencesAreOwned
PROPERTIES
  ForeignUntouched
  LoginGivesWhatTheDirectoryGives
CHECK_DEADLOCK FALSE

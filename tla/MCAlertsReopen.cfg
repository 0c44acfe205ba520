SPECIFICATION Spec
CONSTANTS
  own = own
  shared = shared
  ownTeam = ownTeam
  otherTeam = otherTeam
  chat = chat
  pager = pager
  Events = {e1}
  NoEvent = NoEvent
  Channels = {chat, pager}
  Rules = {own}
  Teams = {ownTeam, otherTeam}
  Owner = ownTeam
  TeamOf <- RuleTeams
  Suppressors = {}
  Matches <- MatchAll
  NotifiesOn <- FiringOnly
  ChannelsOf <- ToChat
  EscalationsOf <- ToPager
  InitialSettings <- OwnRenotifies
  Choices <- OnOrOff
  Requests = {q1}
  Ids = {1, 2}
  MaxFaults = 0
  MaxEdits = 0
PROPERTIES
  ReopenIsNotified

SPECIFICATION Spec
CONSTANTS
  NoGroup = NoGroup
  NotScored = NotScored
  Pending = Pending
  Ids <- MCIds
  Teams <- MCTeams
  Iran <- MCIran
  CorrectGroups <- MCGroups
  KeyOrder <- MCKeys
  Payloads <- MCPayloads
CHECK_DEADLOCK FALSE
INVARIANT FullMarksNeedAllTeams

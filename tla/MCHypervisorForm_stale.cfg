\* An edit of a hypervisor, or a new one: what is saved was validated.
SPECIFICATION Spec
CONSTANTS
  Urls = {"pve1", "pve2"}
  Creds = {"tok", "pass"}
  Empty = Empty
  Existing <- MCExisting
  Workers = {w1}
  NoName = NoName
  Parses <- MCParses
  Accepts <- MCAccepts
  NameAt <- MCNameAt
CHECK_DEADLOCK FALSE
INVARIANT SavedIsValidated

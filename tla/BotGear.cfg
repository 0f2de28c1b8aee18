SPECIFICATION Spec
CONSTANTS
  i1 = i1 i2 = i2 i3 = i3
  plain = plain better = better best = best
  Items = {i1, i2, i3}
  Entries = {plain, better, best}
  None = None
  Entry <- EachItsOwn
  Score <- Scores
  Unfit = {}
  Enabled <- AllFeatures
  Full = 2
  Meaningful = 1
  ClearMargin = 15
  MaxProtected = 1
  BagSlots = 2
  Reserve = 0
  MaxScanned = 1
  RackSlots = 1
  TTL = 2
  RecheckInterval = 1
  HandshakeResults = {"ACTIVE", "ECHOES_ABSENT"}
  MostAttuned <- Attunements
VIEW Distinguished
INVARIANT GearTypeOK
PROPERTIES ProtectedNeverDissolved DissolvedIsObsolete VetoBlindOnlyBriefly

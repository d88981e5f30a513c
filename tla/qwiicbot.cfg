SPECIFICATION Spec
CONSTANTS
  Names <- MCNames
  Declared <- MCDeclared
  Unlimited = Unlimited
  Settings <- MCSettings
  MaxSettings = 2
  Readings = {14, 60}
  Speeds <- MCSpeeds
  Turns = {60}
  Timeout = 1
  BackTime = 1
  TurnTime = 1
  MaxAge = 3
INVARIANTS ParamsValid ForwardVeto StoppedUnlessCommanded
PROPERTIES EffortCeiling StoreSpec

CONSTANTS
  blue = blue
  green = green
  Instances = {blue, green}
  NoInstance = NoInstance
  NoState = NoState
  MaxRetries = 2
SPECIFICATION Spec
INVARIANTS TypeOK PinHolds
PROPERTIES RemovalIsEarned RunEnds

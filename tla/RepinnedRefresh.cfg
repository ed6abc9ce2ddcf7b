CONSTANTS
  blue = blue
  green = green
  Instances = {blue, green}
  NoInstance = NoInstance
  NoState = NoState
  MaxRetries = 2
SPECIFICATION Spec
PROPERTIES RemovalNeedsItsCreator

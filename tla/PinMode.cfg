SPECIFICATION PinsSpec
CONSTANTS
  Pin = {7, 16, 52, 53}
  CallbackPin = {7}
INVARIANT PinModeSets

SPECIFICATION Spec
CONSTANTS
  Pins <- MCPins
  Programs <- ClearsOne
  MaxIdle = 0
PROPERTY FlagsKept

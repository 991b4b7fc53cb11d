SPECIFICATION LatchFairSpec
CONSTANTS
  fire = fire
  Inputs <- MCInputs
  FireInput = fire
  MaxPresses = 3
INVARIANTS NoPressLost EdgesAccounted
PROPERTIES EveryPressIsRead FireStops

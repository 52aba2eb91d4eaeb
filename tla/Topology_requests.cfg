SPECIFICATION TopologySpec
CONSTANTS
  Assets = {1, 2, 3, 4, 5}
  Devices = {1, 2, 3}
  Groups = {4}
  Parents <- MCParents
  Moves <- MCMoves
  InputPower = {4}
  Members <- MCMembers
  Wires <- MCWires
  Commands = {"from", "to", "filter_dc", "filter_group", "POWER_TO", "input"}
  MaxChanges = 1
  Type <- MCType
  Options <- MCOptions
  Levels = 3
  StackDepth = 9
INVARIANTS CalmAnswerIsExact EndsAreListed CalmLocationIsExact
PROPERTIES EachRequestEnds

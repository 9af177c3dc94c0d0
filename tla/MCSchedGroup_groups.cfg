CONSTANTS
  Tasks = {"s", "t", "u"}
  First = {"s", "t"}
  Groups = {"g", "h"}
  InitGroup = "init"
  Poison = "poison"
  Situations = {"race", "gone"}
SPECIFICATION Spec
CHECK_DEADLOCK FALSE
INVARIANTS ListsAgree OnlyThoseHarm
PROPERTY DestructionEnds

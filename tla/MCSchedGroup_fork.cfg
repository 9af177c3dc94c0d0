CONSTANTS
  Tasks = {"s", "t"}
  First = {"s"}
  Groups = {"g"}
  InitGroup = "init"
  Poison = "poison"
  Situations = {"fork"}
SPECIFICATION Spec
CHECK_DEADLOCK FALSE
INVARIANT DestroyDetachesAll

CONSTANT MaxLength = 5
SPECIFICATION Spec
INVARIANTS RoutedAsMeant PanicsOnBlanks
CHECK_DEADLOCK FALSE

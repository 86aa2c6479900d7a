\* The thread of --timeout against the program's thread, two commands.
SPECIFICATION Spec
CONSTANT MaxCommands = 3
INVARIANTS
    KilledReleasesNobody
    ListedAreEnded
    OwnExitLeavesNothing
PROPERTY StopperExits
CHECK_DEADLOCK FALSE

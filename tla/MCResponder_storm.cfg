\* Everything may go wrong, and staff start the agent by hand.
CONSTANTS
    MaxMessages = 2
    MaxForced = 1
    Trouble <- AnyTrouble
SPECIFICATION Spec
INVARIANTS TypeOK MarkIsEarned
PROPERTIES OnlyOwnRelease

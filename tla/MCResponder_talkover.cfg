\* The agent speaks after the operator has taken over.
CONSTANTS
    MaxMessages = 2
    MaxForced = 0
    Trouble <- NoTrouble
SPECIFICATION Spec
PROPERTIES SilentWhilePaused

\* A message that comes while the context is built is answered twice.
CONSTANTS
    MaxMessages = 2
    MaxForced = 0
    Trouble <- NoTrouble
SPECIFICATION Spec
PROPERTIES NoSecondAnswer

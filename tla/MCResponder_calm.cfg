\* Nothing goes wrong: three messages, three tasks.
CONSTANTS
    MaxMessages = 3
    MaxForced = 0
    Trouble <- NoTrouble
SPECIFICATION FairSpec
INVARIANTS OneAtATime
PROPERTIES ImplementsReplyLog EveryMessageSettled

\* One administrator and one clerk, one system role and one of the staff's own, three changes of rights;
\* two conversations to nudge and two runs of the job;
\* three rows of a product, a box and two policies; one order of three lines and two requests at a time.
CONSTANTS
    User = {admin, clerk}
    Admin = admin
    Role = {"Super Admin", "custom"}
    Code <- Codes
    Matrix <- Checkboxes
    MaxEdits = 3
    Account = {anna, bek}
    Token = {t1, t2}
    Limit = 2
    Batch = 2
    Talk = {talk1, talk2}
    Run = {r1, r2}
    MaxCalls = 3
    SettingKey = {aiEnabled}
    PromptKey = {fallback}
    Title = {warranty}
    Bot = {bot1, bot2}
    Secret = {s1, s2}
    None = None
    Amount = {1, 2}
    Letters = {0, 1, 2}
    Text = {0, 1, 2}
    RingSize = {size, other}
    Listed = {size}
    Colour = {red}
    Count = {0, 1}
    Pieces = {1, 2}
    Unset = Unset
    Assortment <- Jewellery
    Policy <- Policies
    Bills = 1
    Line = {1, 2, 3}
    Value <- ValueOf
    Desk = {1, 2}
SPECIFICATION Spec
INVARIANTS TypeOK StaleIsExplained UnheardIsExplained NoSecondNudge TotalIsLines AsksForWhatIsDue
PROPERTIES SeedRestoresAdmin CacheConverges LoggedOutStaysOut LockEnds SeedsKeepEdits FewQuietAreAllReached
    BriefIsHonoured
CHECK_DEADLOCK FALSE

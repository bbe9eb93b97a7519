-------------------------- MODULE BackOfficeProofs --------------------------
(***************************************************************************)
(* Theorems about the parts behind the customer that keep few rows each:   *)
(* the configuration and its seeds, the sessions of the staff, and the     *)
(* job that nudges silent customers; and about the back office as a whole, *)
(* whose behaviours are behaviours of each of its parts.                   *)
(***************************************************************************)
EXTENDS MCBackOffice, AccessProofs, SalesProofs, FunctionTheorems

-----------------------------------------------------------------------------
(* Configuration.                                                          *)

ConfigurationInv == ConfigurationTypeOK /\ UnheardIsExplained

LEMMA InitConfigurationInv == ConfigurationInit => ConfigurationInv
BY DEF ConfigurationInit, ConfigurationInv, ConfigurationTypeOK, UnheardIsExplained, Heard, NotSetUp, Row

LEMMA StepConfigurationInv == ConfigurationInv /\ [ConfigurationNext]_configVars => ConfigurationInv'
<1> SUFFICES ASSUME ConfigurationInv, [ConfigurationNext]_configVars PROVE ConfigurationInv'
    OBVIOUS
<1> USE DEF ConfigurationInv, ConfigurationTypeOK, UnheardIsExplained, Heard
<1>1. CASE TableStep
    <2>1. UNCHANGED hookVars
        BY <1>1 DEF TableStep, UpdateSetting, UpdatePrompt, ResetPrompt, CreateKnowledge, UpdateKnowledge,
                    DeleteKnowledge, SeedPrompts
    <2>2. setting' \in [Key -> Row]
        BY <1>1 DEF TableStep, UpdateSetting, UpdatePrompt, ResetPrompt, CreateKnowledge, UpdateKnowledge,
                    DeleteKnowledge, SeedPrompts, Key, Row
    <2>3. knowledge' \subseteq Title \X {"shipped", "edited"}
        BY <1>1 DEF TableStep, UpdateSetting, UpdatePrompt, ResetPrompt, CreateKnowledge, UpdateKnowledge,
                    DeleteKnowledge, SeedPrompts
    <2>4. QED
        BY <2>1, <2>2, <2>3 DEF hookVars
<1>2. ASSUME NEW b \in Bot \cup {None}, SetBot(b) PROVE ConfigurationInv'
    BY <1>2 DEF SetBot, tableVars
<1>3. ASSUME NEW s \in Secret \cup {None}, SetSecret(s) PROVE ConfigurationInv'
    BY <1>3 DEF SetSecret, tableVars
<1>4. CASE BeginSetup
    BY <1>4 DEF BeginSetup, tableVars, NotSetUp
<1>5. CASE FinishSetup
    <2>1. CASE UNCHANGED <<hook, moved>>
        BY <1>5, <2>1 DEF FinishSetup, tableVars, NotSetUp
    <2>2. CASE /\ bot # None
               /\ hook' = [hook EXCEPT ![bot] = {setup.secret}]
               /\ moved' = IF setup.secret = secret THEN moved \ {bot} ELSE moved \cup {bot}
        <3>1. bot \in Bot /\ UNCHANGED <<bot, secret, setting, knowledge>> /\ setup' = NotSetUp
            BY <1>5, <2>2 DEF FinishSetup, tableVars
        <3>2. \A b \in Bot : hook'[b] = IF b = bot THEN {setup.secret} ELSE hook[b]
            BY <2>2
        <3>3. hook' \in [Bot -> SUBSET (Secret \cup {None})] /\ moved' \subseteq Bot
            BY <2>2, <3>1
        <3>4. setup' \in [on : BOOLEAN, secret : Secret \cup {None}]
            BY <3>1 DEF NotSetUp
        <3>5. ASSUME NEW b \in Bot PROVE Heard(b)' \/ b \in moved'
            BY <2>2, <3>1, <3>2
        <3>6. QED
            BY <3>1, <3>3, <3>4, <3>5
    <2>3. QED
        BY <1>5, <2>1, <2>2 DEF FinishSetup
<1>6. CASE RemoveWebhook
    BY <1>6 DEF RemoveWebhook, tableVars
<1>7. CASE Start
    <2>1. setting' \in [Key -> Row] /\ knowledge' \subseteq Title \X {"shipped", "edited"}
        BY <1>7 DEF Start, Seeds, Row
    <2>2. setup' \in [on : BOOLEAN, secret : Secret \cup {None}]
        <3>1. setup' = [on |-> TRUE, secret |-> secret] \/ setup' = setup
            BY <1>7 DEF Start
        <3>2. CASE setup' = [on |-> TRUE, secret |-> secret]
            BY <3>2
        <3>3. QED
            BY <3>1, <3>2
    <2>3. QED
        BY <1>7, <2>1, <2>2 DEF Start
<1>8. CASE UNCHANGED configVars
    BY <1>8 DEF configVars
<1>9. QED
    BY <1>1, <1>2, <1>3, <1>4, <1>5, <1>6, <1>7, <1>8 DEF ConfigurationNext, HookStep

\* The configuration keeps its types, for any keys, texts, bots and secrets.
THEOREM ConfigurationTyped == ConfigurationSpec => []ConfigurationTypeOK
<1>1. ConfigurationInv => ConfigurationTypeOK
    BY DEF ConfigurationInv
<1>2. QED
    BY <1>1, InitConfigurationInv, StepConfigurationInv, PTL DEF ConfigurationSpec

\* For any bots and secrets an update of a registered bot is let in, unless the secret was changed since, or while, the
\* bot was registered (verify_secret, telegram_set_webhook).
THEOREM UnheardExplained == ConfigurationSpec => []UnheardIsExplained
<1>1. ConfigurationInv => UnheardIsExplained
    BY DEF ConfigurationInv
<1>2. QED
    BY <1>1, InitConfigurationInv, StepConfigurationInv, PTL DEF ConfigurationSpec

\* A start of the server, or an unforced seed of the prompts, overwrites nothing and leaves every text in force as it is,
\* for any settings, prompts and knowledge (seed_settings, seed_knowledge, seed_ai_prompts).
THEOREM EditsKept == ConfigurationSpec => SeedsKeepEdits
<1> DEFINE A == Start \/ SeedPrompts(FALSE) =>
                    /\ \A k \in Key : EffectiveText(k)' = EffectiveText(k) /\ (setting[k] # "missing" => setting'[k] = setting[k])
                    /\ knowledge \subseteq knowledge'
                    /\ \A row \in knowledge' \ knowledge : ~\E old \in knowledge : old[1] = row[1]
<1>1. ASSUME Start PROVE A
    BY <1>1 DEF Start, Seeds, EffectiveText
<1>2. ASSUME SeedPrompts(FALSE) PROVE A
    BY <1>2 DEF SeedPrompts, EffectiveText, hookVars
<1>3. [ConfigurationNext]_configVars => [A]_configVars
    BY <1>1, <1>2
<1>4. QED
    BY <1>3, PTL DEF ConfigurationSpec, SeedsKeepEdits

-----------------------------------------------------------------------------
(* Sessions.                                                               *)

\* A token that was logged out and is still good for longer than a second has its entry.
Blacklisted ==
    /\ SessionsTypeOK
    /\ \A t \in loggedOut : life[t] # "unused" /\ (life[t] = "fresh" => t \in blacklist)

LEMMA StepSessionsTypeOK == SessionsTypeOK /\ [SessionsNext]_sessionVars => SessionsTypeOK'
<1> SUFFICES ASSUME SessionsTypeOK, [SessionsNext]_sessionVars PROVE SessionsTypeOK'
    OBVIOUS
<1> USE SessionsAssumption DEF SessionsTypeOK
<1>1. ASSUME NEW a \in Account, Issue(a)
      PROVE  owner' \in [Token -> Account] /\ life' \in [Token -> {"unused", "fresh", "last", "expired"}]
    BY <1>1 DEF Issue
<1>2. CASE LoginStep
    <2>1. ASSUME LoginAnswer
          PROVE  /\ owner' \in [Token -> Account] /\ life' \in [Token -> {"unused", "fresh", "last", "expired"}]
                 /\ UNCHANGED <<enabled, blacklist, checked, loggedOut>>
        BY <1>1, <2>1 DEF LoginAnswer
    <2>2. CASE FirstCall
        BY <2>2 DEF FirstCall, tokenVars
    <2>3. CASE Arm
        BY <2>1, <2>3 DEF Arm
    <2>4. CASE LaterCall
        <3>1. calls' \in 0 .. MaxCalls
            BY <2>4 DEF LaterCall
        <3>2. QED
            BY <2>1, <2>4, <3>1 DEF LaterCall, tokenVars
    <2>5. CASE DieBeforeArming
        BY <2>5 DEF DieBeforeArming, tokenVars
    <2>6. CASE WindowEnds
        <3>1. calls' \in 0 .. MaxCalls
            BY <2>6 DEF WindowEnds
        <3>2. QED
            BY <2>6, <3>1 DEF WindowEnds, tokenVars
    <2>7. QED
        BY <1>2, <2>2, <2>3, <2>4, <2>5, <2>6 DEF LoginStep
<1>3. ASSUME NEW t \in Token, TokenStep(t) PROVE SessionsTypeOK'
    <2>1. CASE RefreshAnswered(t)
        BY <1>1, <2>1 DEF RefreshAnswered, windowVars
    <2>2. CASE RefreshChecked(t) \/ Logout(t) \/ EntryLapses(t)
        BY <2>2 DEF RefreshChecked, Logout, EntryLapses, windowVars
    <2>3. CASE Age(t)
        BY <2>3 DEF Age, windowVars
    <2>4. QED
        BY <1>3, <2>1, <2>2, <2>3 DEF TokenStep
<1>4. ASSUME NEW accounts \in SUBSET Account, SetEnabled(accounts) PROVE SessionsTypeOK'
    BY <1>4 DEF SetEnabled, tokenVars, windowVars
<1>5. CASE UNCHANGED sessionVars
    BY <1>5 DEF sessionVars
<1>6. QED
    BY <1>2, <1>3, <1>4, <1>5 DEF SessionsNext

LEMMA IssueKeeps ==
    ASSUME Blacklisted, NEW a, Issue(a), UNCHANGED <<blacklist, loggedOut>>, SessionsTypeOK' PROVE Blacklisted'
BY DEF Issue, Blacklisted, SessionsTypeOK

LEMMA StepBlacklisted == Blacklisted /\ [SessionsNext]_sessionVars => Blacklisted'
<1> SUFFICES ASSUME Blacklisted, [SessionsNext]_sessionVars PROVE Blacklisted'
    OBVIOUS
<1>0. SessionsTypeOK'
    BY StepSessionsTypeOK DEF Blacklisted
<1>1. CASE UNCHANGED <<life, blacklist, loggedOut>>
    BY <1>0, <1>1 DEF Blacklisted
<1>2. CASE LoginAnswer
    BY <1>0, <1>1, <1>2, IssueKeeps DEF LoginAnswer
<1>3. CASE LoginStep
    BY <1>1, <1>2, <1>3 DEF LoginStep, FirstCall, Arm, LaterCall, DieBeforeArming, WindowEnds, tokenVars
<1>4. ASSUME NEW t \in Token, TokenStep(t) PROVE Blacklisted'
    <2>1. CASE RefreshChecked(t)
        BY <1>1, <2>1 DEF RefreshChecked
    <2>2. CASE RefreshAnswered(t)
        BY <1>0, <1>1, <2>2, IssueKeeps DEF RefreshAnswered
    <2>3. CASE Logout(t)
        BY <1>0, <2>3 DEF Logout, Decodes, Blacklisted
    <2>4. CASE Age(t)
        BY <1>0, <2>4 DEF Age, Blacklisted, SessionsTypeOK
    <2>5. CASE EntryLapses(t)
        BY <1>0, <2>5 DEF EntryLapses, Blacklisted
    <2>6. QED
        BY <1>4, <2>1, <2>2, <2>3, <2>4, <2>5 DEF TokenStep
<1>5. ASSUME NEW accounts, SetEnabled(accounts) PROVE Blacklisted'
    BY <1>1, <1>5 DEF SetEnabled, tokenVars
<1>6. QED
    BY <1>1, <1>3, <1>4, <1>5 DEF SessionsNext, sessionVars

LEMMA InitBlacklisted == SessionsInit => Blacklisted
<1>1. (CHOOSE a \in Account : TRUE) \in Account
    BY SessionsAssumption
<1>2. QED
    <2>1. SessionsInit => owner \in [Token -> Account] /\ life \in [Token -> {"unused", "fresh", "last", "expired"}]
        BY <1>1 DEF SessionsInit
    <2>2. SessionsInit => calls \in 0 .. MaxCalls
        BY SessionsAssumption DEF SessionsInit
    <2>3. QED
        BY <2>1, <2>2 DEF SessionsInit, Blacklisted, SessionsTypeOK

\* The sessions keep their types, for any accounts, tokens and limits.
THEOREM SessionsTyped == SessionsSpec => []SessionsTypeOK
<1>1. Blacklisted => SessionsTypeOK
    BY DEF Blacklisted
<1>2. QED
    BY <1>1, InitBlacklisted, StepBlacklisted, PTL DEF SessionsSpec

\* For any accounts, tokens and limits a refresh that begins after its token was logged out is refused, but for the last
\* second or two of the token (logout, decode_token, is_blacklisted).
THEOREM StaysOut == SessionsSpec => LoggedOutStaysOut
<1> DEFINE A == \A t \in loggedOut : t \in checked' \ checked => life[t] = "last"
<1>1. ASSUME Blacklisted, SessionsNext PROVE A
    <2>1. ASSUME NEW t \in Token, RefreshChecked(t) PROVE A
        BY <1>1, <2>1 DEF RefreshChecked, Decodes, Blacklisted, SessionsTypeOK
    <2>2. CASE checked' \subseteq checked
        BY <2>2
    <2>3. CASE LoginStep
        BY <2>2, <2>3 DEF LoginStep, FirstCall, Arm, LaterCall, DieBeforeArming, WindowEnds, LoginAnswer, tokenVars
    <2>4. ASSUME NEW t \in Token, RefreshAnswered(t) \/ Logout(t) \/ Age(t) \/ EntryLapses(t) PROVE A
        BY <2>2, <2>4 DEF RefreshAnswered, Logout, Age, EntryLapses
    <2>5. ASSUME NEW accounts, SetEnabled(accounts) PROVE A
        BY <2>2, <2>5 DEF SetEnabled, tokenVars
    <2>6. QED
        BY <1>1, <2>1, <2>3, <2>4, <2>5 DEF SessionsNext, TokenStep
<1>2. Blacklisted /\ [SessionsNext]_sessionVars => [A]_sessionVars
    BY <1>1
<1>3. QED
    BY <1>2, InitBlacklisted, StepBlacklisted, PTL DEF SessionsSpec, LoggedOutStaysOut

-----------------------------------------------------------------------------
(* Re-engagement.                                                          *)

LEMMA PlacesOfActive ==
    ASSUME place \in Injection(Talk, Place), NEW c \in Talk, Active(c)
    PROVE  place' \in Injection(Talk, Place)
<1> DEFINE n == Cardinality(Talk)
<1>1. n \in Nat
    BY ReengagementAssumption, FS_CardinalityType
<1>2. /\ place \in [Talk -> 1 .. n]
      /\ \A d, e \in Talk : place[d] = place[e] => d = e
    BY DEF Injection, IsInjective, Place
<1>3. /\ place' = [d \in Talk |-> CASE d = c -> n
                                 [] place[d] > place[c] -> place[d] - 1
                                 [] OTHER -> place[d]]
    BY DEF Active
<1> HIDE DEF n
<1>4. \A d \in Talk : place'[d] \in 1 .. n
    BY <1>1, <1>2, <1>3
<1>5. ASSUME NEW d \in Talk, NEW e \in Talk, place'[d] = place'[e] PROVE d = e
    BY <1>1, <1>2, <1>3, <1>5
<1>6. place' \in [Talk -> Place]
    BY <1>3, <1>4 DEF Place, n
<1>7. QED
    BY <1>5, <1>6 DEF Injection, IsInjective

\* The types without the places, which no decision about a nudge depends on but the choice of the oldest.
Talks ==
    /\ lastFrom \in [Talk -> {"incoming", "outgoing"}]
    /\ nudges \in [Talk -> 0 .. 2]
    /\ shared \subseteq Talk
    /\ DOMAIN list = Run /\ \A r \in Run : DOMAIN list[r] \subseteq Talk

\* A customer who wrote last was not nudged since, and whoever is on two lists, or on one after a nudge, is shared.
NudgeInv ==
    /\ Talks
    /\ \A c \in Talk : lastFrom[c] = "incoming" => nudges[c] = 0
    /\ \A c \in Talk, r \in Run : nudges[c] > 0 /\ c \in DOMAIN list[r] => c \in shared
    /\ \A c \in Talk, r, q \in Run : r # q /\ c \in DOMAIN list[r] /\ c \in DOMAIN list[q] => c \in shared
    /\ NoSecondNudge

LEMMA InitNudgeInv == ReengagementInit => NudgeInv
BY DEF ReengagementInit, NudgeInv, Talks, NoSecondNudge, Nobody

LEMMA NudgeKeeps == ASSUME NudgeInv, NEW r \in Run, NEW c \in Talk, Nudge(r, c) PROVE NudgeInv'
<1> USE DEF NudgeInv, Talks
<1>1. /\ c \in DOMAIN list[r] /\ shared' = shared
      /\ lastFrom' = [lastFrom EXCEPT ![c] = "outgoing"]
      /\ nudges' = [nudges EXCEPT ![c] = IF @ < 2 THEN @ + 1 ELSE @]
    BY DEF Nudge, Turn
<1>2. /\ DOMAIN list' = Run
      /\ \A q \in Run : DOMAIN list'[q] \subseteq DOMAIN list[q] \ (IF q = r THEN {c} ELSE {})
    BY DEF Nudge, Restrict, Nobody
<1>3. /\ nudges'[c] \in 0 .. 2
      /\ nudges'[c] > 1 => nudges[c] > 0
      /\ \A d \in Talk \ {c} : nudges'[d] = nudges[d] /\ lastFrom'[d] = lastFrom[d]
    BY <1>1
<1>4. Talks'
    BY <1>1, <1>2, <1>3
<1>5. \A d \in Talk : lastFrom'[d] = "incoming" => nudges'[d] = 0
    BY <1>1, <1>3
<1>6. ASSUME NEW d \in Talk, NEW q \in Run, nudges'[d] > 0, d \in DOMAIN list'[q] PROVE d \in shared'
    BY <1>1, <1>2, <1>3, <1>6
<1>7. \A d \in Talk, p, q \in Run : p # q /\ d \in DOMAIN list'[p] /\ d \in DOMAIN list'[q] => d \in shared'
    BY <1>1, <1>2
<1>8. ASSUME NEW d \in Talk, nudges'[d] > 1 PROVE d \in shared'
    BY <1>1, <1>3, <1>8 DEF NoSecondNudge
<1>9. QED
    BY <1>4, <1>5, <1>6, <1>7, <1>8 DEF NoSecondNudge

LEMMA StepNudgeInv == NudgeInv /\ [ReengagementNext]_reengagementVars => NudgeInv'
<1> SUFFICES ASSUME NudgeInv, [ReengagementNext]_reengagementVars PROVE NudgeInv'
    OBVIOUS
<1> USE DEF NudgeInv, Talks, NoSecondNudge
<1>1. ASSUME NEW c \in Talk, CustomerWrites(c) PROVE NudgeInv'
    BY <1>1 DEF CustomerWrites
<1>2. ASSUME NEW c \in Talk, ShopWrites(c) \/ Transfer(c) \/ SetPause(c) \/ Older(c) PROVE NudgeInv'
    <2>1. /\ UNCHANGED <<list, nudges, shared>>
          /\ lastFrom' = lastFrom \/ lastFrom' = [lastFrom EXCEPT ![c] = "outgoing"]
        BY <1>2 DEF ShopWrites, Transfer, SetPause, Older
    <2>2. QED
        BY <2>1
<1>3. ASSUME NEW r \in Run, Beat(r) PROVE NudgeInv'
    <2>1. /\ list' = [list EXCEPT ![r] = [c \in Candidates |-> place[c]]]
          /\ shared' = shared \cup {c \in Candidates : \E q \in Run \ {r} : c \in DOMAIN list[q]}
          /\ UNCHANGED <<lastFrom, nudges>>
        BY <1>3 DEF Beat
    <2>2. Candidates \subseteq Talk /\ \A c \in Candidates : nudges[c] = 0
        BY DEF Candidates, Oldest
    <2>3. /\ DOMAIN list' = Run /\ DOMAIN list'[r] = Candidates
          /\ \A q \in Run \ {r} : DOMAIN list'[q] = DOMAIN list[q]
        BY <2>1
    <2>4. Talks'
        BY <2>1, <2>2, <2>3
    <2>5. \A c \in Talk, q \in Run : nudges'[c] > 0 /\ c \in DOMAIN list'[q] => c \in shared'
        BY <2>1, <2>2, <2>3
    <2>6. \A c \in Talk, p, q \in Run : p # q /\ c \in DOMAIN list'[p] /\ c \in DOMAIN list'[q] => c \in shared'
        BY <2>1, <2>2, <2>3
    <2>7. QED
        BY <2>1, <2>4, <2>5, <2>6
<1>4. CASE UNCHANGED reengagementVars
    BY <1>4 DEF reengagementVars
<1>5. QED
    BY <1>1, <1>2, <1>3, <1>4, NudgeKeeps DEF ReengagementNext

\* However runs of the job overlap, break off and find conversations again, a customer who does not write gets one nudge,
\* or the conversation was on two lists at once (find_candidates, ReengagementService.run).
THEOREM NudgedOnce == ReengagementSpec => []NoSecondNudge
<1>1. NudgeInv => NoSecondNudge
    BY DEF NudgeInv
<1>2. QED
    BY <1>1, InitNudgeInv, StepNudgeInv, PTL DEF ReengagementSpec

\* What the types add to them.
Ages ==
    /\ place \in Injection(Talk, Place)
    /\ age \in [Talk -> {"fresh", "quiet", "lapsed"}]
    /\ paused \in [Talk -> BOOLEAN]
    /\ \A r \in Run : list[r] \in [DOMAIN list[r] -> Place]

LEMMA InitAges == ReengagementInit => Ages
<1>1. ExistsBijection(Talk, Place)
    BY ReengagementAssumption, FS_CardinalityType, Fun_ExistsBijSymmetric DEF Place
<1>2. Injection(Talk, Place) # {}
    BY <1>1 DEF ExistsBijection, Bijection
<1>3. (CHOOSE order \in Injection(Talk, Place) : TRUE) \in Injection(Talk, Place)
    BY <1>2
<1>4. QED
    BY <1>3 DEF ReengagementInit, Ages, Nobody

LEMMA StepAges == Talks /\ Ages /\ [ReengagementNext]_reengagementVars => Ages'
<1> SUFFICES ASSUME Talks, Ages, [ReengagementNext]_reengagementVars PROVE Ages'
    OBVIOUS
<1> USE DEF Ages
<1>1. ASSUME NEW c \in Talk, Active(c) PROVE place' \in Injection(Talk, Place) /\ age' \in [Talk -> {"fresh", "quiet", "lapsed"}]
    BY <1>1, PlacesOfActive DEF Active
<1>2. ASSUME NEW c \in Talk, CustomerWrites(c) \/ ShopWrites(c) PROVE Ages'
    BY <1>1, <1>2 DEF CustomerWrites, ShopWrites
<1>3. ASSUME NEW c \in Talk, Transfer(c) \/ SetPause(c) PROVE Ages'
    BY <1>3 DEF Transfer, SetPause
<1>4. ASSUME NEW c \in Talk, Older(c) PROVE Ages'
    BY <1>4 DEF Older
<1>5. ASSUME NEW r \in Run, Beat(r) PROVE Ages'
    <2>1. [c \in Candidates |-> place[c]] \in [Candidates -> Place]
        BY DEF Candidates, Oldest, Injection
    <2>2. \A q \in Run : list'[q] \in [DOMAIN list'[q] -> Place]
        BY <1>5, <2>1 DEF Beat, Talks
    <2>3. QED
        BY <1>5, <2>2 DEF Beat
<1>6. ASSUME NEW r \in Run, NEW c \in Talk, Nudge(r, c) PROVE Ages'
    <2>1. Active(c) /\ paused' = paused
        BY <1>6 DEF Nudge
    <2>2. \/ list' = [list EXCEPT ![r] = Restrict(@, DOMAIN @ \ {c})]
          \/ list' = [list EXCEPT ![r] = Nobody]
        BY <1>6 DEF Nudge
    <2>3. list'[r] = Restrict(list[r], DOMAIN list[r] \ {c}) \/ list'[r] = Nobody
        BY <2>2 DEF Talks
    <2>4. list'[r] \in [DOMAIN list'[r] -> Place]
        <3>1. list[r] \in [DOMAIN list[r] -> Place]
            OBVIOUS
        <3>2. Nobody \in [DOMAIN Nobody -> Place]
            BY DEF Nobody
        <3>3. Restrict(list[r], DOMAIN list[r] \ {c}) \in [DOMAIN list[r] \ {c} -> Place]
            BY <3>1 DEF Restrict
        <3>4. QED
            BY <2>3, <3>2, <3>3
    <2>5. \A q \in Run \ {r} : list'[q] = list[q]
        BY <2>2 DEF Talks
    <2>6. QED
        BY <1>1, <2>1, <2>4, <2>5
<1>7. CASE UNCHANGED reengagementVars
    BY <1>7 DEF reengagementVars
<1>8. QED
    BY <1>2, <1>3, <1>4, <1>5, <1>6, <1>7 DEF ReengagementNext

\* The job keeps its types: the order of activity stays an order, for any conversations, runs and limit.
THEOREM ReengagementTyped == ReengagementSpec => []ReengagementTypeOK
<1>1. NudgeInv => Talks
    BY DEF NudgeInv
<1>2. Talks /\ Ages => ReengagementTypeOK
    BY DEF Talks, Ages, ReengagementTypeOK
<1>3. QED
    BY <1>1, <1>2, InitNudgeInv, StepNudgeInv, InitAges, StepAges, PTL DEF ReengagementSpec

-----------------------------------------------------------------------------
(* The back office.  A step of the composition is a step of one part and   *)
(* a stutter of every other, whatever its constants, so that what a part   *)
(* keeps by itself it keeps here.                                          *)

\* The composition starts and moves each part as the part's own specification does, with the fairness it asks for.
THEOREM BackOfficeParts ==
    Spec => /\ AccessSpec /\ SessionsSpec /\ ConfigurationSpec
            /\ ReengagementSpec /\ OfferSpec /\ SaleSpec
<1>1. Init => /\ AccessInit /\ SessionsInit /\ ConfigurationInit
              /\ ReengagementInit /\ OfferInit /\ SaleInit
    BY DEF Init
<1>2. [Next]_backOffice => [AccessNext]_accessVars
    BY DEF Next, backOffice
<1>3. [Next]_backOffice => [SessionsNext]_sessionVars
    BY DEF Next, backOffice
<1>4. [Next]_backOffice => [ConfigurationNext]_configVars
    BY DEF Next, backOffice
<1>5. [Next]_backOffice => [ReengagementNext]_reengagementVars
    BY DEF Next, backOffice
<1>6. [Next]_backOffice => [OfferNext]_offerVars
    BY DEF Next, backOffice
<1>7. [Next]_backOffice => [SaleNext]_saleVars
    BY DEF Next, backOffice
<1>8. QED
    BY <1>1, <1>2, <1>3, <1>4, <1>5, <1>6, <1>7, PTL
    DEF Spec, AccessSpec, SessionsSpec, ConfigurationSpec, ReengagementSpec, OfferSpec, SaleSpec

\* Every variable of the back office keeps its type, for any users, tokens, settings, conversations, offers and bills.
THEOREM BackOfficeTyped == Spec => []TypeOK
<1>1. AccessTypeOK /\ SessionsTypeOK /\ ConfigurationTypeOK /\ ReengagementTypeOK /\ OfferTypeOK /\ SaleTypeOK => TypeOK
    BY DEF TypeOK
<1>2. QED
    BY <1>1, BackOfficeParts, AccessTyped, SessionsTyped, ConfigurationTyped, ReengagementTyped, OfferTyped, SaleTyped, PTL
=============================================================================

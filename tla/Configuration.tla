---------------------------- MODULE Configuration ---------------------------
(***************************************************************************)
(* What the staff configure at run time: settings, prompt texts, knowledge *)
(* and the tokens of the messengers, the seeds that run at every start of  *)
(* the server, and the webhook that the server registers with Telegram.    *)
(*                                                                         *)
(* A value of a row is the one the source ships ("shipped") or one that    *)
(* the staff gave it ("edited").  Tokens and secrets are told apart, since *)
(* Telegram keeps, per bot, the address and the secret of the last         *)
(* setWebhook, while the server compares with the row of today.            *)
(***************************************************************************)
EXTENDS FiniteSets

CONSTANTS
    SettingKey,    \* keys of DEFAULT_SETTINGS
    PromptKey,     \* keys of AI_PROMPTS
    Title,         \* titles of DEFAULT_KNOWLEDGE
    Bot,           \* bot tokens the staff may enter
    Secret,        \* webhook secrets the staff may enter
    None           \* no value: an empty string, or an inactive row

Key == SettingKey \cup PromptKey

ASSUME ConfigurationAssumption == SettingKey \cap PromptKey = {} /\ None \notin Bot \cup Secret

VARIABLES
    setting,      \* the row of each key, prompts included
    knowledge,    \* rows of the knowledge base: a title and a text
    bot,          \* telegram/bot_token, as get_config_value returns it
    secret,       \* telegram/webhook_secret, as get_config_value returns it
    hook,         \* at Telegram: the secret of each bot registered for our address, if it is
    setup,        \* the webhook registration that is running, and the secret it has read
    moved         \* history: bots whose registration no longer has the secret of the row

configVars == <<setting, knowledge, bot, secret, hook, setup, moved>>
tableVars == <<setting, knowledge>>
hookVars == <<bot, secret, hook, setup, moved>>

Row == {"missing", "shipped", "edited"}
NotSetUp == [on |-> FALSE, secret |-> None]

\* Every variable keeps its type.
ConfigurationTypeOK ==
    /\ setting \in [Key -> Row]
    /\ knowledge \subseteq Title \X {"shipped", "edited"}
    /\ bot \in Bot \cup {None}
    /\ secret \in Secret \cup {None}
    /\ hook \in [Bot -> SUBSET (Secret \cup {None})]
    /\ setup \in [on : BOOLEAN, secret : Secret \cup {None}]
    /\ moved \subseteq Bot

-----------------------------------------------------------------------------
(* Settings, prompts and knowledge.                                        *)

UpdateSetting(k) ==
    /\ setting' = [setting EXCEPT ![k] = "edited"]
    /\ UNCHANGED <<knowledge, hookVars>>

\* update_ai_prompt takes the keys of the registry only; it is the same upsert.
UpdatePrompt(k) == k \in PromptKey /\ UpdateSetting(k)

ResetPrompt(k) ==
    /\ k \in PromptKey
    /\ setting' = [setting EXCEPT ![k] = "missing"]
    /\ UNCHANGED <<knowledge, hookVars>>

\* get_ai_text: the row, else the text of the registry.
EffectiveText(k) == IF setting[k] = "edited" THEN "edited" ELSE "shipped"

CreateKnowledge(t) ==
    /\ knowledge' = knowledge \cup {<<t, "edited">>}
    /\ UNCHANGED <<setting, hookVars>>

UpdateKnowledge(row, t) ==
    /\ row \in knowledge
    /\ knowledge' = (knowledge \ {row}) \cup {<<t, "edited">>}
    /\ UNCHANGED <<setting, hookVars>>

DeleteKnowledge(row) ==
    /\ row \in knowledge
    /\ knowledge' = knowledge \ {row}
    /\ UNCHANGED <<setting, hookVars>>

SeedsOverwrite ==
    /\ setting' = [k \in Key |-> IF k \in SettingKey THEN "shipped" ELSE setting[k]]
    /\ knowledge' = knowledge \cup (Title \X {"shipped"})

\* seed_settings and seed_knowledge: what is missing, by key and by title.
Seeds ==
    /\ setting' = [k \in Key |-> IF k \in SettingKey /\ setting[k] = "missing" THEN "shipped" ELSE setting[k]]
    /\ knowledge' = knowledge \cup {<<t, "shipped">> : t \in {t \in Title : ~\E row \in knowledge : row[1] = t}}

\* python -m app.seed_ai_prompts, with or without --force.
SeedPrompts(force) ==
    /\ setting' = [k \in Key |-> IF k \in PromptKey /\ (force \/ setting[k] = "missing") THEN "shipped" ELSE setting[k]]
    /\ UNCHANGED <<knowledge, hookVars>>

-----------------------------------------------------------------------------
(* Tokens and the Telegram webhook.                                        *)

\* upsert_config, update_config and delete_config of the bot token: an empty or inactive row, or
\* none, reads as no token.
SetBot(b) ==
    /\ bot' = b
    /\ UNCHANGED <<tableVars, secret, hook, setup, moved>>

SetSecret(s) ==
    /\ secret' = s
    /\ moved' = {b \in Bot : hook[b] # {} /\ hook[b] # {s}}
    /\ UNCHANGED <<tableVars, bot, hook, setup>>

\* telegram_set_webhook: the secret is read first, the token when the call is made.  Bound: one
\* registration at a time.
BeginSetup ==
    /\ ~setup.on
    /\ setup' = [on |-> TRUE, secret |-> secret]
    /\ UNCHANGED <<tableVars, bot, secret, hook, moved>>

FinishSetupWithoutSecret ==
    /\ setup.on
    /\ setup' = NotSetUp
    /\ bot # None
    /\ hook' = [hook EXCEPT ![bot] = {None}]
    /\ moved' = IF setup.secret = secret THEN moved \ {bot} ELSE moved \cup {bot}
    /\ UNCHANGED <<tableVars, bot, secret>>

FinishSetup ==
    /\ setup.on
    /\ setup' = NotSetUp
    /\ \/ bot # None
          /\ hook' = [hook EXCEPT ![bot] = {setup.secret}]
          /\ moved' = IF setup.secret = secret THEN moved \ {bot} ELSE moved \cup {bot}
       \/ UNCHANGED <<hook, moved>>    \* no token, or Telegram refuses or cannot be reached
    /\ UNCHANGED <<tableVars, bot, secret>>

RemoveWebhook ==
    /\ bot # None
    /\ hook' = [hook EXCEPT ![bot] = {}]
    /\ moved' = moved \ {bot}
    /\ UNCHANGED <<tableVars, bot, secret, setup>>

\* ensure_telegram_webhook leaves a bot alone that is known to be registered for our address; when
\* getWebhookInfo fails it registers it again.
Start ==
    /\ Seeds
    /\ IF bot # None /\ ~setup.on
         THEN \/ setup' = [on |-> TRUE, secret |-> secret]
              \/ hook[bot] # {} /\ UNCHANGED setup
         ELSE UNCHANGED setup
    /\ UNCHANGED <<bot, secret, hook, moved>>

-----------------------------------------------------------------------------

ConfigurationInit ==
    /\ setting = [k \in Key |-> IF k \in SettingKey THEN "shipped" ELSE "missing"]
    /\ knowledge = Title \X {"shipped"}
    /\ bot = None /\ secret = None
    /\ hook = [b \in Bot |-> {}]
    /\ setup = NotSetUp
    /\ moved = {}

TableStep ==
    \/ \E k \in SettingKey : UpdateSetting(k)
    \/ \E k \in PromptKey : UpdatePrompt(k) \/ ResetPrompt(k)
    \/ \E t \in Title : CreateKnowledge(t) \/ \E row \in knowledge : UpdateKnowledge(row, t)
    \/ \E row \in knowledge : DeleteKnowledge(row)
    \/ \E force \in BOOLEAN : SeedPrompts(force)

HookStep ==
    \/ \E b \in Bot \cup {None} : SetBot(b)
    \/ \E s \in Secret \cup {None} : SetSecret(s)
    \/ BeginSetup \/ FinishSetup \/ RemoveWebhook

ConfigurationNext == TableStep \/ HookStep \/ Start

ConfigurationSpec == ConfigurationInit /\ [][ConfigurationNext]_configVars

-----------------------------------------------------------------------------

\* What the customer is told, and what the staff wrote, survives every start of the server and
\* every unforced seed: they add what is missing and overwrite nothing, and a prompt row they add
\* says what the registry said before.
SeedsKeepEdits ==
    [][Start \/ SeedPrompts(FALSE) =>
            /\ \A k \in Key : EffectiveText(k)' = EffectiveText(k) /\ (setting[k] # "missing" => setting'[k] = setting[k])
            /\ knowledge \subseteq knowledge'
            /\ \A row \in knowledge' \ knowledge : ~\E old \in knowledge : old[1] = row[1]]_configVars

\* verify_secret lets an update of the configured bot in, unless the secret was changed since, or
\* while, the bot was registered: a restart does not repair that, since the address is the same.
Heard(b) == hook[b] # {} => secret = None \/ hook[b] = {secret}

UnheardIsExplained == \A b \in Bot : Heard(b) \/ b \in moved
=============================================================================

------------------------------ MODULE Sessions ------------------------------
(***************************************************************************)
(* Login behind its rate limit, refresh tokens, logout and the blacklist.  *)
(*                                                                         *)
(* Tokens are stateless: what the server knows of one is what it decodes   *)
(* and the blacklist entry that logout leaves in Redis.  The times that    *)
(* matter are whether a token has expired and whether it is in the last    *)
(* seconds before that, where whole-second arithmetic makes a difference.  *)
(* The rate limit is a Redis counter per address; the INCR and the EXPIRE  *)
(* of a window are two calls.                                              *)
(***************************************************************************)
EXTENDS Naturals, FiniteSets

CONSTANTS
    Account,
    Token,      \* bound: the refresh tokens ever issued
    Limit,      \* rate_limit_login_per_min
    MaxCalls    \* bound: the login calls counted in one window

ASSUME SessionsAssumption ==
    /\ Account # {}
    /\ Limit \in Nat \ {0} /\ MaxCalls \in Nat \ {0}

VARIABLES
    enabled,    \* accounts that is_active and deleted_at let in
    owner,      \* sub of each issued token
    life,       \* how far each token is from exp
    blacklist,  \* tokens with an entry in Redis
    checked,    \* tokens whose refresh has passed the blacklist and not yet loaded the user
    loggedOut,  \* history: tokens that logout was called with
    calls,      \* ratelimit:login:<ip>
    timed,      \* the counter has its expiry
    arming,     \* a first call is between its INCR and its EXPIRE
    crashed     \* history: a process died in between

sessionVars == <<enabled, owner, life, blacklist, checked, loggedOut, calls, timed, arming, crashed>>
tokenVars == <<owner, life, blacklist, checked, loggedOut>>
windowVars == <<calls, timed, arming, crashed>>

\* Every variable keeps its type.
SessionsTypeOK ==
    /\ enabled \subseteq Account
    /\ owner \in [Token -> Account]
    /\ life \in [Token -> {"unused", "fresh", "last", "expired"}]
    /\ blacklist \subseteq Token /\ checked \subseteq Token /\ loggedOut \subseteq Token
    /\ calls \in 0 .. MaxCalls
    /\ timed \in BOOLEAN /\ arming \in BOOLEAN /\ crashed \in BOOLEAN

Decodes(t) == life[t] \in {"fresh", "last"}

\* _issue_tokens: a new refresh token; the one it was issued for stays as it is.
Issue(a) ==
    \E t \in Token :
        /\ life[t] = "unused"
        /\ life' = [life EXCEPT ![t] = "fresh"]
        /\ owner' = [owner EXCEPT ![t] = a]

-----------------------------------------------------------------------------
(* check_rate_limit before the login.                                      *)

\* Wrong password, an account that may not log in, or a pair of tokens.
LoginAnswer ==
    /\ \/ \E a \in enabled : Issue(a)
       \/ UNCHANGED <<owner, life>>
    /\ UNCHANGED <<enabled, blacklist, checked, loggedOut>>

FirstCall ==
    /\ calls = 0
    /\ calls' = 1
    /\ arming' = TRUE
    /\ UNCHANGED <<timed, crashed, enabled, tokenVars>>

ArmWithoutExpiry ==
    /\ arming
    /\ arming' = FALSE
    /\ UNCHANGED <<calls, timed, crashed>>
    /\ LoginAnswer

Arm ==
    /\ arming
    /\ arming' = FALSE
    /\ timed' = TRUE
    /\ UNCHANGED <<calls, crashed>>
    /\ LoginAnswer

LaterCall ==
    /\ calls \in 1 .. MaxCalls - 1
    /\ calls' = calls + 1
    /\ IF calls' > Limit THEN UNCHANGED <<enabled, tokenVars>> ELSE LoginAnswer
    /\ UNCHANGED <<timed, arming, crashed>>

DieBeforeArming ==
    /\ arming
    /\ arming' = FALSE
    /\ crashed' = TRUE
    /\ UNCHANGED <<calls, timed, enabled, tokenVars>>

WindowEnds ==
    /\ timed
    /\ calls' = 0
    /\ timed' = FALSE
    /\ UNCHANGED <<arming, crashed, enabled, tokenVars>>

-----------------------------------------------------------------------------
(* Refresh and logout.                                                     *)

RefreshChecked(t) ==
    /\ Decodes(t)
    /\ t \notin blacklist
    /\ checked' = checked \cup {t}
    /\ UNCHANGED <<enabled, owner, life, blacklist, loggedOut, windowVars>>

RefreshAnswered(t) ==
    /\ t \in checked
    /\ checked' = checked \ {t}
    /\ IF owner[t] \in enabled THEN Issue(owner[t]) ELSE UNCHANGED <<owner, life>>
    /\ UNCHANGED <<enabled, blacklist, loggedOut, windowVars>>

\* The entry is given the whole seconds that are left to exp, and at least one.
Logout(t) ==
    /\ Decodes(t)
    /\ blacklist' = blacklist \cup {t}
    /\ loggedOut' = loggedOut \cup {t}
    /\ UNCHANGED <<enabled, owner, life, checked, windowVars>>

\* decode_token accepts a token through the whole second of its exp.
Age(t) ==
    /\ \/ life[t] = "fresh" /\ life' = [life EXCEPT ![t] = "last"]
       \/ life[t] = "last" /\ life' = [life EXCEPT ![t] = "expired"]
    /\ UNCHANGED <<enabled, owner, blacklist, checked, loggedOut, windowVars>>

EntryLapsesEarly(t) ==
    /\ t \in blacklist
    /\ blacklist' = blacklist \ {t}
    /\ UNCHANGED <<enabled, owner, life, checked, loggedOut, windowVars>>

EntryLapses(t) ==
    /\ t \in blacklist
    /\ life[t] # "fresh"
    /\ blacklist' = blacklist \ {t}
    /\ UNCHANGED <<enabled, owner, life, checked, loggedOut, windowVars>>

\* update_user and delete_user of the staff page, as far as they matter here.
SetEnabled(accounts) ==
    /\ enabled' = accounts
    /\ UNCHANGED <<tokenVars, windowVars>>

-----------------------------------------------------------------------------

SessionsInit ==
    /\ enabled = Account
    /\ owner = [t \in Token |-> CHOOSE a \in Account : TRUE]
    /\ life = [t \in Token |-> "unused"]
    /\ blacklist = {} /\ checked = {} /\ loggedOut = {}
    /\ calls = 0
    /\ timed = FALSE /\ arming = FALSE /\ crashed = FALSE

LoginStep == FirstCall \/ Arm \/ LaterCall \/ DieBeforeArming \/ WindowEnds

TokenStep(t) == RefreshChecked(t) \/ RefreshAnswered(t) \/ Logout(t) \/ Age(t) \/ EntryLapses(t)

SessionsNext ==
    \/ LoginStep
    \/ \E t \in Token : TokenStep(t)
    \/ \E accounts \in SUBSET Account : SetEnabled(accounts)

\* Redis ends a window that has its expiry, and a first call that does not die sets it.
SessionsFairness == WF_sessionVars(WindowEnds) /\ WF_sessionVars(Arm \/ DieBeforeArming)

SessionsSpec == SessionsInit /\ [][SessionsNext]_sessionVars /\ SessionsFairness

-----------------------------------------------------------------------------

\* A refresh that begins after its token was logged out is refused for as long as the token would
\* otherwise be good, but for the last second or two: the blacklist entry lives the whole seconds
\* left to exp, the token a little longer.
LoggedOutStaysOut ==
    [][\A t \in loggedOut : t \in checked' \ checked => life[t] = "last"]_sessionVars

\* An address that has used up its login calls is let in again, unless a process died between the
\* INCR and the EXPIRE of the window: then nothing ever resets the counter.
LockEnds == (calls > Limit) ~> (calls <= Limit \/ crashed)
=============================================================================

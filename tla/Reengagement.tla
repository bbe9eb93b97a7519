---------------------------- MODULE Reengagement ----------------------------
(***************************************************************************)
(* The periodic task that writes once more to customers who have fallen    *)
(* silent.  Conversations are kept in the order of last_activity_at; time  *)
(* passes by moving the oldest fresh one to the quiet ones, which are      *)
(* candidates, and the oldest quiet one out of the 24 hours of Instagram.  *)
(*                                                                         *)
(* A run looks for candidates first and then writes to them one by one, so *)
(* that everything may change in between; two runs overlap when the queue  *)
(* has waited for workers.                                                 *)
(***************************************************************************)
EXTENDS Naturals, FiniteSets, Functions

CONSTANTS
    Talk,       \* open conversations
    Run,        \* runs of proactive_reengage at a time
    Batch       \* limit of find_candidates: 50 in the code

ASSUME ReengagementAssumption == IsFiniteSet(Talk)

VARIABLES
    place,      \* of each conversation in the order of last_activity_at, oldest first
    age,        \* fresh, quiet (inactive, still in the window) or lapsed
    lastFrom,   \* direction of the last message
    paused,     \* ai_paused_until is in the future
    list,       \* of each run: the candidates it has still to write to, with their places when it found them
    nudges,     \* history: nudges since the customer's last message
    shared      \* history: conversations that were on two lists at once

reengagementVars == <<place, age, lastFrom, paused, list, nudges, shared>>

Place == 1 .. Cardinality(Talk)

\* Every variable keeps its type, and no two conversations share a place.
ReengagementTypeOK ==
    /\ place \in Injection(Talk, Place)
    /\ age \in [Talk -> {"fresh", "quiet", "lapsed"}]
    /\ lastFrom \in [Talk -> {"incoming", "outgoing"}]
    /\ paused \in [Talk -> BOOLEAN]
    /\ DOMAIN list = Run /\ \A r \in Run : DOMAIN list[r] \subseteq Talk /\ list[r] \in [DOMAIN list[r] -> Place]
    /\ nudges \in [Talk -> 0 .. 2] /\ shared \subseteq Talk

-----------------------------------------------------------------------------

Active(c) ==
    /\ place' = [d \in Talk |-> CASE d = c -> Cardinality(Talk)
                                 [] place[d] > place[c] -> place[d] - 1
                                 [] OTHER -> place[d]]
    /\ age' = [age EXCEPT ![c] = "fresh"]

\* ingest_incoming.
CustomerWrites(c) ==
    /\ Active(c)
    /\ lastFrom' = [lastFrom EXCEPT ![c] = "incoming"]
    /\ nudges' = [nudges EXCEPT ![c] = 0]
    /\ shared' = IF \E r \in Run : c \in DOMAIN list[r] THEN shared ELSE shared \ {c}
    /\ UNCHANGED <<paused, list>>

\* _send_outbound, of an operator, the agent or the system.
ShopWrites(c) ==
    /\ Active(c)
    /\ lastFrom' = [lastFrom EXCEPT ![c] = "outgoing"]
    /\ UNCHANGED <<paused, list, nudges, shared>>

\* transfer_chat writes a note into the conversation; the order of activity does not change.
Transfer(c) ==
    /\ lastFrom' = [lastFrom EXCEPT ![c] = "outgoing"]
    /\ UNCHANGED <<place, age, paused, list, nudges, shared>>

SetPause(c) ==
    /\ paused' = [paused EXCEPT ![c] = ~@]
    /\ UNCHANGED <<place, age, lastFrom, list, nudges, shared>>

\* Time passes: the order of the ages is the order of activity.
Older(c) ==
    /\ age[c] # "lapsed"
    /\ \A d \in Talk \ {c} : age[d] = age[c] => place[c] < place[d]
    /\ age' = [age EXCEPT ![c] = IF @ = "fresh" THEN "quiet" ELSE "lapsed"]
    /\ UNCHANGED <<place, lastFrom, paused, list, nudges, shared>>

-----------------------------------------------------------------------------

InWindow(c) == age[c] = "quiet" /\ ~paused[c]

\* The oldest of them, as many as the limit lets through.
Oldest == {c \in Talk : InWindow(c) /\ Cardinality({d \in Talk : InWindow(d) /\ place[d] < place[c]}) < Batch}

CandidatesAnswered == Oldest

\* find_candidates: the limit comes first, the look at the last message after it.
Candidates == {c \in Oldest : lastFrom[c] = "incoming"}

Nobody == [c \in {} |-> 0]

Beat(r) ==
    /\ list[r] = Nobody
    /\ Candidates # {}
    /\ list' = [list EXCEPT ![r] = [c \in Candidates |-> place[c]]]
    /\ shared' = shared \cup {c \in Candidates : \E q \in Run \ {r} : c \in DOMAIN list[q]}
    /\ UNCHANGED <<place, age, lastFrom, paused, nudges>>

\* The next one of the list, in its order.
Turn(r, c) == c \in DOMAIN list[r] /\ \A d \in DOMAIN list[r] : list[r][c] <= list[r][d]

NudgeUnsaved(r, c) ==
    /\ Turn(r, c)
    /\ \/ /\ Active(c)
          /\ lastFrom' = [lastFrom EXCEPT ![c] = "outgoing"]
          /\ nudges' = [nudges EXCEPT ![c] = IF @ < 2 THEN @ + 1 ELSE @]
          /\ list' = [list EXCEPT ![r] = Restrict(@, DOMAIN @ \ {c})]
       \/ list' = [list EXCEPT ![r] = Nobody] /\ UNCHANGED <<place, age, lastFrom, nudges>>
    /\ UNCHANGED <<paused, shared>>

\* ai_send saves the nudge before it sends it; an error of the network or a death ends the run.
Nudge(r, c) ==
    /\ Turn(r, c)
    /\ Active(c)
    /\ lastFrom' = [lastFrom EXCEPT ![c] = "outgoing"]
    /\ nudges' = [nudges EXCEPT ![c] = IF @ < 2 THEN @ + 1 ELSE @]
    /\ \/ list' = [list EXCEPT ![r] = Restrict(@, DOMAIN @ \ {c})]
       \/ list' = [list EXCEPT ![r] = Nobody]
    /\ UNCHANGED <<paused, shared>>

-----------------------------------------------------------------------------

ReengagementInit ==
    /\ place = CHOOSE order \in Injection(Talk, Place) : TRUE   \* nothing else tells the conversations apart
    /\ age = [c \in Talk |-> "fresh"]
    /\ lastFrom = [c \in Talk |-> "incoming"]
    /\ paused = [c \in Talk |-> FALSE]
    /\ list = [r \in Run |-> Nobody]
    /\ nudges = [c \in Talk |-> 0] /\ shared = {}

ReengagementNext ==
    \/ \E c \in Talk : CustomerWrites(c) \/ ShopWrites(c) \/ Transfer(c) \/ SetPause(c) \/ Older(c)
    \/ \E r \in Run : Beat(r) \/ \E c \in Talk : Nudge(r, c)

\* Celery beat keeps its schedule, and a run goes on.
ReengagementFairness ==
    \A r \in Run : WF_reengagementVars(Beat(r)) /\ WF_reengagementVars(\E c \in Talk : Nudge(r, c))

ReengagementSpec == ReengagementInit /\ [][ReengagementNext]_reengagementVars /\ ReengagementFairness

-----------------------------------------------------------------------------

\* "takroran spam qilinmaydi": a customer who does not write gets one nudge, though runs break off, write to
\* conversations that have changed and find them again; two only when two runs had the conversation on their lists.
NoSecondNudge == \A c \in Talk : nudges[c] > 1 => c \in shared

Due(c) == InWindow(c) /\ lastFrom[c] = "incoming"

\* While no more conversations are in the window than the limit, whoever is due is reached or stops being due: runs
\* that break off at another conversation do not starve the ones behind it.
FewQuietAreAllReached ==
    [](Cardinality({c \in Talk : InWindow(c)}) <= Batch) => \A c \in Talk : Due(c) ~> ~Due(c)
=============================================================================

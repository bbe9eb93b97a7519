-------------------------------- MODULE Inbox --------------------------------
(***************************************************************************)
(* How the messages of one customer get into the inbox: the webhooks of    *)
(* the messengers, the rows of customer, conversation and message, the     *)
(* unread counter, and the operators who read and delete.                  *)
(*                                                                         *)
(* A payload carries one or more events; each is saved in a transaction of *)
(* its own and followed by a task for the agent.  A messenger delivers a   *)
(* payload again until it is answered with 200.  The agent is the one of   *)
(* Responder seen from afar: a task answers everything that is saved, or   *)
(* leaves the answer to the task of the last message.                      *)
(*                                                                         *)
(* created_at of a message is the begin of its transaction, so that "last" *)
(* is by begin and not by commit; at is that begin, counted.               *)
(***************************************************************************)
EXTENDS Naturals, FiniteSets, SequencesExt

CONSTANTS
    Payload,       \* the payloads of this customer
    Events,        \* Events[p]: the messages that parse_update or parse_payload finds in p
    Worker,        \* the slots of requests that are handled at a time: 1 .. n
    MaxMishaps     \* bound: crashes, lost answers, a broker that is down, early redeliveries, deletions and mark_reads

ASSUME InboxAssumption ==
    /\ Payload # {} /\ \A p \in Payload : Events[p] \in Seq(ToSet(Events[p])) \ {<<>>}
    /\ IsFiniteSet(Worker) /\ MaxMishaps \in Nat

VARIABLES
    hook,            \* of each payload: due, or ok once the messenger has its 200
    worker,          \* the webhook requests: what each has read, and how far it is
    customer,        \* the row of the customer: how often it was inserted, whether it is there
    conversation,    \* the open conversations, and the place of each by its last activity, the most recent last
    chat,            \* by conversation id: unread_count and the incoming messages as they were committed
    task,            \* the tasks in the queue: conversation and begin of the message
    reader,          \* a mark_read that is running
    wiped,           \* events that were saved and deleted with their conversation
    clock,           \* begins of transactions so far
    mishaps,
    skewed,          \* history: conversations in which somebody wrote over a count that had changed
    orphan           \* history: messages whose task never got into the queue

inboxVars == <<hook, worker, customer, conversation, chat, task, reader, wiped, clock, mishaps, skewed, orphan>>

EventSet == UNION {ToSet(Events[p]) : p \in Payload}

FreeWorker == [stage |-> "idle", payload |-> CHOOSE p \in Payload : TRUE, next |-> 1, at |-> 0,
               person |-> 0, chat |-> 0, count |-> 0]

FreeReader == [stage |-> "idle", chat |-> 0, count |-> 0, upto |-> 0]

IncomingRow == [event : EventSet, at : Nat, read : BOOLEAN, seen : BOOLEAN]

\* Every variable keeps its type, a counter never falls below zero, and nothing is later than the clock, which is set
\* back when a request fails.
InboxTypeOK ==
    /\ hook \in [Payload -> {"due", "ok"}]
    /\ worker \in [Worker -> [stage : {"idle", "open", "save", "queue", "answer"}, payload : Payload, next : Nat,
                              at : Nat, person : Nat, chat : Nat, count : Nat]]
    /\ \A w \in Worker : /\ worker[w].next \in 1 .. Len(Events[worker[w].payload])
                         /\ worker[w].at <= clock /\ worker[w].chat <= Len(chat)
    /\ customer \in [id : Nat, here : BOOLEAN]
    /\ DOMAIN conversation \subseteq DOMAIN chat /\ \A c \in DOMAIN conversation : conversation[c] \in Nat
    /\ chat \in Seq([unread : Nat, saved : Seq(IncomingRow)])
    /\ \A c \in DOMAIN chat : \A i \in DOMAIN chat[c].saved : chat[c].saved[i].at <= clock
    /\ task \cup orphan \subseteq (DOMAIN chat) \X Nat /\ \A t \in task \cup orphan : t[2] <= clock
    /\ reader \in [stage : {"idle", "flag", "write"}, chat : Nat, count : Nat, upto : Nat] /\ reader.chat <= Len(chat)
    /\ wiped \subseteq EventSet /\ skewed \subseteq DOMAIN chat /\ clock \in Nat /\ mishaps \in 0 .. MaxMishaps

-----------------------------------------------------------------------------

Mishap == mishaps < MaxMishaps /\ mishaps' = mishaps + 1

\* get_open_conversation: by last_activity_at; nothing in the code closes a conversation.
Latest ==
    IF DOMAIN conversation = {} THEN {0}
    ELSE {c \in DOMAIN conversation : \A d \in DOMAIN conversation : conversation[d] <= conversation[c]}

\* The place of d when c leaves its own.
Without(c, d) == IF conversation[d] > conversation[c] THEN conversation[d] - 1 ELSE conversation[d]

Moved(c) == [d \in DOMAIN conversation |-> IF d = c THEN Cardinality(DOMAIN conversation) ELSE Without(c, d)]

Opened(c) == [d \in DOMAIN conversation \cup {c} |->
                IF d = c THEN Cardinality(DOMAIN conversation) + 1 ELSE conversation[d]]

UnreadRows(c) == {i \in DOMAIN chat[c].saved : ~chat[c].saved[i].read}

\* The messenger posts a payload that it has no 200 for, perhaps while an earlier post is still handled.
Receive(w, p) ==
    /\ worker[w].stage = "idle" /\ \A v \in 1 .. w - 1 : worker[v].stage # "idle"
    /\ hook[p] = "due"
    /\ IF \E v \in Worker : worker[v].stage # "idle" /\ worker[v].payload = p THEN Mishap ELSE UNCHANGED mishaps
    /\ worker' = [worker EXCEPT ![w] = [FreeWorker EXCEPT !.stage = "open", !.payload = p, !.at = clock + 1]]
    /\ clock' = clock + 1
    /\ UNCHANGED <<hook, customer, conversation, chat, task, reader, wiped, skewed, orphan>>

LookNoCustomer(w) ==
    /\ worker[w].stage = "open"
    /\ worker' = [worker EXCEPT ![w].stage = "save"]
    /\ UNCHANGED <<hook, customer, conversation, chat, task, reader, wiped, clock, mishaps, skewed, orphan>>

LookNoConversation(w) ==
    /\ worker[w].stage = "open"
    /\ worker' = [worker EXCEPT ![w].stage = "save", ![w].person = IF customer.here THEN customer.id ELSE 0]
    /\ UNCHANGED <<hook, customer, conversation, chat, task, reader, wiped, clock, mishaps, skewed, orphan>>

\* _upsert_customer and _get_or_create_conversation: what the session has read, unread_count included.
Look(w) == \E c \in Latest :
    /\ worker[w].stage = "open"
    /\ worker' = [worker EXCEPT ![w].stage = "save",
                                ![w].person = IF customer.here THEN customer.id ELSE 0,
                                ![w].chat = c,
                                ![w].count = IF c = 0 THEN 0 ELSE chat[c].unread]
    /\ UNCHANGED <<hook, customer, conversation, chat, task, reader, wiped, clock, mishaps, skewed, orphan>>

\* The rows that were read are still there, and the customer that was not found is still not there.
Commits(w) ==
    /\ worker[w].person = IF customer.here THEN customer.id ELSE 0
    /\ worker[w].chat = 0 \/ worker[w].chat \in DOMAIN conversation

SavedMessage(w) == [event |-> Events[worker[w].payload][worker[w].next], at |-> worker[w].at,
                    read |-> FALSE, seen |-> FALSE]

SaveCounted(w) ==
    /\ worker[w].stage = "save"
    /\ Commits(w)
    /\ worker[w].chat # 0
    /\ LET c == worker[w].chat IN
         /\ conversation' = Moved(c)
         /\ chat' = [chat EXCEPT ![c] = [unread |-> worker[w].count, saved |-> Append(@.saved, SavedMessage(w))]]
         /\ skewed' = IF chat[c].unread = worker[w].count THEN skewed ELSE skewed \cup {c}
    /\ worker' = [worker EXCEPT ![w].stage = "queue", ![w].person = 0, ![w].count = 0]
    /\ UNCHANGED <<hook, customer, task, reader, wiped, clock, mishaps, orphan>>

\* ingest_incoming on a conversation that exists: the message and the count that was read, plus one.
SaveInto(w) ==
    /\ worker[w].stage = "save"
    /\ Commits(w)
    /\ worker[w].chat # 0
    /\ LET c == worker[w].chat IN
         /\ conversation' = Moved(c)
         /\ chat' = [chat EXCEPT ![c] = [unread |-> worker[w].count + 1, saved |-> Append(@.saved, SavedMessage(w))]]
         /\ skewed' = IF chat[c].unread = worker[w].count THEN skewed ELSE skewed \cup {c}
    /\ worker' = [worker EXCEPT ![w].stage = "queue", ![w].person = 0, ![w].count = 0]
    /\ UNCHANGED <<hook, customer, task, reader, wiped, clock, mishaps, orphan>>

\* ... and on a new one, with the customer when there was none.
SaveFirst(w) ==
    /\ worker[w].stage = "save"
    /\ Commits(w)
    /\ worker[w].chat = 0
    /\ customer' = IF worker[w].person = 0 THEN [id |-> customer.id + 1, here |-> TRUE] ELSE customer
    /\ conversation' = Opened(Len(chat) + 1)
    /\ chat' = Append(chat, [unread |-> 1, saved |-> <<SavedMessage(w)>>])
    /\ worker' = [worker EXCEPT ![w].stage = "queue", ![w].person = 0, ![w].chat = Len(chat) + 1]
    /\ UNCHANGED <<hook, task, reader, wiped, clock, mishaps, skewed, orphan>>

\* The unique key of the customer, a foreign key or a row that is gone: 500, nothing of this event is saved.
\* The clock only orders begins: the last one is given back.
SaveFails(w) ==
    /\ worker[w].stage = "save"
    /\ ~Commits(w)
    /\ worker' = [worker EXCEPT ![w] = FreeWorker]
    /\ clock' = IF worker[w].at = clock THEN clock - 1 ELSE clock
    /\ UNCHANGED <<hook, customer, conversation, chat, task, reader, wiped, mishaps, skewed, orphan>>

\* No message of the conversation has begun later: get_last_incoming_message finds this one.
IsLast(t) == \A i \in DOMAIN chat[t[1]].saved : chat[t[1]].saved[i].at <= t[2]

\* Tasks of messages that are not the last ones change nothing when they run; they are left out.
WithTask(t) == {s \in task : s[1] # t[1]} \cup (IF IsLast(t) THEN {t} ELSE {s \in task : s[1] = t[1]})

\* On to the next event, whose transaction began with the refresh, or to the answer.
GoesOn(w) ==
    /\ worker[w].stage = "queue"
    /\ IF worker[w].next = Len(Events[worker[w].payload])
         THEN worker' = [worker EXCEPT ![w] = [FreeWorker EXCEPT !.stage = "answer", !.payload = worker[w].payload]]
              /\ UNCHANGED clock
         ELSE /\ worker' = [worker EXCEPT ![w].stage = "open", ![w].next = @ + 1, ![w].at = clock + 1, ![w].chat = 0]
              /\ clock' = clock + 1
    /\ UNCHANGED <<hook, customer, conversation, chat, reader, wiped, skewed>>

EnqueueFirstOnly(w) ==
    /\ GoesOn(w)
    /\ task' = IF worker[w].next = 1 THEN WithTask(<<worker[w].chat, worker[w].at>>) ELSE task
    /\ UNCHANGED <<mishaps, orphan>>

\* enqueue_incoming.
Enqueue(w) ==
    /\ GoesOn(w)
    /\ task' = WithTask(<<worker[w].chat, worker[w].at>>)
    /\ UNCHANGED <<mishaps, orphan>>

\* The broker is down: this is logged, and the request goes on to its 200.
EnqueueFails(w) ==
    /\ GoesOn(w)
    /\ Mishap
    /\ orphan' = orphan \cup {<<worker[w].chat, worker[w].at>>}
    /\ UNCHANGED task

AnswerEarly(w) ==
    /\ worker[w].stage \in {"open", "answer"}
    /\ hook' = [hook EXCEPT ![worker[w].payload] = "ok"]
    /\ worker' = [worker EXCEPT ![w] = IF @.stage = "answer" THEN FreeWorker ELSE @]
    /\ UNCHANGED <<customer, conversation, chat, task, reader, wiped, clock, mishaps, skewed, orphan>>

\* The 200 reaches the messenger.
Answer(w) ==
    /\ worker[w].stage = "answer"
    /\ hook' = [hook EXCEPT ![worker[w].payload] = "ok"]
    /\ worker' = [worker EXCEPT ![w] = FreeWorker]
    /\ UNCHANGED <<customer, conversation, chat, task, reader, wiped, clock, mishaps, skewed, orphan>>

\* The server dies or the answer is lost.
Interrupt(w) ==
    /\ worker[w].stage # "idle"
    /\ Mishap
    /\ worker' = [worker EXCEPT ![w] = FreeWorker]
    /\ orphan' = IF worker[w].stage = "queue" THEN orphan \cup {<<worker[w].chat, worker[w].at>>} ELSE orphan
    /\ UNCHANGED <<hook, customer, conversation, chat, task, reader, wiped, clock, skewed>>

-----------------------------------------------------------------------------
(* The agent, and the other messages that go out.                          *)

RunTask(t) ==
    /\ t \in task
    /\ task' = task \ {t}
    /\ IF t[1] \in DOMAIN conversation /\ IsLast(t)
         THEN /\ chat' = [chat EXCEPT ![t[1]].saved = [i \in DOMAIN @ |-> [@[i] EXCEPT !.seen = TRUE]]]
              /\ conversation' = Moved(t[1])
         ELSE UNCHANGED <<chat, conversation>>    \* superseded, or the message is gone
    /\ UNCHANGED <<hook, worker, customer, reader, wiped, clock, mishaps, skewed, orphan>>

\* A message of an operator or the system: it is now the conversation of the latest activity.
Touch(c) ==
    /\ c \in DOMAIN conversation
    /\ conversation' = Moved(c)
    /\ UNCHANGED <<hook, worker, customer, chat, task, reader, wiped, clock, mishaps, skewed, orphan>>

-----------------------------------------------------------------------------
(* Operators: mark_read is a SELECT, an UPDATE of the messages and a       *)
(* commit that writes the counter if it was not zero when it was read.     *)

StartRead(c) ==
    /\ reader.stage = "idle"
    /\ c \in DOMAIN conversation
    /\ Mishap
    /\ reader' = [FreeReader EXCEPT !.stage = "flag", !.chat = c, !.count = chat[c].unread]
    /\ UNCHANGED <<hook, worker, customer, conversation, chat, task, wiped, clock, skewed, orphan>>

FlagRead ==
    /\ reader.stage = "flag"
    /\ reader' = [reader EXCEPT !.stage = "write", !.upto = Len(chat[reader.chat].saved)]
    /\ UNCHANGED <<hook, worker, customer, conversation, chat, task, wiped, clock, mishaps, skewed, orphan>>

ReadUpTo(c, n) == [i \in DOMAIN chat[c].saved |-> [chat[c].saved[i] EXCEPT !.read = @ \/ i <= n]]

WriteZero(c, n) ==
    chat' = [chat EXCEPT ![c] = [unread |-> IF reader.count = 0 THEN @.unread ELSE 0, saved |-> ReadUpTo(c, n)]]

WriteRead ==
    /\ reader.stage = "write"
    /\ reader' = FreeReader
    /\ IF reader.chat \in DOMAIN conversation
         THEN /\ WriteZero(reader.chat, reader.upto)
              /\ skewed' = IF /\ reader.upto = Len(chat[reader.chat].saved)
                              /\ reader.count = 0 => chat[reader.chat].unread = 0
                             THEN skewed \ {reader.chat} ELSE skewed \cup {reader.chat}
         ELSE UNCHANGED <<chat, skewed>>          \* deleted meanwhile
    /\ UNCHANGED <<hook, worker, customer, conversation, task, wiped, clock, mishaps, orphan>>

EventsIn(c) == {chat[c].saved[i].event : i \in DOMAIN chat[c].saved}

Emptied(C) == [c \in DOMAIN chat |-> IF c \in C THEN [unread |-> 0, saved |-> <<>>] ELSE chat[c]]

\* The messages go with the conversation, the customer stays.
DeleteConversation(c) ==
    /\ c \in DOMAIN conversation
    /\ Mishap
    /\ conversation' = [d \in DOMAIN conversation \ {c} |-> Without(c, d)]
    /\ chat' = Emptied({c})
    /\ wiped' = wiped \cup EventsIn(c)
    /\ skewed' = skewed \ {c}
    /\ UNCHANGED <<hook, worker, customer, task, reader, clock, orphan>>

\* A customer without orders goes with all conversations.
DeleteCustomer ==
    /\ customer.here
    /\ Mishap
    /\ customer' = [customer EXCEPT !.here = FALSE]
    /\ conversation' = <<>>
    /\ chat' = Emptied(DOMAIN chat)
    /\ wiped' = wiped \cup UNION {EventsIn(c) : c \in DOMAIN chat}
    /\ skewed' = {}
    /\ UNCHANGED <<hook, worker, task, reader, clock, orphan>>

-----------------------------------------------------------------------------

InboxInit ==
    /\ hook = [p \in Payload |-> "due"]
    /\ worker = [w \in Worker |-> FreeWorker]
    /\ customer = [id |-> 0, here |-> FALSE]
    /\ conversation = <<>> /\ chat = <<>>
    /\ task = {} /\ wiped = {} /\ skewed = {} /\ orphan = {}
    /\ reader = FreeReader
    /\ clock = 0 /\ mishaps = 0

WorkerStep(w) ==
    \/ Look(w) \/ SaveInto(w) \/ SaveFirst(w) \/ SaveFails(w) \/ Enqueue(w) \/ Answer(w)

InboxNext ==
    \/ \E w \in Worker : WorkerStep(w) \/ EnqueueFails(w) \/ Interrupt(w) \/ \E p \in Payload : Receive(w, p)
    \/ \E t \in task : RunTask(t)
    \/ \E c \in DOMAIN conversation : Touch(c) \/ StartRead(c) \/ DeleteConversation(c)
    \/ FlagRead \/ WriteRead \/ DeleteCustomer

\* Requests run to their end, and the messenger posts what it has no answer for.
InboxFairness ==
    /\ \A w \in Worker : WF_inboxVars(WorkerStep(w))
    /\ \A p \in Payload : SF_inboxVars(\E w \in Worker : Receive(w, p))

InboxSpec == InboxInit /\ [][InboxNext]_inboxVars /\ InboxFairness

-----------------------------------------------------------------------------

\* "Hech nima yo'qolmaydi": when the messenger has its 200, every event of the payload is in the inbox, unless staff
\* deleted it there, whatever requests died, overlapped or ran twice.
NothingLost ==
    \A p \in Payload : hook[p] = "ok" =>
        \A e \in ToSet(Events[p]) : e \in wiped \/ \E c \in DOMAIN chat : e \in EventsIn(c)

\* unread_count is the number of unread messages, unless two writers overlapped; a mark_read that nothing overlaps
\* makes it so again.
UnreadIsExplained == \A c \in DOMAIN conversation : c \in skewed \/ chat[c].unread = Cardinality(UnreadRows(c))

\* First messages at once may open a conversation each, but never more of them than requests run at a time.
OpenAtMostWorkers == Cardinality(DOMAIN conversation) <= Cardinality(Worker)

Overtaken(c, i) == \E k \in 1 .. i - 1 : chat[c].saved[k].at > chat[c].saved[i].at

AboutToEnqueue == {<<worker[w].chat, worker[w].at>> : w \in {w \in Worker : worker[w].stage = "queue"}}

\* A message is answered, or the last message of its conversation has a task to come: but for messages that were
\* committed after one that began later, and for last messages whose task was lost with its request or refused by the
\* broker.  A message that comes after a lost task brings the answer to both.
UnansweredWasOvertaken ==
    \A c \in DOMAIN chat : \A i \in DOMAIN chat[c].saved :
        \/ chat[c].saved[i].seen
        \/ Overtaken(c, i)
        \/ \E t \in task \cup AboutToEnqueue \cup orphan : t[1] = c /\ IsLast(t)

\* The docstring of handle_incoming_message leaves a message to the task of the last one: with no request and no task
\* left, and nothing that failed, every message would be answered.
EveryMessageAnswered ==
    task = {} /\ (\A w \in Worker : worker[w].stage = "idle") =>
        \A c \in DOMAIN chat : \A i \in DOMAIN chat[c].saved : chat[c].saved[i].seen

\* Every payload gets its 200 in the end: a request that fails on another's customer row succeeds on the next try.
PayloadsGetThrough == \A p \in Payload : <>(hook[p] = "ok")
=============================================================================

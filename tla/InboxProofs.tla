----------------------------- MODULE InboxProofs -----------------------------
(***************************************************************************)
(* What the inbox keeps, for any payloads, any number of requests at a     *)
(* time and any number of mishaps.                                         *)
(***************************************************************************)
EXTENDS Inbox, FiniteSetTheorems, SequenceTheorems, TLAPS

Conversation == [unread : Nat, saved : Seq(IncomingRow)]

\* A request holds a begin of its own until its message is saved; the clock is not set back below another's.
Begun(w) == worker[w].stage \in {"open", "save", "queue"}

OwnBegin(w) ==
    /\ \A v \in Worker : v # w /\ Begun(v) => worker[v].at # worker[w].at
    /\ \A c \in DOMAIN chat : \A i \in DOMAIN chat[c].saved : chat[c].saved[i].at # worker[w].at
    /\ \A t \in task \cup orphan : t[2] # worker[w].at

Begins ==
    /\ clock \in Nat
    /\ \A w \in Worker : IF Begun(w) THEN worker[w].at > 0 ELSE worker[w].at = 0
    /\ \A w \in Worker : worker[w].stage \in {"open", "save"} => OwnBegin(w)

Rooted ==
    /\ \A w \in Worker : worker[w].stage = "queue" => worker[w].chat # 0
    /\ reader.stage # "idle" => reader.chat # 0
    /\ \A c \in DOMAIN chat : c \notin DOMAIN conversation => chat[c].saved = <<>>

TypeInv == InboxTypeOK /\ Begins /\ Rooted

-----------------------------------------------------------------------------
(* Sequences.                                                              *)

LEMMA EventsAre ==
    ASSUME NEW p \in Payload
    PROVE  /\ Len(Events[p]) \in Nat \ {0} /\ DOMAIN Events[p] = 1 .. Len(Events[p])
           /\ \A i \in DOMAIN Events[p] : Events[p][i] \in EventSet
           /\ ToSet(Events[p]) = {Events[p][i] : i \in DOMAIN Events[p]}
<1>1. Events[p] \in Seq(ToSet(Events[p])) /\ Events[p] # <<>>
    BY InboxAssumption
<1>2. Len(Events[p]) \in Nat \ {0} /\ DOMAIN Events[p] = 1 .. Len(Events[p])
    BY <1>1, EmptySeq, LenProperties
<1>3. ToSet(Events[p]) = {Events[p][i] : i \in DOMAIN Events[p]}
    BY DEF ToSet
<1>4. \A i \in DOMAIN Events[p] : Events[p][i] \in EventSet
    BY <1>3 DEF EventSet
<1>5. QED
    BY <1>2, <1>3, <1>4

LEMMA SeqIs ==
    ASSUME NEW S, NEW s \in Seq(S)
    PROVE  Len(s) \in Nat /\ DOMAIN s = 1 .. Len(s) /\ \A i \in DOMAIN s : s[i] \in S
BY LenProperties, ElementOfSeq

\* A sequence in which one element, or every element, is another.
LEMMA OneElement ==
    ASSUME NEW S, NEW s \in Seq(S), NEW c \in DOMAIN s, NEW v \in S, NEW r, r = [s EXCEPT ![c] = v]
    PROVE  r \in Seq(S) /\ Len(r) = Len(s) /\ DOMAIN r = DOMAIN s /\ r[c] = v /\ \A d \in DOMAIN s : d # c => r[d] = s[d]
BY SeqIs, ExceptSeq

LEMMA SameLength ==
    ASSUME NEW S, NEW s \in Seq(S), NEW r \in [DOMAIN s -> S]
    PROVE  r \in Seq(S) /\ Len(r) = Len(s)
<1>1. Len(s) \in Nat /\ DOMAIN s = 1 .. Len(s)
    BY SeqIs
<1>2. r \in Seq(S)
    BY <1>1, SeqDef
<1>3. DOMAIN r = 1 .. Len(r) /\ Len(r) \in Nat
    BY <1>2, SeqIs
<1>4. QED
    BY <1>1, <1>2, <1>3

LEMMA OneMore ==
    ASSUME NEW S, NEW s \in Seq(S), NEW v \in S, NEW r, r = Append(s, v)
    PROVE  /\ r \in Seq(S) /\ Len(r) = Len(s) + 1 /\ DOMAIN r = DOMAIN s \cup {Len(s) + 1} /\ Len(s) + 1 \notin DOMAIN s
           /\ r[Len(s) + 1] = v /\ \A i \in DOMAIN s : r[i] = s[i]
<1>1. Len(s) \in Nat /\ DOMAIN s = 1 .. Len(s)
    BY SeqIs
<1>2. r \in Seq(S) /\ Len(r) = Len(s) + 1 /\ r[Len(s) + 1] = v /\ \A i \in 1 .. Len(s) : r[i] = s[i]
    BY AppendProperties
<1>3. DOMAIN r = 1 .. Len(s) + 1
    BY <1>2, SeqIs
<1>4. QED
    BY <1>1, <1>2, <1>3

-----------------------------------------------------------------------------
(* Types.                                                                  *)

WorkerState == [stage : {"idle", "open", "save", "queue", "answer"}, payload : Payload, next : Nat,
            at : Nat, person : Nat, chat : Nat, count : Nat]

Waiting == [stage : {"idle", "flag", "write"}, chat : Nat, count : Nat, upto : Nat]

LEMMA FreeWorkerTyped ==
    /\ FreeWorker \in WorkerState /\ FreeWorker.next \in 1 .. Len(Events[FreeWorker.payload])
    /\ FreeWorker.stage = "idle" /\ FreeWorker.at = 0 /\ FreeWorker.chat = 0 /\ FreeWorker.next = 1
<1>1. (CHOOSE p \in Payload : TRUE) \in Payload
    BY InboxAssumption
<1>2. FreeWorker \in WorkerState /\ FreeWorker.payload \in Payload
    BY <1>1 DEF FreeWorker, WorkerState
<1>3. 1 \in 1 .. Len(Events[FreeWorker.payload])
    BY <1>2, EventsAre
<1>4. QED
    BY <1>2, <1>3 DEF FreeWorker

LEMMA InitTypeInv == InboxInit => TypeInv
<1> SUFFICES ASSUME InboxInit PROVE TypeInv
    OBVIOUS
<1>1. chat = <<>> /\ chat \in Seq(Conversation) /\ Len(chat) = 0 /\ DOMAIN chat = {}
    BY EmptySeq, SeqIs DEF InboxInit
<1>2. worker \in [Worker -> WorkerState] /\ \A w \in Worker : worker[w] = FreeWorker
    BY FreeWorkerTyped DEF InboxInit
<1>3. DOMAIN conversation = {}
    BY DEF InboxInit
<1>4. mishaps \in 0 .. MaxMishaps
    BY InboxAssumption DEF InboxInit
<1>5. reader \in Waiting /\ reader.chat = 0 /\ reader.stage = "idle"
    BY DEF InboxInit, FreeReader, Waiting
<1>6. hook \in [Payload -> {"due", "ok"}] /\ customer \in [id : Nat, here : BOOLEAN]
    BY DEF InboxInit
<1>7. task = {} /\ orphan = {} /\ wiped = {} /\ skewed = {} /\ clock = 0
    BY DEF InboxInit
<1>8. InboxTypeOK
    BY <1>1, <1>2, <1>3, <1>4, <1>5, <1>6, <1>7, FreeWorkerTyped DEF InboxTypeOK, WorkerState, Waiting, Conversation
<1>9. Begins /\ Rooted
    BY <1>1, <1>2, <1>5, <1>7, FreeWorkerTyped DEF Begins, Begun, Rooted
<1>10. QED
    BY <1>8, <1>9 DEF TypeInv

\* The facts that the steps below start from.
LEMMA TypeFacts ==
    ASSUME TypeInv
    PROVE  /\ clock \in Nat /\ Len(chat) \in Nat /\ DOMAIN chat = 1 .. Len(chat) /\ chat \in Seq(Conversation)
           /\ worker \in [Worker -> WorkerState] /\ reader \in Waiting /\ reader.chat <= Len(chat)
           /\ \A w \in Worker : worker[w] \in WorkerState
           /\ \A c \in DOMAIN chat : chat[c] \in Conversation
           /\ \A w \in Worker : worker[w].chat # 0 => worker[w].chat \in DOMAIN chat
           /\ \A w \in Worker : worker[w].at \in Nat /\ worker[w].at <= clock
<1>1. chat \in Seq(Conversation) /\ clock \in Nat /\ worker \in [Worker -> WorkerState] /\ reader \in Waiting /\ reader.chat <= Len(chat)
    BY DEF TypeInv, InboxTypeOK, Conversation, WorkerState, Waiting
<1>2. Len(chat) \in Nat /\ DOMAIN chat = 1 .. Len(chat) /\ \A c \in DOMAIN chat : chat[c] \in Conversation
    BY <1>1, SeqIs
<1>3. ASSUME NEW w \in Worker
      PROVE  worker[w] \in WorkerState /\ worker[w].at \in Nat /\ worker[w].at <= clock /\ worker[w].chat \in Nat /\ worker[w].chat <= Len(chat)
    BY <1>1 DEF TypeInv, InboxTypeOK, WorkerState
<1>4. QED
    BY <1>1, <1>2, <1>3

\* A task, or the one that a request is about to enqueue.
LEMMA TaskTyped ==
    ASSUME TypeInv, NEW t, t \in task \cup orphan \/ \E w \in Worker : worker[w].stage = "queue" /\ t = <<worker[w].chat, worker[w].at>>
    PROVE  t \in (DOMAIN chat) \X Nat /\ t[1] \in DOMAIN chat /\ t[2] \in Nat /\ t[2] <= clock
<1>1. CASE t \in task \cup orphan
    <2>1. t \in (DOMAIN chat) \X Nat
        BY <1>1 DEF TypeInv, InboxTypeOK
    <2>2. t[2] <= clock
        BY <1>1 DEF TypeInv, InboxTypeOK
    <2>3. t[1] \in DOMAIN chat /\ t[2] \in Nat
        BY <2>1
    <2>4. QED
        BY <2>1, <2>2, <2>3
<1>2. ASSUME NEW w \in Worker, worker[w].stage = "queue", t = <<worker[w].chat, worker[w].at>>
      PROVE  t \in (DOMAIN chat) \X Nat /\ t[1] \in DOMAIN chat /\ t[2] \in Nat /\ t[2] <= clock
    <2>1. worker[w].chat \in DOMAIN chat /\ worker[w].at \in Nat /\ worker[w].at <= clock
        BY <1>2, TypeFacts DEF TypeInv, Rooted
    <2>2. t \in (DOMAIN chat) \X Nat
        BY <1>2, <2>1
    <2>3. t[1] = worker[w].chat /\ t[2] = worker[w].at
        BY <1>2
    <2>4. QED
        BY <2>1, <2>2, <2>3
<1>3. QED
    BY <1>1, <1>2

\* A request goes on, and nothing is saved.
LEMMA WorkerTurns ==
    ASSUME TypeInv, NEW w \in Worker, NEW r \in WorkerState,
           worker' = [worker EXCEPT ![w] = r], UNCHANGED <<customer, conversation, chat, reader, wiped, skewed>>,
           hook' \in [Payload -> {"due", "ok"}], mishaps' \in 0 .. MaxMishaps,
           clock' = clock \/ clock' = clock + 1,
           r.at <= clock', r.chat <= Len(chat), r.next \in 1 .. Len(Events[r.payload]),
           r.stage # "queue",
           IF r.stage \in {"open", "save"} THEN r.at > 0 ELSE r.at = 0,
           r.stage \in {"open", "save"} =>
               \/ r.at = worker[w].at /\ worker[w].stage \in {"open", "save"} /\ UNCHANGED <<task, orphan>>
               \/ r.at = clock + 1,
           \/ UNCHANGED <<task, orphan>>
           \/ worker[w].stage = "queue" /\ task' \cup orphan' \subseteq task \cup orphan \cup {<<worker[w].chat, worker[w].at>>}
    PROVE  TypeInv'
<1>1. clock \in Nat /\ clock' \in Nat /\ clock <= clock' /\ worker \in [Worker -> WorkerState]
    BY TypeFacts
<1>2. worker'[w] = r /\ \A v \in Worker : v # w => worker'[v] = worker[v]
    BY <1>1
<1>3. worker' \in [Worker -> WorkerState]
    BY <1>1
<1>4. task' \cup orphan' \subseteq (DOMAIN chat) \X Nat /\ \A t \in task' \cup orphan' : t[2] \in Nat /\ t[2] <= clock
    <2>1. ASSUME NEW t \in task' \cup orphan' PROVE t \in (DOMAIN chat) \X Nat /\ t[2] \in Nat /\ t[2] <= clock
        <3>1. t \in task \cup orphan \/ (worker[w].stage = "queue" /\ t = <<worker[w].chat, worker[w].at>>)
            OBVIOUS
        <3>2. QED
            BY <3>1, TaskTyped
    <2>2. QED
        BY <2>1
<1>5. \A n \in Nat : n <= clock => n <= clock' /\ n # clock + 1
    BY <1>1
<1>6. \A c \in DOMAIN chat : \A i \in DOMAIN chat[c].saved : chat[c].saved[i].at \in Nat /\ chat[c].saved[i].at <= clock
    <2>1. SUFFICES ASSUME NEW c \in DOMAIN chat, NEW i \in DOMAIN chat[c].saved
                   PROVE  chat[c].saved[i].at \in Nat /\ chat[c].saved[i].at <= clock
        OBVIOUS
    <2>2. chat[c].saved \in Seq(IncomingRow)
        BY TypeFacts DEF Conversation
    <2>3. chat[c].saved[i] \in IncomingRow
        BY <2>2, SeqIs
    <2>4. QED
        BY <2>3 DEF IncomingRow, TypeInv, InboxTypeOK
<1>7. InboxTypeOK'
    <2>1. \A v \in Worker : /\ worker'[v].next \in 1 .. Len(Events[worker'[v].payload])
                            /\ worker'[v].at <= clock' /\ worker'[v].chat <= Len(chat)
        BY <1>2, <1>5, TypeFacts DEF TypeInv, InboxTypeOK
    <2>2. \A c \in DOMAIN chat : \A i \in DOMAIN chat[c].saved : chat[c].saved[i].at <= clock'
        BY <1>5, <1>6
    <2>3. \A t \in task' \cup orphan' : t[2] <= clock'
        BY <1>4, <1>5
    <2>4. QED
        BY <1>1, <1>3, <1>4, <2>1, <2>2, <2>3 DEF TypeInv, InboxTypeOK, WorkerState
<1>8. ASSUME NEW v \in Worker, worker'[v].stage \in {"open", "save"} PROVE OwnBegin(v)'
    <2>1. CASE v = w /\ r.at = clock + 1
        <3>1. \A u \in Worker : u # w => worker'[u].at # clock + 1
            BY <1>2, <1>5, TypeFacts
        <3>2. \A t \in task' \cup orphan' : t[2] # clock + 1
            BY <1>4, <1>5
        <3>3. QED
            BY <1>2, <1>5, <1>6, <2>1, <3>1, <3>2 DEF OwnBegin
    <2>2. CASE v = w /\ r.at # clock + 1
        BY <1>2, <1>8, <2>2 DEF OwnBegin, Begun, TypeInv, Begins
    <2>3. CASE v # w
        <3>1. OwnBegin(v) /\ worker'[v].at = worker[v].at /\ worker[v].at \in Nat /\ worker[v].at <= clock
            BY <1>2, <1>8, <2>3, TypeFacts DEF TypeInv, Begins
        <3>2. worker[v].at # clock + 1
            BY <1>5, <3>1
        <3>3. Begun(w)' => worker'[w].at # worker[v].at
            BY <1>2, <2>3, <3>1, <3>2 DEF OwnBegin, Begun
        <3>4. \A t \in task' \cup orphan' : t[2] # worker[v].at
            BY <2>3, <3>1 DEF OwnBegin, Begun
        <3>5. QED
            BY <1>2, <3>1, <3>3, <3>4 DEF OwnBegin, Begun
    <2>4. QED
        BY <2>1, <2>2, <2>3
<1>9. Begins'
    BY <1>1, <1>2, <1>8 DEF Begins, Begun, TypeInv
<1>10. Rooted'
    BY <1>2 DEF Rooted, TypeInv
<1>11. QED
    BY <1>7, <1>9, <1>10 DEF TypeInv

\* The places of the conversations by their last activity.
LEMMA PlacesTyped ==
    ASSUME TypeInv
    PROVE  /\ IsFiniteSet(DOMAIN conversation) /\ Cardinality(DOMAIN conversation) \in Nat
           /\ \A c \in DOMAIN conversation :
                 /\ DOMAIN Moved(c) = DOMAIN conversation /\ \A d \in DOMAIN conversation : Moved(c)[d] \in Nat
                 /\ \A d \in DOMAIN conversation : Without(c, d) \in Nat
           /\ \A c \in Nat : \A d \in DOMAIN Opened(c) : Opened(c)[d] \in Nat
<1>1. IsFiniteSet(1 .. Len(chat))
    BY TypeFacts, FS_Interval
<1>2. DOMAIN conversation \subseteq 1 .. Len(chat) /\ \A c \in DOMAIN conversation : conversation[c] \in Nat
    BY TypeFacts DEF TypeInv, InboxTypeOK
<1>3. IsFiniteSet(DOMAIN conversation) /\ Cardinality(DOMAIN conversation) \in Nat
    BY <1>1, <1>2, FS_Subset, FS_CardinalityType
<1>4. \A c, d \in DOMAIN conversation : Without(c, d) \in Nat
    BY <1>2 DEF Without
<1>5. \A c \in DOMAIN conversation : DOMAIN Moved(c) = DOMAIN conversation /\ \A d \in DOMAIN conversation : Moved(c)[d] \in Nat
    BY <1>3, <1>4 DEF Moved
<1>6. \A c \in Nat : \A d \in DOMAIN Opened(c) : Opened(c)[d] \in Nat
    BY <1>2, <1>3 DEF Opened
<1>7. QED
    BY <1>3, <1>4, <1>5, <1>6

LEMMA SavedIs ==
    ASSUME TypeInv, NEW c \in DOMAIN chat
    PROVE  /\ chat[c].saved \in Seq(IncomingRow) /\ chat[c].unread \in Nat
           /\ Len(chat[c].saved) \in Nat /\ DOMAIN chat[c].saved = 1 .. Len(chat[c].saved)
           /\ \A i \in DOMAIN chat[c].saved :
                 /\ chat[c].saved[i] \in IncomingRow
                 /\ chat[c].saved[i].at \in Nat /\ chat[c].saved[i].at <= clock /\ chat[c].saved[i].event \in EventSet
<1>1. chat[c].saved \in Seq(IncomingRow) /\ chat[c].unread \in Nat
    BY TypeFacts DEF Conversation
<1>2. Len(chat[c].saved) \in Nat /\ DOMAIN chat[c].saved = 1 .. Len(chat[c].saved)
    BY <1>1, SeqIs
<1>3. \A i \in DOMAIN chat[c].saved : chat[c].saved[i] \in IncomingRow
    BY <1>1, SeqIs
<1>4. ASSUME NEW i \in DOMAIN chat[c].saved
      PROVE  chat[c].saved[i].at \in Nat /\ chat[c].saved[i].at <= clock /\ chat[c].saved[i].event \in EventSet
    BY <1>3 DEF IncomingRow, TypeInv, InboxTypeOK
<1>5. QED
    BY <1>1, <1>2, <1>3, <1>4

\* The rows that are there now were there before.
OldRows ==
    \A c \in DOMAIN chat : \A i \in DOMAIN chat'[c].saved :
        i \in DOMAIN chat[c].saved /\ chat'[c].saved[i].at = chat[c].saved[i].at

\* A step that saves no message and moves no request.
LEMMA NothingSaved ==
    ASSUME TypeInv, UNCHANGED <<hook, worker, clock, orphan>>, task' \subseteq task,
           mishaps' \in 0 .. MaxMishaps, customer' \in [id : Nat, here : BOOLEAN],
           chat' \in Seq(Conversation), Len(chat') = Len(chat), DOMAIN chat' = DOMAIN chat,
           OldRows,
           DOMAIN conversation' \subseteq DOMAIN chat, \A c \in DOMAIN conversation' : conversation'[c] \in Nat,
           \A c \in DOMAIN chat : c \notin DOMAIN conversation' => chat'[c].saved = <<>>,
           reader' \in Waiting, reader'.chat <= Len(chat), reader'.stage # "idle" => reader'.chat # 0,
           wiped' \subseteq EventSet, skewed' \subseteq DOMAIN chat
    PROVE  TypeInv'
<1>1. InboxTypeOK'
    <2>1. \A c \in DOMAIN chat : \A i \in DOMAIN chat'[c].saved : chat'[c].saved[i].at <= clock
        BY SavedIs DEF OldRows
    <2>2. task' \cup orphan' \subseteq (DOMAIN chat) \X Nat /\ \A t \in task' \cup orphan' : t[2] <= clock
        BY DEF TypeInv, InboxTypeOK
    <2>3. \A w \in Worker : /\ worker[w].next \in 1 .. Len(Events[worker[w].payload])
                            /\ worker[w].at <= clock /\ worker[w].chat <= Len(chat)
        BY DEF TypeInv, InboxTypeOK
    <2>4. hook \in [Payload -> {"due", "ok"}] /\ worker \in [Worker -> WorkerState] /\ clock \in Nat
        BY DEF TypeInv, InboxTypeOK, WorkerState
    <2>5. QED
        BY <2>1, <2>2, <2>3, <2>4 DEF InboxTypeOK, WorkerState, Conversation, Waiting
<1>2. Begins'
    <2>1. ASSUME NEW w \in Worker, OwnBegin(w) PROVE OwnBegin(w)'
        BY <2>1 DEF OwnBegin, Begun, OldRows
    <2>2. QED
        BY <2>1 DEF TypeInv, Begins, Begun
<1>3. Rooted'
    BY DEF TypeInv, Rooted
<1>4. QED
    BY <1>1, <1>2, <1>3 DEF TypeInv

-----------------------------------------------------------------------------
(* What the steps do to the conversations.                                 *)

\* A message that is saved: the row at the end of its conversation.
Added(c, count, w) ==
    /\ chat'[c].unread = count
    /\ DOMAIN chat'[c].saved = DOMAIN chat[c].saved \cup {Len(chat[c].saved) + 1}
    /\ Len(chat[c].saved) + 1 \notin DOMAIN chat[c].saved
    /\ chat'[c].saved[Len(chat[c].saved) + 1] = SavedMessage(w)
    /\ \A i \in DOMAIN chat[c].saved : chat'[c].saved[i] = chat[c].saved[i]

LEMMA MessageTyped ==
    ASSUME TypeInv, NEW w \in Worker
    PROVE  /\ SavedMessage(w) \in IncomingRow
           /\ SavedMessage(w).event = Events[worker[w].payload][worker[w].next] /\ SavedMessage(w).at = worker[w].at
           /\ SavedMessage(w).read = FALSE /\ SavedMessage(w).seen = FALSE
<1>1. worker[w].payload \in Payload /\ worker[w].at \in Nat
    BY TypeFacts DEF WorkerState
<1>2. Events[worker[w].payload][worker[w].next] \in EventSet
    BY <1>1, EventsAre DEF TypeInv, InboxTypeOK
<1>3. QED
    BY <1>1, <1>2 DEF SavedMessage, IncomingRow

LEMMA SeenRow ==
    ASSUME NEW r \in IncomingRow
    PROVE  /\ [r EXCEPT !.seen = TRUE] \in IncomingRow
           /\ [r EXCEPT !.seen = TRUE].event = r.event /\ [r EXCEPT !.seen = TRUE].at = r.at
           /\ [r EXCEPT !.seen = TRUE].read = r.read /\ [r EXCEPT !.seen = TRUE].seen = TRUE
BY DEF IncomingRow

LEMMA OtherRows ==
    ASSUME NEW v \in Conversation, NEW s \in Seq(IncomingRow)
    PROVE  /\ [v EXCEPT !.saved = s] \in Conversation
           /\ [v EXCEPT !.saved = s].saved = s /\ [v EXCEPT !.saved = s].unread = v.unread
BY DEF Conversation

LEMMA SaveIntoIs ==
    ASSUME TypeInv, NEW w \in Worker, SaveInto(w), NEW c, c = worker[w].chat
    PROVE  /\ c \in DOMAIN conversation /\ c \in DOMAIN chat
           /\ chat' \in Seq(Conversation) /\ Len(chat') = Len(chat) /\ DOMAIN chat' = DOMAIN chat
           /\ Added(c, worker[w].count + 1, w)
           /\ \A d \in DOMAIN chat : d # c => chat'[d] = chat[d]
           /\ DOMAIN conversation' = DOMAIN conversation /\ \A d \in DOMAIN conversation : conversation'[d] \in Nat
<1>1. c \in DOMAIN conversation /\ c \in DOMAIN chat /\ worker[w].count + 1 \in Nat
    <2>1. c \in DOMAIN conversation
        BY DEF SaveInto, Commits
    <2>2. c \in DOMAIN chat
        BY <2>1 DEF TypeInv, InboxTypeOK
    <2>3. worker[w] \in WorkerState
        BY TypeFacts
    <2>4. QED
        BY <2>1, <2>2, <2>3 DEF WorkerState
<1> DEFINE s == Append(chat[c].saved, SavedMessage(w))
           v == [unread |-> worker[w].count + 1, saved |-> s]
<1>2. s \in Seq(IncomingRow) /\ v \in Conversation
    BY <1>1, SavedIs, MessageTyped, OneMore DEF Conversation
<1>3. chat' = [chat EXCEPT ![c] = v]
    BY <1>1 DEF SaveInto
<1>4. v.unread = worker[w].count + 1 /\ v.saved = s /\ s = Append(chat[c].saved, SavedMessage(w))
    OBVIOUS
<1> HIDE DEF v, s
<1>5. /\ DOMAIN s = DOMAIN chat[c].saved \cup {Len(chat[c].saved) + 1} /\ Len(chat[c].saved) + 1 \notin DOMAIN chat[c].saved
      /\ s[Len(chat[c].saved) + 1] = SavedMessage(w) /\ \A i \in DOMAIN chat[c].saved : s[i] = chat[c].saved[i]
    <2>1. chat[c].saved \in Seq(IncomingRow)
        BY <1>1, SavedIs
    <2>2. SavedMessage(w) \in IncomingRow
        BY MessageTyped
    <2> DEFINE old == chat[c].saved
               new == SavedMessage(w)
    <2> HIDE DEF old, new
    <2>3. old \in Seq(IncomingRow) /\ new \in IncomingRow /\ s = Append(old, new)
        BY <1>4, <2>1, <2>2 DEF old, new
    <2>4. /\ DOMAIN s = DOMAIN old \cup {Len(old) + 1} /\ Len(old) + 1 \notin DOMAIN old
          /\ s[Len(old) + 1] = new /\ \A i \in DOMAIN old : s[i] = old[i]
        BY <2>3, OneMore
    <2>5. QED
        BY <2>4 DEF old, new
<1>6. /\ chat' \in Seq(Conversation) /\ Len(chat') = Len(chat) /\ DOMAIN chat' = DOMAIN chat /\ chat'[c] = v
      /\ \A d \in DOMAIN chat : d # c => chat'[d] = chat[d]
    BY <1>1, <1>2, <1>3, TypeFacts, OneElement
<1>7. Added(c, worker[w].count + 1, w)
    BY <1>4, <1>5, <1>6 DEF Added
<1>8. DOMAIN conversation' = DOMAIN conversation /\ \A d \in DOMAIN conversation : conversation'[d] \in Nat
    BY <1>1, PlacesTyped DEF SaveInto
<1>9. QED
    BY <1>1, <1>6, <1>7, <1>8

LEMMA SaveFirstIs ==
    ASSUME TypeInv, NEW w \in Worker, SaveFirst(w), NEW c, c = Len(chat) + 1
    PROVE  /\ c \notin DOMAIN chat /\ c \in Nat \ {0} /\ chat' \in Seq(Conversation) /\ Len(chat') = c
           /\ DOMAIN chat' = DOMAIN chat \cup {c}
           /\ \A d \in DOMAIN chat : chat'[d] = chat[d]
           /\ chat'[c].unread = 1 /\ DOMAIN chat'[c].saved = {1} /\ chat'[c].saved[1] = SavedMessage(w)
           /\ DOMAIN conversation' = DOMAIN conversation \cup {c} /\ \A d \in DOMAIN conversation' : conversation'[d] \in Nat
<1> DEFINE s == <<SavedMessage(w)>>
           v == [unread |-> 1, saved |-> s]
<1>1. s \in Seq(IncomingRow) /\ Len(s) = 1 /\ DOMAIN s = {1} /\ s[1] = SavedMessage(w)
    <2>1. SavedMessage(w) \in IncomingRow
        BY MessageTyped
    <2>2. QED
        BY <2>1
<1>2. v \in Conversation /\ v.unread = 1 /\ v.saved = s
    BY <1>1 DEF Conversation
<1>3. chat' = Append(chat, v)
    BY DEF SaveFirst
<1> HIDE DEF v, s
<1>4. /\ chat' \in Seq(Conversation) /\ Len(chat') = c /\ DOMAIN chat' = DOMAIN chat \cup {c} /\ c \notin DOMAIN chat
      /\ chat'[c] = v /\ \A d \in DOMAIN chat : chat'[d] = chat[d]
    BY <1>2, <1>3, TypeFacts, OneMore
<1>5. c \in Nat \ {0}
    BY TypeFacts
<1>6. DOMAIN conversation' = DOMAIN conversation \cup {c} /\ \A d \in DOMAIN conversation' : conversation'[d] \in Nat
    BY <1>5, PlacesTyped DEF SaveFirst, Opened
<1>7. QED
    BY <1>1, <1>2, <1>4, <1>5, <1>6

\* What an answer of the agent does to the conversation.
Attended(c) ==
    /\ c \in DOMAIN chat /\ chat' \in Seq(Conversation) /\ Len(chat') = Len(chat) /\ DOMAIN chat' = DOMAIN chat
    /\ \A d \in DOMAIN chat : d # c => chat'[d] = chat[d]
    /\ chat'[c].unread = chat[c].unread /\ DOMAIN chat'[c].saved = DOMAIN chat[c].saved
    /\ \A i \in DOMAIN chat[c].saved :
          /\ chat'[c].saved[i].event = chat[c].saved[i].event /\ chat'[c].saved[i].at = chat[c].saved[i].at
          /\ chat'[c].saved[i].read = chat[c].saved[i].read /\ chat'[c].saved[i].seen = TRUE
    /\ DOMAIN conversation' = DOMAIN conversation /\ \A d \in DOMAIN conversation : conversation'[d] \in Nat

LEMMA RunTaskIs ==
    ASSUME TypeInv, NEW t \in task, RunTask(t), t[1] \in DOMAIN conversation, IsLast(t)
    PROVE  Attended(t[1])
<1> DEFINE c == t[1]
<1>1. c \in DOMAIN conversation /\ c \in DOMAIN chat
    BY DEF TypeInv, InboxTypeOK
<1> DEFINE s == [i \in DOMAIN chat[c].saved |-> [chat[c].saved[i] EXCEPT !.seen = TRUE]]
           v == [chat[c] EXCEPT !.saved = s]
<1>2. s \in [DOMAIN chat[c].saved -> IncomingRow]
    BY <1>1, SavedIs, SeenRow
<1>3. s \in Seq(IncomingRow)
    BY <1>1, <1>2, SavedIs, SameLength
<1>4. v \in Conversation /\ v.unread = chat[c].unread /\ v.saved = s
    BY <1>1, <1>3, TypeFacts, OtherRows
<1>5. chat' = [chat EXCEPT ![c] = v]
    BY <1>1 DEF RunTask
<1>6. \A i \in DOMAIN chat[c].saved : s[i] = [chat[c].saved[i] EXCEPT !.seen = TRUE]
    OBVIOUS
<1> HIDE DEF v, s
<1>7. /\ chat' \in Seq(Conversation) /\ Len(chat') = Len(chat) /\ DOMAIN chat' = DOMAIN chat /\ chat'[c] = v
      /\ \A d \in DOMAIN chat : d # c => chat'[d] = chat[d]
    BY <1>1, <1>4, <1>5, TypeFacts, OneElement
<1>8. DOMAIN conversation' = DOMAIN conversation /\ \A d \in DOMAIN conversation : conversation'[d] \in Nat
    BY <1>1, PlacesTyped DEF RunTask
<1>9. ASSUME NEW i \in DOMAIN chat[c].saved
      PROVE  /\ s[i].event = chat[c].saved[i].event /\ s[i].at = chat[c].saved[i].at
             /\ s[i].read = chat[c].saved[i].read /\ s[i].seen = TRUE
    BY <1>1, <1>6, SavedIs, SeenRow
<1>10. DOMAIN s = DOMAIN chat[c].saved
    BY <1>2
<1>11. QED
    BY <1>1, <1>4, <1>7, <1>8, <1>9, <1>10 DEF Attended

\* What a mark_read does to its conversation.
MarkedRead(c) ==
    /\ c \in DOMAIN chat /\ chat' \in Seq(Conversation) /\ Len(chat') = Len(chat) /\ DOMAIN chat' = DOMAIN chat
    /\ \A d \in DOMAIN chat : d # c => chat'[d] = chat[d]
    /\ chat'[c].unread = (IF reader.count = 0 THEN chat[c].unread ELSE 0)
    /\ DOMAIN chat'[c].saved = DOMAIN chat[c].saved
    /\ \A i \in DOMAIN chat[c].saved :
          /\ chat'[c].saved[i].event = chat[c].saved[i].event /\ chat'[c].saved[i].at = chat[c].saved[i].at
          /\ chat'[c].saved[i].seen = chat[c].saved[i].seen /\ (i <= reader.upto => chat'[c].saved[i].read = TRUE)

LEMMA WriteReadIs ==
    ASSUME TypeInv, WriteRead, reader.chat \in DOMAIN conversation
    PROVE  MarkedRead(reader.chat)
<1> DEFINE c == reader.chat
<1>1. c \in DOMAIN chat
    BY DEF TypeInv, InboxTypeOK
<1> DEFINE s == ReadUpTo(c, reader.upto)
           v == [unread |-> IF reader.count = 0 THEN chat[c].unread ELSE 0, saved |-> s]
<1>2. ASSUME NEW i \in DOMAIN chat[c].saved
      PROVE  /\ s[i] \in IncomingRow /\ s[i].event = chat[c].saved[i].event /\ s[i].at = chat[c].saved[i].at
             /\ s[i].seen = chat[c].saved[i].seen /\ (i <= reader.upto => s[i].read = TRUE)
    <2> DEFINE now == chat[c].saved[i].read \/ i <= reader.upto
    <2>1. chat[c].saved[i] \in IncomingRow
        BY <1>1, SavedIs
    <2>2. s[i] = [chat[c].saved[i] EXCEPT !.read = now]
        BY DEF ReadUpTo
    <2>3. ASSUME NEW b \in BOOLEAN, NEW row \in IncomingRow
          PROVE  /\ [row EXCEPT !.read = b] \in IncomingRow /\ [row EXCEPT !.read = b].read = b
                 /\ [row EXCEPT !.read = b].event = row.event /\ [row EXCEPT !.read = b].at = row.at
                 /\ [row EXCEPT !.read = b].seen = row.seen
        BY DEF IncomingRow
    <2>4. now \in BOOLEAN /\ (i <= reader.upto => now = TRUE)
        OBVIOUS
    <2> HIDE DEF now, s
    <2>5. QED
        BY <2>1, <2>2, <2>3, <2>4
<1>3. DOMAIN s = DOMAIN chat[c].saved
    BY DEF ReadUpTo
<1>4. s \in [DOMAIN chat[c].saved -> IncomingRow]
    BY <1>2, <1>3 DEF ReadUpTo
<1>5. s \in Seq(IncomingRow)
    BY <1>1, <1>4, SavedIs, SameLength
<1>6. chat' = [chat EXCEPT ![c] = v]
    BY <1>1 DEF WriteRead, WriteZero
<1> HIDE DEF s
<1>7. v \in Conversation /\ v.saved = s /\ v.unread = (IF reader.count = 0 THEN chat[c].unread ELSE 0)
    BY <1>1, <1>5, SavedIs DEF Conversation
<1> HIDE DEF v
<1>8. /\ chat' \in Seq(Conversation) /\ Len(chat') = Len(chat) /\ DOMAIN chat' = DOMAIN chat /\ chat'[c] = v
      /\ \A d \in DOMAIN chat : d # c => chat'[d] = chat[d]
    BY <1>1, <1>6, <1>7, TypeFacts, OneElement
<1>9. QED
    BY <1>1, <1>2, <1>3, <1>7, <1>8 DEF MarkedRead

LEMMA EmptiedIs ==
    ASSUME TypeInv, NEW C, chat' = Emptied(C)
    PROVE  /\ chat' \in Seq(Conversation) /\ Len(chat') = Len(chat) /\ DOMAIN chat' = DOMAIN chat
           /\ \A d \in DOMAIN chat : d \notin C => chat'[d] = chat[d]
           /\ \A d \in DOMAIN chat : d \in C => chat'[d].saved = <<>> /\ DOMAIN chat'[d].saved = {} /\ chat'[d].unread = 0
<1> DEFINE none == [unread |-> 0, saved |-> <<>>]
<1>1. <<>> \in Seq(IncomingRow) /\ DOMAIN <<>> = {}
    BY EmptySeq, SeqIs
<1>2. none \in Conversation /\ none.saved = <<>> /\ none.unread = 0
    BY <1>1 DEF Conversation
<1>3. DOMAIN chat' = DOMAIN chat /\ \A d \in DOMAIN chat : chat'[d] = IF d \in C THEN none ELSE chat[d]
    BY DEF Emptied
<1> HIDE DEF none
<1>4. chat' \in [DOMAIN chat -> Conversation]
    <2>1. \A d \in DOMAIN chat : (IF d \in C THEN none ELSE chat[d]) \in Conversation
        BY <1>2, TypeFacts
    <2>2. chat' = [d \in DOMAIN chat |-> IF d \in C THEN none ELSE chat[d]]
        BY DEF Emptied, none
    <2>3. QED
        BY <2>1, <2>2
<1>5. chat' \in Seq(Conversation) /\ Len(chat') = Len(chat)
    BY <1>4, TypeFacts, SameLength
<1>6. QED
    BY <1>1, <1>2, <1>3, <1>5

LEMMA EventsInTyped ==
    ASSUME TypeInv, NEW c \in DOMAIN chat
    PROVE  EventsIn(c) \subseteq EventSet
BY SavedIs DEF EventsIn

-----------------------------------------------------------------------------
(* Every step keeps the types.                                             *)

LEMMA MishapTyped == ASSUME TypeInv, Mishap PROVE mishaps' \in 0 .. MaxMishaps
<1>1. mishaps \in 0 .. MaxMishaps
    BY DEF TypeInv, InboxTypeOK
<1>2. QED
    BY <1>1, InboxAssumption DEF Mishap

LEMMA OpenIs ==
    ASSUME TypeInv, NEW c \in DOMAIN conversation
    PROVE  c \in DOMAIN chat /\ c \in Nat /\ c # 0 /\ c <= Len(chat)
<1>1. c \in DOMAIN chat
    BY DEF TypeInv, InboxTypeOK
<1>2. QED
    BY <1>1, TypeFacts

LEMMA LatestIs == ASSUME TypeInv, NEW c \in Latest PROVE c = 0 \/ (c \in DOMAIN conversation /\ c \in DOMAIN chat)
<1>1. DOMAIN conversation \subseteq DOMAIN chat
    BY DEF TypeInv, InboxTypeOK
<1>2. QED
    BY <1>1 DEF Latest

\* A request that begins a payload, and one that goes on to the next event.
Begin(q, p, a) == [q EXCEPT !.stage = "open", !.payload = p, !.at = a]

GoOn(q, n, a) == [q EXCEPT !.stage = "open", !.next = n, !.at = a, !.chat = 0]

LEMMA BeginIs ==
    ASSUME NEW q \in WorkerState, NEW p \in Payload, NEW a \in Nat
    PROVE  /\ Begin(q, p, a) \in WorkerState /\ Begin(q, p, a).stage = "open" /\ Begin(q, p, a).at = a
           /\ Begin(q, p, a).payload = p /\ Begin(q, p, a).chat = q.chat /\ Begin(q, p, a).next = q.next
BY DEF WorkerState, Begin

LEMMA GoOnIs ==
    ASSUME NEW q \in WorkerState, NEW n \in Nat, NEW a \in Nat
    PROVE  /\ GoOn(q, n, a) \in WorkerState /\ GoOn(q, n, a).stage = "open" /\ GoOn(q, n, a).at = a
           /\ GoOn(q, n, a).payload = q.payload /\ GoOn(q, n, a).chat = 0 /\ GoOn(q, n, a).next = n
<1>1. GoOn(q, n, a) \in WorkerState
    BY DEF WorkerState, GoOn
<1>2. GoOn(q, n, a).stage = "open" /\ GoOn(q, n, a).at = a /\ GoOn(q, n, a).payload = q.payload
      /\ GoOn(q, n, a).chat = 0 /\ GoOn(q, n, a).next = n
    BY DEF WorkerState, GoOn
<1>3. QED
    BY <1>1, <1>2

LEMMA ReceiveTypes ==
    ASSUME TypeInv, NEW w \in Worker, NEW p \in Payload, Receive(w, p)
    PROVE  TypeInv'
<1> DEFINE r == Begin(FreeWorker, p, clock + 1)
<1>1. clock \in Nat /\ mishaps \in 0 .. MaxMishaps /\ Len(chat) \in Nat
    BY TypeFacts DEF TypeInv, InboxTypeOK
<1>2. r \in WorkerState /\ r.stage = "open" /\ r.at = clock + 1 /\ r.chat = 0 /\ r.next = 1 /\ r.payload = p
    <2>1. FreeWorker \in WorkerState /\ FreeWorker.chat = 0 /\ FreeWorker.next = 1 /\ clock + 1 \in Nat
        BY <1>1, FreeWorkerTyped
    <2>2. QED
        BY <2>1, BeginIs
<1>3. 1 \in 1 .. Len(Events[p])
    BY EventsAre
<1>4. mishaps' \in 0 .. MaxMishaps
    BY <1>1, InboxAssumption DEF Receive, Mishap
<1>5. worker' = [worker EXCEPT ![w] = r] /\ clock' = clock + 1
    BY DEF Receive, Begin
<1>6. UNCHANGED <<hook, customer, conversation, chat, task, reader, wiped, skewed, orphan>>
    BY DEF Receive
<1> HIDE DEF r
<1>7. r.at > 0 /\ r.at <= clock' /\ r.chat <= Len(chat) /\ r.next \in 1 .. Len(Events[r.payload])
    BY <1>1, <1>2, <1>3, <1>5
<1>8. hook' \in [Payload -> {"due", "ok"}]
    BY <1>6 DEF TypeInv, InboxTypeOK
<1>9. QED
    BY <1>2, <1>4, <1>5, <1>6, <1>7, <1>8, WorkerTurns

LEMMA LookTypes ==
    ASSUME TypeInv, NEW w \in Worker, Look(w)
    PROVE  TypeInv'
<1>1. PICK c \in Latest :
          /\ worker[w].stage = "open"
          /\ worker' = [worker EXCEPT ![w].stage = "save",
                                      ![w].person = IF customer.here THEN customer.id ELSE 0,
                                      ![w].chat = c,
                                      ![w].count = IF c = 0 THEN 0 ELSE chat[c].unread]
          /\ UNCHANGED <<hook, customer, conversation, chat, task, reader, wiped, clock, mishaps, skewed, orphan>>
    BY DEF Look
<1> DEFINE person == IF customer.here THEN customer.id ELSE 0
           count == IF c = 0 THEN 0 ELSE chat[c].unread
           r == [worker[w] EXCEPT !.stage = "save", !.person = person, !.chat = c, !.count = count]
<1>2. worker' = [worker EXCEPT ![w] = r]
    BY <1>1
<1>3. person \in Nat
    BY DEF TypeInv, InboxTypeOK
<1>4. c \in Nat /\ c <= Len(chat)
    BY LatestIs, TypeFacts
<1>5. count \in Nat
    BY LatestIs, SavedIs
<1>6. worker[w] \in WorkerState /\ worker[w].at <= clock /\ worker[w].at > 0 /\ worker[w].next \in 1 .. Len(Events[worker[w].payload])
    BY <1>1, TypeFacts DEF TypeInv, Begins, Begun, InboxTypeOK
<1> HIDE DEF person, count
<1>7. /\ r \in WorkerState /\ r.stage = "save" /\ r.at = worker[w].at /\ r.chat = c /\ r.next = worker[w].next
      /\ r.payload = worker[w].payload
    BY <1>3, <1>4, <1>5, <1>6 DEF WorkerState
<1> HIDE DEF r
<1>8. /\ hook' \in [Payload -> {"due", "ok"}] /\ mishaps' \in 0 .. MaxMishaps /\ clock' = clock
      /\ UNCHANGED <<customer, conversation, chat, reader, wiped, skewed, task, orphan>>
    BY <1>1 DEF TypeInv, InboxTypeOK
<1>9. r.at <= clock' /\ r.chat <= Len(chat) /\ r.next \in 1 .. Len(Events[r.payload]) /\ r.at > 0
    BY <1>4, <1>6, <1>7, <1>8
<1>10. QED
    BY <1>1, <1>2, <1>7, <1>8, <1>9, WorkerTurns

\* What a request is once its payload is done, and once it is over.
LEMMA FreeAgain ==
    ASSUME TypeInv, NEW w \in Worker, NEW r, r \in {FreeWorker, [FreeWorker EXCEPT !.stage = "answer", !.payload = worker[w].payload]},
           worker' = [worker EXCEPT ![w] = r], UNCHANGED <<customer, conversation, chat, reader, wiped, skewed, clock>>,
           hook' \in [Payload -> {"due", "ok"}], mishaps' \in 0 .. MaxMishaps,
           \/ UNCHANGED <<task, orphan>>
           \/ worker[w].stage = "queue" /\ task' \cup orphan' \subseteq task \cup orphan \cup {<<worker[w].chat, worker[w].at>>}
    PROVE  TypeInv'
<1>1. worker[w].payload \in Payload /\ clock \in Nat /\ Len(chat) \in Nat
    BY TypeFacts DEF WorkerState
<1>2. r \in WorkerState /\ r.stage \in {"idle", "answer"} /\ r.at = 0 /\ r.chat = 0 /\ r.next = 1 /\ r.payload \in Payload
    BY <1>1, FreeWorkerTyped DEF WorkerState
<1>3. 1 \in 1 .. Len(Events[r.payload])
    BY <1>2, EventsAre
<1>4. r.at <= clock' /\ r.chat <= Len(chat) /\ r.next \in 1 .. Len(Events[r.payload])
    BY <1>1, <1>2, <1>3
<1>5. QED
    BY <1>2, <1>4, WorkerTurns

LEMMA TasksAdded ==
    ASSUME NEW t
    PROVE  WithTask(t) \subseteq task \cup {t}
BY DEF WithTask

LEMMA EnqueueTypes ==
    ASSUME TypeInv, NEW w \in Worker, Enqueue(w) \/ EnqueueFails(w)
    PROVE  TypeInv'
<1>1. GoesOn(w) /\ worker[w].stage = "queue" /\ UNCHANGED <<hook, customer, conversation, chat, reader, wiped, skewed>>
    BY DEF Enqueue, EnqueueFails, GoesOn
<1>2. task' \cup orphan' \subseteq task \cup orphan \cup {<<worker[w].chat, worker[w].at>>}
    <2>1. CASE Enqueue(w)
        BY <2>1, TasksAdded DEF Enqueue
    <2>2. CASE EnqueueFails(w)
        BY <2>2 DEF EnqueueFails
    <2>3. QED
        BY <2>1, <2>2
<1>3. hook' \in [Payload -> {"due", "ok"}] /\ mishaps' \in 0 .. MaxMishaps
    BY <1>1, InboxAssumption DEF Enqueue, EnqueueFails, Mishap, TypeInv, InboxTypeOK
<1>4. CASE worker[w].next = Len(Events[worker[w].payload])
    <2>1. worker' = [worker EXCEPT ![w] = [FreeWorker EXCEPT !.stage = "answer", !.payload = worker[w].payload]] /\ clock' = clock
        BY <1>1, <1>4 DEF GoesOn
    <2>2. QED
        BY <1>1, <1>2, <1>3, <2>1, FreeAgain
<1>5. CASE worker[w].next # Len(Events[worker[w].payload])
    <2> DEFINE n == worker[w].next + 1
               a == clock + 1
               r == GoOn(worker[w], n, a)
    <2>1. worker' = [worker EXCEPT ![w] = r] /\ clock' = a
        BY <1>1, <1>5 DEF GoesOn, GoOn
    <2>2. worker[w] \in WorkerState /\ clock \in Nat /\ Len(chat) \in Nat /\ worker[w].next \in 1 .. Len(Events[worker[w].payload])
        BY TypeFacts DEF TypeInv, InboxTypeOK
    <2>3. /\ r \in WorkerState /\ r.stage = "open" /\ r.at = a /\ r.chat = 0 /\ r.next = n
          /\ r.payload = worker[w].payload
        <3>1. n \in Nat /\ a \in Nat
            BY <2>2 DEF WorkerState
        <3> DEFINE q == worker[w]
        <3> HIDE DEF n, a
        <3>2. q \in WorkerState
            BY <2>2
        <3> HIDE DEF q
        <3>3. /\ GoOn(q, n, a) \in WorkerState /\ GoOn(q, n, a).stage = "open" /\ GoOn(q, n, a).at = a
              /\ GoOn(q, n, a).payload = q.payload /\ GoOn(q, n, a).chat = 0 /\ GoOn(q, n, a).next = n
            BY <3>1, <3>2, GoOnIs
        <3>4. QED
            BY <3>3 DEF q
    <2> HIDE DEF r
    <2>4. Len(Events[worker[w].payload]) \in Nat
        BY <2>2, EventsAre DEF WorkerState
    <2>5. r.at > 0 /\ r.at <= clock' /\ r.chat <= Len(chat) /\ r.next \in 1 .. Len(Events[r.payload])
        BY <1>5, <2>1, <2>2, <2>3, <2>4
    <2>6. QED
        BY <1>1, <1>2, <1>3, <2>1, <2>3, <2>5, WorkerTurns
<1>6. QED
    BY <1>4, <1>5

LEMMA AnswerTypes ==
    ASSUME TypeInv, NEW w \in Worker, Answer(w)
    PROVE  TypeInv'
<1>1. hook' \in [Payload -> {"due", "ok"}] /\ mishaps' \in 0 .. MaxMishaps
    BY DEF Answer, TypeInv, InboxTypeOK
<1>2. QED
    BY <1>1, FreeAgain DEF Answer

LEMMA InterruptTypes ==
    ASSUME TypeInv, NEW w \in Worker, Interrupt(w)
    PROVE  TypeInv'
<1>1. hook' \in [Payload -> {"due", "ok"}] /\ mishaps' \in 0 .. MaxMishaps
    BY InboxAssumption DEF Interrupt, Mishap, TypeInv, InboxTypeOK
<1>2. \/ UNCHANGED <<task, orphan>>
      \/ worker[w].stage = "queue" /\ task' \cup orphan' \subseteq task \cup orphan \cup {<<worker[w].chat, worker[w].at>>}
    BY DEF Interrupt
<1>3. QED
    BY <1>1, <1>2, FreeAgain DEF Interrupt

\* A request whose message is saved.
RowSaved(q, c, count) == [q EXCEPT !.stage = "queue", !.person = 0, !.chat = c, !.count = count]

\* The rows that are there now are those of before, and one with the begin of its request.
RowsOf(w) ==
    \A d \in DOMAIN chat' : \A i \in DOMAIN chat'[d].saved :
        \/ chat'[d].saved[i].at = worker[w].at
        \/ d \in DOMAIN chat /\ i \in DOMAIN chat[d].saved /\ chat'[d].saved[i].at = chat[d].saved[i].at

\* The begin of a message that is saved was its request's own, and is nobody else's afterwards.
LEMMA SavedTypes ==
    ASSUME TypeInv, NEW w \in Worker, worker[w].stage = "save", NEW r \in WorkerState,
           worker' = [worker EXCEPT ![w] = r], r.stage = "queue", r.at = worker[w].at, r.chat \in DOMAIN chat',
           r.next = worker[w].next, r.payload = worker[w].payload,
           UNCHANGED <<hook, task, reader, wiped, clock, mishaps, orphan>>,
           customer' \in [id : Nat, here : BOOLEAN], skewed' \subseteq DOMAIN chat',
           chat' \in Seq(Conversation), Len(chat) <= Len(chat'), DOMAIN chat \subseteq DOMAIN chat',
           DOMAIN conversation' \subseteq DOMAIN chat', \A d \in DOMAIN conversation' : conversation'[d] \in Nat,
           \A d \in DOMAIN chat' : d \notin DOMAIN conversation' => chat'[d].saved = <<>>,
           RowsOf(w)
    PROVE  TypeInv'
<1>1. Len(chat') \in Nat /\ DOMAIN chat' = 1 .. Len(chat') /\ Len(chat) \in Nat
    BY TypeFacts, SeqIs
<1>2. r.chat \in Nat /\ r.chat # 0 /\ r.chat <= Len(chat')
    BY <1>1
<1>3. worker[w] \in WorkerState /\ worker \in [Worker -> WorkerState]
    BY TypeFacts
<1>4. /\ worker'[w] \in WorkerState /\ worker'[w].stage = "queue" /\ worker'[w].at = worker[w].at
      /\ worker'[w].chat = r.chat /\ worker'[w].next = worker[w].next /\ worker'[w].payload = worker[w].payload
    BY <1>3
<1>5. worker' \in [Worker -> WorkerState] /\ \A v \in Worker : v # w => worker'[v] = worker[v]
    BY <1>3, <1>4
<1>6. InboxTypeOK'
    <2>1. ASSUME NEW v \in Worker
          PROVE  worker'[v].next \in 1 .. Len(Events[worker'[v].payload]) /\ worker'[v].at <= clock /\ worker'[v].chat <= Len(chat')
        <3>1. worker[v].next \in 1 .. Len(Events[worker[v].payload]) /\ worker[v].at <= clock /\ worker[v].chat <= Len(chat) /\ worker[v].chat \in Nat
            BY TypeFacts DEF TypeInv, InboxTypeOK, WorkerState
        <3>2. worker[v].chat <= Len(chat')
            BY <1>1, <3>1
        <3>3. CASE v = w
            BY <1>2, <1>4, <3>1, <3>3
        <3>4. CASE v # w
            BY <1>5, <3>1, <3>2, <3>4
        <3>5. QED
            BY <3>3, <3>4
    <2>2. ASSUME NEW d \in DOMAIN chat', NEW i \in DOMAIN chat'[d].saved PROVE chat'[d].saved[i].at <= clock
        <3>1. worker[w].at <= clock
            BY TypeFacts
        <3>2. CASE chat'[d].saved[i].at = worker[w].at
            BY <3>1, <3>2
        <3>3. CASE d \in DOMAIN chat /\ i \in DOMAIN chat[d].saved /\ chat'[d].saved[i].at = chat[d].saved[i].at
            BY <3>3, SavedIs
        <3>4. QED
            BY <3>2, <3>3 DEF RowsOf
    <2>3. ASSUME NEW t \in task \cup orphan PROVE t \in (DOMAIN chat') \X Nat /\ t[2] <= clock
        <3>1. t \in (DOMAIN chat) \X Nat /\ t[2] <= clock
            BY TaskTyped
        <3>2. QED
            BY <3>1
    <2>4. reader \in Waiting /\ reader.chat <= Len(chat')
        <3>1. reader \in Waiting /\ reader.chat \in Nat /\ reader.chat <= Len(chat)
            BY TypeFacts DEF Waiting
        <3>2. QED
            BY <1>1, <3>1
    <2>5. hook \in [Payload -> {"due", "ok"}] /\ wiped \subseteq EventSet /\ clock \in Nat /\ mishaps \in 0 .. MaxMishaps
        BY DEF TypeInv, InboxTypeOK
    <2>6. QED
        BY <1>5, <2>1, <2>2, <2>3, <2>4, <2>5 DEF InboxTypeOK, WorkerState, Waiting, Conversation
<1>7. Begins'
    <2>1. OwnBegin(w) /\ Begun(w) /\ worker[w].at > 0
        BY DEF TypeInv, Begins, Begun
    <2>2. ASSUME NEW v \in Worker, worker'[v].stage \in {"open", "save"} PROVE OwnBegin(v)'
        <3>1. v # w /\ worker'[v] = worker[v] /\ OwnBegin(v)
            BY <1>4, <1>5, <2>2 DEF TypeInv, Begins
        <3>2. worker[v].at # worker[w].at
            BY <2>1, <3>1 DEF OwnBegin
        <3>3. \A d \in DOMAIN chat' : \A i \in DOMAIN chat'[d].saved : chat'[d].saved[i].at # worker[v].at
            BY <3>1, <3>2 DEF OwnBegin, RowsOf
        <3>4. QED
            BY <1>4, <1>5, <3>1, <3>2, <3>3 DEF OwnBegin, Begun
    <2>3. clock' \in Nat /\ \A v \in Worker : IF Begun(v)' THEN worker'[v].at > 0 ELSE worker'[v].at = 0
        BY <1>4, <1>5, <2>1 DEF TypeInv, Begins, Begun
    <2>4. QED
        BY <2>2, <2>3 DEF Begins
<1>8. Rooted'
    BY <1>2, <1>4, <1>5 DEF TypeInv, Rooted
<1>9. QED
    BY <1>6, <1>7, <1>8 DEF TypeInv

LEMMA SaveIntoTypes ==
    ASSUME TypeInv, NEW w \in Worker, SaveInto(w)
    PROVE  TypeInv'
<1> DEFINE c == worker[w].chat
<1>1. /\ c \in DOMAIN conversation /\ c \in DOMAIN chat
      /\ chat' \in Seq(Conversation) /\ Len(chat') = Len(chat) /\ DOMAIN chat' = DOMAIN chat
      /\ Added(c, worker[w].count + 1, w)
      /\ \A d \in DOMAIN chat : d # c => chat'[d] = chat[d]
      /\ DOMAIN conversation' = DOMAIN conversation /\ \A d \in DOMAIN conversation : conversation'[d] \in Nat
    BY SaveIntoIs
<1>2. worker[w] \in WorkerState /\ c \in Nat /\ Len(chat) \in Nat
    BY TypeFacts DEF WorkerState
<1>3. worker' = [worker EXCEPT ![w] = RowSaved(worker[w], c, 0)] /\ worker[w].stage = "save"
    BY <1>2 DEF SaveInto, RowSaved, WorkerState
<1>4. UNCHANGED <<hook, task, reader, wiped, clock, mishaps, orphan, customer>>
    BY DEF SaveInto
<1>5. skewed' \subseteq DOMAIN chat
    BY <1>1 DEF SaveInto, TypeInv, InboxTypeOK
<1>6. customer' \in [id : Nat, here : BOOLEAN] /\ DOMAIN conversation \subseteq DOMAIN chat
    BY <1>4 DEF TypeInv, InboxTypeOK
<1>7. \A d \in DOMAIN chat : d \notin DOMAIN conversation => chat'[d].saved = <<>>
    BY <1>1 DEF TypeInv, Rooted
<1>8. RowsOf(w)
    <2>1. SavedMessage(w).at = worker[w].at
        BY MessageTyped
    <2> SUFFICES ASSUME NEW d \in DOMAIN chat, NEW i \in DOMAIN chat'[d].saved
                 PROVE  \/ chat'[d].saved[i].at = worker[w].at
                        \/ i \in DOMAIN chat[d].saved /\ chat'[d].saved[i].at = chat[d].saved[i].at
        BY <1>1 DEF RowsOf
    <2> HIDE DEF c
    <2>2. CASE d = c
        BY <1>1, <2>1, <2>2 DEF Added
    <2>3. CASE d # c
        BY <1>1, <2>3
    <2>4. QED
        BY <2>2, <2>3
<1> HIDE DEF c
<1>9. Len(chat) <= Len(chat') /\ 0 \in Nat
    BY <1>1, <1>2
<1>10. QED
    <2> DEFINE q == worker[w]
               r == RowSaved(q, c, 0)
    <2>1. q \in WorkerState /\ worker' = [worker EXCEPT ![w] = r]
        BY <1>2, <1>3
    <2> HIDE DEF q
    <2>2. r \in WorkerState
        BY <1>2, <2>1 DEF RowSaved, WorkerState
    <2>3. r.stage = "queue" /\ r.at = q.at /\ r.chat = c /\ r.next = q.next /\ r.payload = q.payload
        BY <2>1 DEF RowSaved, WorkerState
    <2> HIDE DEF r
    <2>4. r.at = worker[w].at /\ r.next = worker[w].next /\ r.payload = worker[w].payload /\ r.chat \in DOMAIN chat'
        BY <1>1, <2>3 DEF q
    <2>5. worker' = [worker EXCEPT ![w] = r] /\ r.stage = "queue" /\ worker[w].stage = "save"
        BY <1>3, <2>1, <2>3
    <2>6. /\ DOMAIN conversation' \subseteq DOMAIN chat' /\ \A d \in DOMAIN conversation' : conversation'[d] \in Nat
          /\ \A d \in DOMAIN chat' : d \notin DOMAIN conversation' => chat'[d].saved = <<>>
          /\ chat' \in Seq(Conversation) /\ Len(chat) <= Len(chat') /\ DOMAIN chat \subseteq DOMAIN chat'
          /\ skewed' \subseteq DOMAIN chat'
        BY <1>1, <1>5, <1>6, <1>7, <1>9
    <2>7. QED
        BY <1>4, <1>6, <1>8, <2>2, <2>4, <2>5, <2>6, SavedTypes

LEMMA SaveFirstTypes ==
    ASSUME TypeInv, NEW w \in Worker, SaveFirst(w)
    PROVE  TypeInv'
<1> DEFINE c == Len(chat) + 1
           n == worker[w].count
<1>1. /\ c \notin DOMAIN chat /\ c \in Nat \ {0} /\ chat' \in Seq(Conversation) /\ Len(chat') = c
      /\ DOMAIN chat' = DOMAIN chat \cup {c}
      /\ \A d \in DOMAIN chat : chat'[d] = chat[d]
      /\ chat'[c].unread = 1 /\ DOMAIN chat'[c].saved = {1} /\ chat'[c].saved[1] = SavedMessage(w)
      /\ DOMAIN conversation' = DOMAIN conversation \cup {c} /\ \A d \in DOMAIN conversation' : conversation'[d] \in Nat
    BY SaveFirstIs
<1>2. worker[w] \in WorkerState /\ n \in Nat /\ Len(chat) \in Nat
    BY TypeFacts DEF WorkerState
<1>3. worker' = [worker EXCEPT ![w] = RowSaved(worker[w], c, n)] /\ worker[w].stage = "save"
    BY <1>2 DEF SaveFirst, RowSaved, WorkerState
<1>4. UNCHANGED <<hook, task, reader, wiped, clock, mishaps, skewed, orphan>>
    BY DEF SaveFirst
<1>5. customer' \in [id : Nat, here : BOOLEAN]
    BY DEF SaveFirst, TypeInv, InboxTypeOK
<1>6. skewed' \subseteq DOMAIN chat' /\ DOMAIN conversation' \subseteq DOMAIN chat'
    BY <1>1, <1>4 DEF TypeInv, InboxTypeOK
<1>7. \A d \in DOMAIN chat' : d \notin DOMAIN conversation' => chat'[d].saved = <<>>
    BY <1>1 DEF TypeInv, Rooted
<1>8. Len(chat) <= Len(chat')
    BY <1>1, <1>2
<1> HIDE DEF c, n
<1>9. RowsOf(w)
    <2>1. SavedMessage(w).at = worker[w].at
        BY MessageTyped
    <2> SUFFICES ASSUME NEW d \in DOMAIN chat', NEW i \in DOMAIN chat'[d].saved
                 PROVE  \/ chat'[d].saved[i].at = worker[w].at
                        \/ d \in DOMAIN chat /\ i \in DOMAIN chat[d].saved /\ chat'[d].saved[i].at = chat[d].saved[i].at
        BY DEF RowsOf
    <2>2. CASE d = c
        BY <1>1, <2>1, <2>2
    <2>3. CASE d # c
        BY <1>1, <2>3
    <2>4. QED
        BY <2>2, <2>3
<1>10. QED
    <2> DEFINE q == worker[w]
               r == RowSaved(q, c, n)
    <2>1. q \in WorkerState /\ worker' = [worker EXCEPT ![w] = r]
        BY <1>2, <1>3
    <2> HIDE DEF q
    <2>2. r \in WorkerState
        BY <1>1, <1>2, <2>1 DEF RowSaved, WorkerState
    <2>3. r.stage = "queue" /\ r.at = q.at /\ r.chat = c /\ r.next = q.next /\ r.payload = q.payload
        BY <2>1 DEF RowSaved, WorkerState
    <2> HIDE DEF r
    <2>4. r.at = worker[w].at /\ r.next = worker[w].next /\ r.payload = worker[w].payload /\ r.chat \in DOMAIN chat'
        BY <1>1, <2>3 DEF q
    <2>5. worker' = [worker EXCEPT ![w] = r] /\ r.stage = "queue" /\ worker[w].stage = "save"
        BY <1>3, <2>1, <2>3
    <2>6. /\ DOMAIN conversation' \subseteq DOMAIN chat' /\ \A d \in DOMAIN conversation' : conversation'[d] \in Nat
          /\ \A d \in DOMAIN chat' : d \notin DOMAIN conversation' => chat'[d].saved = <<>>
          /\ chat' \in Seq(Conversation) /\ Len(chat) <= Len(chat') /\ DOMAIN chat \subseteq DOMAIN chat'
          /\ skewed' \subseteq DOMAIN chat'
        BY <1>1, <1>6, <1>7, <1>8
    <2>7. QED
        BY <1>4, <1>5, <1>9, <2>2, <2>4, <2>5, <2>6, SavedTypes

\* The begin of a request that fails is given back: nothing else has it, so nothing is later than the clock.
LEMMA SaveFailsTypes ==
    ASSUME TypeInv, NEW w \in Worker, SaveFails(w)
    PROVE  TypeInv'
<1>1. /\ worker[w].stage = "save" /\ worker' = [worker EXCEPT ![w] = FreeWorker]
      /\ clock' = (IF worker[w].at = clock THEN clock - 1 ELSE clock)
      /\ UNCHANGED <<hook, customer, conversation, chat, task, reader, wiped, mishaps, skewed, orphan>>
    BY DEF SaveFails
<1>2. OwnBegin(w) /\ worker[w].at > 0 /\ worker[w].at \in Nat /\ worker[w].at <= clock /\ clock \in Nat
    BY <1>1, TypeFacts DEF TypeInv, Begins, Begun
<1>3. clock' \in Nat /\ \A n \in Nat : n <= clock /\ n # worker[w].at => n <= clock'
    BY <1>1, <1>2
<1>4. worker \in [Worker -> WorkerState] /\ worker' \in [Worker -> WorkerState]
    BY <1>1, TypeFacts, FreeWorkerTyped
<1>5. worker'[w] = FreeWorker /\ \A v \in Worker : v # w => worker'[v] = worker[v]
    BY <1>1, <1>4
<1>6. ASSUME NEW v \in Worker
      PROVE  worker'[v].next \in 1 .. Len(Events[worker'[v].payload]) /\ worker'[v].at <= clock' /\ worker'[v].chat <= Len(chat)
    <2>1. CASE v = w
        BY <1>3, <1>5, <2>1, FreeWorkerTyped, TypeFacts
    <2>2. CASE v # w
        <3>1. worker[v].at \in Nat /\ worker[v].at <= clock
            BY TypeFacts
        <3>2. worker[v].at # worker[w].at
            BY <1>2, <2>2 DEF OwnBegin, TypeInv, Begins
        <3>3. worker[v].at <= clock'
            BY <1>3, <3>1, <3>2
        <3>4. QED
            BY <1>5, <2>2, <3>3 DEF TypeInv, InboxTypeOK
    <2>3. QED
        BY <2>1, <2>2
<1>7. ASSUME NEW c \in DOMAIN chat, NEW i \in DOMAIN chat[c].saved PROVE chat[c].saved[i].at <= clock'
    BY <1>2, <1>3, SavedIs DEF OwnBegin
<1>8. ASSUME NEW t \in task \cup orphan PROVE t \in (DOMAIN chat) \X Nat /\ t[2] <= clock'
    <2>1. t \in (DOMAIN chat) \X Nat /\ t[2] \in Nat /\ t[2] <= clock
        BY TaskTyped
    <2>2. t[2] # worker[w].at
        BY <1>2 DEF OwnBegin
    <2>3. QED
        BY <1>3, <2>1, <2>2
<1>9. InboxTypeOK'
    BY <1>1, <1>3, <1>4, <1>6, <1>7, <1>8 DEF TypeInv, InboxTypeOK, WorkerState
<1>10. Begins'
    <2>1. ASSUME NEW v \in Worker, worker'[v].stage \in {"open", "save"} PROVE OwnBegin(v)'
        <3>1. v # w /\ worker'[v] = worker[v] /\ OwnBegin(v)
            BY <1>5, <2>1, FreeWorkerTyped DEF TypeInv, Begins
        <3>2. QED
            BY <1>1, <1>5, <3>1, FreeWorkerTyped DEF OwnBegin, Begun
    <2>2. \A v \in Worker : IF Begun(v)' THEN worker'[v].at > 0 ELSE worker'[v].at = 0
        BY <1>5, FreeWorkerTyped DEF TypeInv, Begins, Begun
    <2>3. QED
        BY <1>3, <2>1, <2>2 DEF Begins
<1>11. Rooted'
    BY <1>1, <1>5, FreeWorkerTyped DEF TypeInv, Rooted
<1>12. QED
    BY <1>9, <1>10, <1>11 DEF TypeInv

LEMMA RunTaskTypes ==
    ASSUME TypeInv, NEW t \in task, RunTask(t)
    PROVE  TypeInv'
<1>1. /\ UNCHANGED <<hook, worker, customer, reader, wiped, clock, mishaps, skewed, orphan>> /\ task' \subseteq task
    BY DEF RunTask
<1>2. /\ mishaps' \in 0 .. MaxMishaps /\ customer' \in [id : Nat, here : BOOLEAN] /\ wiped' \subseteq EventSet
      /\ skewed' \subseteq DOMAIN chat /\ DOMAIN conversation \subseteq DOMAIN chat
      /\ \A d \in DOMAIN conversation : conversation[d] \in Nat
      /\ reader' \in Waiting /\ reader'.chat <= Len(chat) /\ (reader'.stage # "idle" => reader'.chat # 0)
      /\ \A d \in DOMAIN chat : d \notin DOMAIN conversation => chat[d].saved = <<>>
    BY <1>1, TypeFacts DEF TypeInv, InboxTypeOK, Rooted
<1>3. CASE t[1] \in DOMAIN conversation /\ IsLast(t)
    <2> DEFINE c == t[1]
    <2>1. /\ c \in DOMAIN chat /\ chat' \in Seq(Conversation) /\ Len(chat') = Len(chat) /\ DOMAIN chat' = DOMAIN chat
          /\ \A d \in DOMAIN chat : d # c => chat'[d] = chat[d]
          /\ DOMAIN chat'[c].saved = DOMAIN chat[c].saved
          /\ \A i \in DOMAIN chat[c].saved : chat'[c].saved[i].at = chat[c].saved[i].at
          /\ DOMAIN conversation' = DOMAIN conversation /\ \A d \in DOMAIN conversation : conversation'[d] \in Nat
        <3>1. Attended(c)
            BY <1>3, RunTaskIs
        <3> HIDE DEF c
        <3>2. QED
            BY <3>1 DEF Attended
    <2>2. c \in DOMAIN conversation
        BY <1>3
    <2> HIDE DEF c
    <2>3. OldRows
        BY <2>1 DEF OldRows
    <2>4. \A d \in DOMAIN chat : d \notin DOMAIN conversation' => chat'[d].saved = <<>>
        BY <1>2, <2>1, <2>2
    <2>5. QED
        BY <1>1, <1>2, <2>1, <2>3, <2>4, NothingSaved
<1>4. CASE ~ (t[1] \in DOMAIN conversation /\ IsLast(t))
    <2>1. UNCHANGED <<chat, conversation>>
        BY <1>4 DEF RunTask
    <2>2. OldRows
        BY <2>1 DEF OldRows
    <2>3. QED
        BY <1>1, <1>2, <2>1, <2>2, TypeFacts, NothingSaved
<1>5. QED
    BY <1>3, <1>4

LEMMA TouchTypes ==
    ASSUME TypeInv, NEW c \in DOMAIN conversation, Touch(c)
    PROVE  TypeInv'
<1>1. UNCHANGED <<hook, worker, customer, chat, task, reader, wiped, clock, mishaps, skewed, orphan>>
      /\ conversation' = Moved(c)
    BY DEF Touch
<1>2. DOMAIN conversation' = DOMAIN conversation /\ \A d \in DOMAIN conversation' : conversation'[d] \in Nat
    BY <1>1, PlacesTyped
<1>3. /\ mishaps' \in 0 .. MaxMishaps /\ customer' \in [id : Nat, here : BOOLEAN] /\ wiped' \subseteq EventSet
      /\ skewed' \subseteq DOMAIN chat /\ DOMAIN conversation \subseteq DOMAIN chat
      /\ reader' \in Waiting /\ reader'.chat <= Len(chat) /\ (reader'.stage # "idle" => reader'.chat # 0)
      /\ \A d \in DOMAIN chat : d \notin DOMAIN conversation => chat[d].saved = <<>>
    BY <1>1, TypeFacts DEF TypeInv, InboxTypeOK, Rooted
<1>4. OldRows
    BY <1>1 DEF OldRows
<1>5. QED
    BY <1>1, <1>2, <1>3, <1>4, TypeFacts, NothingSaved

LEMMA StartReadTypes ==
    ASSUME TypeInv, NEW c \in DOMAIN conversation, StartRead(c)
    PROVE  TypeInv'
<1>1. UNCHANGED <<hook, worker, customer, conversation, chat, task, wiped, clock, skewed, orphan>>
    BY DEF StartRead
<1>2. c \in DOMAIN chat /\ c \in Nat /\ c # 0 /\ c <= Len(chat)
    BY OpenIs
<1>3. chat[c].unread \in Nat
    BY <1>2, SavedIs
<1>4. reader' \in Waiting /\ reader'.chat = c
    BY <1>2, <1>3 DEF StartRead, FreeReader, Waiting
<1>5. /\ mishaps' \in 0 .. MaxMishaps /\ customer' \in [id : Nat, here : BOOLEAN] /\ wiped' \subseteq EventSet
      /\ skewed' \subseteq DOMAIN chat /\ DOMAIN conversation \subseteq DOMAIN chat
      /\ \A d \in DOMAIN conversation : conversation[d] \in Nat
      /\ \A d \in DOMAIN chat : d \notin DOMAIN conversation => chat[d].saved = <<>>
    BY <1>1, MishapTyped DEF StartRead, TypeInv, InboxTypeOK, Rooted
<1>6. OldRows
    BY <1>1 DEF OldRows
<1>7. QED
    BY <1>1, <1>2, <1>4, <1>5, <1>6, TypeFacts, NothingSaved

LEMMA FlagReadTypes ==
    ASSUME TypeInv, FlagRead
    PROVE  TypeInv'
<1>1. UNCHANGED <<hook, worker, customer, conversation, chat, task, wiped, clock, mishaps, skewed, orphan>>
    BY DEF FlagRead
<1>2. reader \in Waiting /\ reader.chat # 0 /\ reader.chat \in DOMAIN chat /\ reader.chat <= Len(chat)
    BY TypeFacts DEF FlagRead, TypeInv, Rooted, Waiting
<1>3. Len(chat[reader.chat].saved) \in Nat
    BY <1>2, SavedIs
<1>4. reader' \in Waiting /\ reader'.chat = reader.chat
    BY <1>2, <1>3 DEF FlagRead, Waiting
<1>5. /\ mishaps' \in 0 .. MaxMishaps /\ customer' \in [id : Nat, here : BOOLEAN] /\ wiped' \subseteq EventSet
      /\ skewed' \subseteq DOMAIN chat /\ DOMAIN conversation \subseteq DOMAIN chat
      /\ \A d \in DOMAIN conversation : conversation[d] \in Nat
      /\ \A d \in DOMAIN chat : d \notin DOMAIN conversation => chat[d].saved = <<>>
    BY <1>1 DEF TypeInv, InboxTypeOK, Rooted
<1>6. OldRows
    BY <1>1 DEF OldRows
<1>7. QED
    BY <1>1, <1>2, <1>4, <1>5, <1>6, TypeFacts, NothingSaved

LEMMA WriteReadTypes ==
    ASSUME TypeInv, WriteRead
    PROVE  TypeInv'
<1>1. UNCHANGED <<hook, worker, customer, conversation, task, wiped, clock, mishaps, orphan>> /\ reader' = FreeReader
    BY DEF WriteRead
<1>2. reader' \in Waiting /\ reader'.chat = 0 /\ reader'.stage = "idle" /\ Len(chat) \in Nat
    BY <1>1, TypeFacts DEF FreeReader, Waiting
<1>3. /\ mishaps' \in 0 .. MaxMishaps /\ customer' \in [id : Nat, here : BOOLEAN] /\ wiped' \subseteq EventSet
      /\ DOMAIN conversation \subseteq DOMAIN chat
      /\ \A d \in DOMAIN conversation : conversation[d] \in Nat
      /\ \A d \in DOMAIN chat : d \notin DOMAIN conversation => chat[d].saved = <<>>
    BY <1>1 DEF TypeInv, InboxTypeOK, Rooted
<1>4. CASE reader.chat \in DOMAIN conversation
    <2> DEFINE c == reader.chat
    <2>1. /\ c \in DOMAIN chat /\ chat' \in Seq(Conversation) /\ Len(chat') = Len(chat) /\ DOMAIN chat' = DOMAIN chat
          /\ \A d \in DOMAIN chat : d # c => chat'[d] = chat[d]
          /\ DOMAIN chat'[c].saved = DOMAIN chat[c].saved
          /\ \A i \in DOMAIN chat[c].saved : chat'[c].saved[i].at = chat[c].saved[i].at
        <3>1. MarkedRead(c)
            BY <1>4, WriteReadIs
        <3> HIDE DEF c
        <3>2. QED
            BY <3>1 DEF MarkedRead
    <2>2. skewed' \subseteq DOMAIN chat
        BY <1>4, <2>1 DEF WriteRead, TypeInv, InboxTypeOK
    <2>3. c \in DOMAIN conversation
        BY <1>4
    <2> HIDE DEF c
    <2>4. OldRows
        BY <2>1 DEF OldRows
    <2>5. \A d \in DOMAIN chat : d \notin DOMAIN conversation => chat'[d].saved = <<>>
        BY <1>3, <2>1, <2>3
    <2>6. reader'.chat <= Len(chat)
        BY <1>2
    <2>7. QED
        BY <1>1, <1>2, <1>3, <2>1, <2>2, <2>4, <2>5, <2>6, NothingSaved
<1>5. CASE reader.chat \notin DOMAIN conversation
    <2>1. UNCHANGED <<chat, skewed>>
        BY <1>5 DEF WriteRead
    <2>2. OldRows
        BY <2>1 DEF OldRows
    <2>3. reader'.chat <= Len(chat) /\ skewed' \subseteq DOMAIN chat
        BY <1>2, <2>1 DEF TypeInv, InboxTypeOK
    <2>4. QED
        BY <1>1, <1>2, <1>3, <2>1, <2>2, <2>3, TypeFacts, NothingSaved
<1>6. QED
    BY <1>4, <1>5

LEMMA DeleteTypes ==
    ASSUME TypeInv, NEW C, C \subseteq DOMAIN chat, chat' = Emptied(C), DOMAIN conversation' = DOMAIN conversation \ C,
           \A d \in DOMAIN conversation' : conversation'[d] \in Nat,
           mishaps' \in 0 .. MaxMishaps, customer' \in [id : Nat, here : BOOLEAN],
           wiped' = wiped \cup UNION {EventsIn(c) : c \in C}, skewed' \subseteq skewed,
           UNCHANGED <<hook, worker, task, reader, clock, orphan>>
    PROVE  TypeInv'
<1>1. /\ chat' \in Seq(Conversation) /\ Len(chat') = Len(chat) /\ DOMAIN chat' = DOMAIN chat
      /\ \A d \in DOMAIN chat : d \notin C => chat'[d] = chat[d]
      /\ \A d \in DOMAIN chat : d \in C => chat'[d].saved = <<>> /\ DOMAIN chat'[d].saved = {} /\ chat'[d].unread = 0
    BY EmptiedIs
<1>2. /\ wiped \subseteq EventSet /\ skewed' \subseteq DOMAIN chat /\ DOMAIN conversation \subseteq DOMAIN chat
      /\ \A d \in DOMAIN chat : d \notin DOMAIN conversation => chat[d].saved = <<>>
      /\ reader' \in Waiting /\ reader'.chat <= Len(chat) /\ (reader'.stage # "idle" => reader'.chat # 0)
    BY TypeFacts DEF TypeInv, InboxTypeOK, Rooted
<1>3. wiped' \subseteq EventSet
    BY <1>2, EventsInTyped
<1>4. OldRows
    BY <1>1 DEF OldRows
<1>5. \A d \in DOMAIN chat : d \notin DOMAIN conversation' => chat'[d].saved = <<>>
    BY <1>1, <1>2
<1>6. QED
    BY <1>1, <1>2, <1>3, <1>4, <1>5, NothingSaved

LEMMA DeleteConversationTypes ==
    ASSUME TypeInv, NEW c \in DOMAIN conversation, DeleteConversation(c)
    PROVE  TypeInv'
<1>1. DOMAIN conversation' = DOMAIN conversation \ {c} /\ \A d \in DOMAIN conversation' : conversation'[d] \in Nat
    BY PlacesTyped DEF DeleteConversation
<1>2. mishaps' \in 0 .. MaxMishaps /\ customer' \in [id : Nat, here : BOOLEAN] /\ c \in DOMAIN chat
    BY MishapTyped DEF DeleteConversation, TypeInv, InboxTypeOK
<1>3. wiped' = wiped \cup UNION {EventsIn(d) : d \in {c}}
    BY DEF DeleteConversation
<1>4. /\ chat' = Emptied({c}) /\ skewed' \subseteq skewed /\ {c} \subseteq DOMAIN chat
      /\ UNCHANGED <<hook, worker, task, reader, clock, orphan>>
    BY <1>2 DEF DeleteConversation
<1>5. QED
    BY <1>1, <1>2, <1>3, <1>4, DeleteTypes

LEMMA DeleteCustomerTypes ==
    ASSUME TypeInv, DeleteCustomer
    PROVE  TypeInv'
<1>1. DOMAIN conversation' = {} /\ DOMAIN conversation \ DOMAIN chat = {}
    BY DEF DeleteCustomer, TypeInv, InboxTypeOK
<1>2. mishaps' \in 0 .. MaxMishaps /\ customer' \in [id : Nat, here : BOOLEAN]
    <2>1. customer \in [id : Nat, here : BOOLEAN] /\ customer' = [customer EXCEPT !.here = FALSE] /\ Mishap
        BY DEF DeleteCustomer, TypeInv, InboxTypeOK
    <2>2. QED
        BY <2>1, MishapTyped
<1>3. /\ chat' = Emptied(DOMAIN chat) /\ skewed' \subseteq skewed /\ wiped' = wiped \cup UNION {EventsIn(c) : c \in DOMAIN chat}
      /\ UNCHANGED <<hook, worker, task, reader, clock, orphan>>
    BY DEF DeleteCustomer
<1>4. QED
    BY <1>1, <1>2, <1>3, DeleteTypes

LEMMA StepTypeInv == TypeInv /\ [InboxNext]_inboxVars => TypeInv'
<1> SUFFICES ASSUME TypeInv, [InboxNext]_inboxVars PROVE TypeInv'
    OBVIOUS
<1>1. ASSUME NEW w \in Worker, WorkerStep(w) \/ EnqueueFails(w) \/ Interrupt(w) PROVE TypeInv'
    BY <1>1, LookTypes, SaveIntoTypes, SaveFirstTypes, SaveFailsTypes, EnqueueTypes, AnswerTypes, InterruptTypes DEF WorkerStep
<1>2. ASSUME NEW w \in Worker, NEW p \in Payload, Receive(w, p) PROVE TypeInv'
    BY <1>2, ReceiveTypes
<1>3. ASSUME NEW t \in task, RunTask(t) PROVE TypeInv'
    BY <1>3, RunTaskTypes
<1>4. ASSUME NEW c \in DOMAIN conversation, Touch(c) \/ StartRead(c) \/ DeleteConversation(c) PROVE TypeInv'
    BY <1>4, TouchTypes, StartReadTypes, DeleteConversationTypes
<1>5. CASE FlagRead \/ WriteRead \/ DeleteCustomer
    BY <1>5, FlagReadTypes, WriteReadTypes, DeleteCustomerTypes
<1>6. CASE UNCHANGED inboxVars
    <2>1. InboxTypeOK'
        BY <1>6 DEF TypeInv, InboxTypeOK, inboxVars
    <2>2. Begins'
        BY <1>6 DEF TypeInv, Begins, OwnBegin, Begun, inboxVars
    <2>3. Rooted'
        BY <1>6 DEF TypeInv, Rooted, inboxVars
    <2>4. QED
        BY <2>1, <2>2, <2>3 DEF TypeInv
<1>7. QED
    BY <1>1, <1>2, <1>3, <1>4, <1>5, <1>6 DEF InboxNext

\* Every variable of the inbox keeps its type: the counters and the places of the conversations are natural numbers, the
\* clock is not earlier than any message although a request that fails sets it back, and what a task, a request or a
\* mark_read points to is a conversation.
THEOREM InboxTyped == InboxSpec => []InboxTypeOK
<1>1. InboxInit => TypeInv
    BY InitTypeInv
<1>2. TypeInv /\ [InboxNext]_inboxVars => TypeInv'
    BY StepTypeInv
<1>3. TypeInv => InboxTypeOK
    BY DEF TypeInv
<1>4. QED
    BY <1>1, <1>2, <1>3, PTL DEF InboxSpec

-----------------------------------------------------------------------------
(* Nothing that the messenger has its 200 for is lost.                     *)

\* An event is in the inbox, or was until staff deleted it.
Arrived(e) == e \in wiped \/ \E c \in DOMAIN chat : \E i \in DOMAIN chat[c].saved : chat[c].saved[i].event = e

\* A request has saved the events it is past, and at "queue" the one it is at.
Past(w, i) ==
    \/ i < worker[w].next
    \/ i = worker[w].next /\ worker[w].stage = "queue"
    \/ worker[w].stage = "answer"

PastEvent(w, e) == \E i \in DOMAIN Events[worker[w].payload] : Events[worker[w].payload][i] = e /\ Past(w, i)

KeptInv ==
    /\ \A p \in Payload : hook[p] = "ok" => \A e \in ToSet(Events[p]) : Arrived(e)
    /\ \A w \in Worker : \A e \in EventSet : PastEvent(w, e) => Arrived(e)

\* A request that is idle or at its first event has none behind it.
LEMMA NonePast ==
    ASSUME NEW n, n = 1, NEW p \in Payload, NEW i \in DOMAIN Events[p]
    PROVE  ~ (i < n)
BY EventsAre

LEMMA InitKeptInv == InboxInit => KeptInv
<1> SUFFICES ASSUME InboxInit PROVE KeptInv
    OBVIOUS
<1>1. \A p \in Payload : hook[p] = "due"
    BY DEF InboxInit
<1>2. \A w \in Worker : worker[w] = FreeWorker
    BY DEF InboxInit
<1>3. ASSUME NEW w \in Worker, NEW e PROVE ~PastEvent(w, e)
    <2>1. worker[w].payload \in Payload /\ worker[w].next = 1 /\ worker[w].stage = "idle"
        BY <1>2, FreeWorkerTyped DEF WorkerState
    <2>2. QED
        BY <2>1, NonePast DEF PastEvent, Past
<1>4. QED
    BY <1>1, <1>3 DEF KeptInv

\* No step takes an event out of the inbox without a trace.
LEMMA ArrivedStays ==
    ASSUME TypeInv, [InboxNext]_inboxVars, NEW e, Arrived(e)
    PROVE  Arrived(e)'
<1>1. CASE UNCHANGED <<chat, wiped>>
    BY <1>1 DEF Arrived
<1>2. ASSUME UNCHANGED wiped, DOMAIN chat \subseteq DOMAIN chat',
             \A c \in DOMAIN chat : \A i \in DOMAIN chat[c].saved :
                 i \in DOMAIN chat'[c].saved /\ chat'[c].saved[i].event = chat[c].saved[i].event
      PROVE  Arrived(e)'
    BY <1>2 DEF Arrived
<1>3. ASSUME NEW w \in Worker, SaveInto(w) PROVE Arrived(e)'
    <2> DEFINE c == worker[w].chat
    <2>1. /\ c \in DOMAIN chat /\ DOMAIN chat' = DOMAIN chat /\ Added(c, worker[w].count + 1, w)
          /\ \A d \in DOMAIN chat : d # c => chat'[d] = chat[d]
        BY <1>3, SaveIntoIs
    <2>2. UNCHANGED wiped
        BY <1>3 DEF SaveInto
    <2> HIDE DEF c
    <2>3. \A d \in DOMAIN chat : \A i \in DOMAIN chat[d].saved :
              i \in DOMAIN chat'[d].saved /\ chat'[d].saved[i].event = chat[d].saved[i].event
        BY <2>1 DEF Added
    <2>4. QED
        BY <1>2, <2>1, <2>2, <2>3
<1>4. ASSUME NEW w \in Worker, SaveFirst(w) PROVE Arrived(e)'
    BY <1>2, <1>4, SaveFirstIs DEF SaveFirst
<1>5. ASSUME NEW t \in task, RunTask(t) PROVE Arrived(e)'
    <2>1. CASE t[1] \in DOMAIN conversation /\ IsLast(t)
        <3>1. Attended(t[1]) /\ UNCHANGED wiped
            BY <1>5, <2>1, RunTaskIs DEF RunTask
        <3>2. QED
            BY <1>2, <3>1 DEF Attended
    <2>2. CASE ~ (t[1] \in DOMAIN conversation /\ IsLast(t))
        BY <1>1, <1>5, <2>2 DEF RunTask
    <2>3. QED
        BY <2>1, <2>2
<1>6. ASSUME WriteRead PROVE Arrived(e)'
    <2>1. CASE reader.chat \in DOMAIN conversation
        <3>1. MarkedRead(reader.chat) /\ UNCHANGED wiped
            BY <1>6, <2>1, WriteReadIs DEF WriteRead
        <3>2. QED
            BY <1>2, <3>1 DEF MarkedRead
    <2>2. CASE reader.chat \notin DOMAIN conversation
        BY <1>1, <1>6, <2>2 DEF WriteRead
    <2>3. QED
        BY <2>1, <2>2
<1>7. ASSUME NEW C, chat' = Emptied(C), wiped' = wiped \cup UNION {EventsIn(c) : c \in C} PROVE Arrived(e)'
    <2>1. DOMAIN chat' = DOMAIN chat /\ \A d \in DOMAIN chat : d \notin C => chat'[d] = chat[d]
        BY <1>7, EmptiedIs
    <2>2. CASE e \in wiped
        BY <1>7, <2>2 DEF Arrived
    <2>3. ASSUME NEW c \in DOMAIN chat, NEW i \in DOMAIN chat[c].saved, chat[c].saved[i].event = e PROVE Arrived(e)'
        <3>1. CASE c \in C
            BY <1>7, <2>3, <3>1 DEF Arrived, EventsIn
        <3>2. CASE c \notin C
            BY <2>1, <2>3, <3>2 DEF Arrived
        <3>3. QED
            BY <3>1, <3>2
    <2>4. QED
        BY <2>2, <2>3 DEF Arrived
<1>8. ASSUME NEW c \in DOMAIN conversation, DeleteConversation(c) PROVE Arrived(e)'
    <2>1. wiped' = wiped \cup UNION {EventsIn(d) : d \in {c}}
        BY <1>8 DEF DeleteConversation
    <2>2. QED
        BY <1>7, <1>8, <2>1 DEF DeleteConversation
<1>9. ASSUME DeleteCustomer PROVE Arrived(e)'
    BY <1>7, <1>9 DEF DeleteCustomer
<1>10. ASSUME NEW w \in Worker, Look(w) \/ SaveFails(w) \/ Enqueue(w) \/ EnqueueFails(w) \/ Answer(w) \/ Interrupt(w) PROVE UNCHANGED <<chat, wiped>>
    BY <1>10 DEF Look, SaveFails, Enqueue, EnqueueFails, GoesOn, Answer, Interrupt
<1>11. ASSUME NEW w \in Worker, NEW p \in Payload, Receive(w, p) PROVE UNCHANGED <<chat, wiped>>
    BY <1>11 DEF Receive
<1>12. ASSUME NEW c \in DOMAIN conversation, Touch(c) \/ StartRead(c) PROVE UNCHANGED <<chat, wiped>>
    BY <1>12 DEF Touch, StartRead
<1>13. CASE FlagRead \/ UNCHANGED inboxVars
    BY <1>1, <1>13 DEF FlagRead, inboxVars
<1>14. QED
    BY <1>1, <1>3, <1>4, <1>5, <1>6, <1>8, <1>9, <1>10, <1>11, <1>12, <1>13 DEF InboxNext, WorkerStep

\* The event of a message that is saved has arrived.
LEMMA SavedArrives ==
    ASSUME TypeInv, NEW w \in Worker, SaveInto(w) \/ SaveFirst(w),
           NEW e, e = Events[worker[w].payload][worker[w].next]
    PROVE  Arrived(e)'
<1>1. SavedMessage(w).event = e
    BY MessageTyped
<1>2. CASE SaveInto(w)
    <2> DEFINE c == worker[w].chat
               n == Len(chat[c].saved) + 1
    <2>1. c \in DOMAIN chat /\ DOMAIN chat' = DOMAIN chat /\ Added(c, worker[w].count + 1, w)
        BY <1>2, SaveIntoIs
    <2>2. n \in DOMAIN chat'[c].saved /\ chat'[c].saved[n] = SavedMessage(w)
        BY <2>1 DEF Added
    <2> HIDE DEF c, n
    <2>3. QED
        BY <1>1, <2>1, <2>2 DEF Arrived
<1>3. CASE SaveFirst(w)
    <2> DEFINE c == Len(chat) + 1
    <2>1. c \in DOMAIN chat' /\ 1 \in DOMAIN chat'[c].saved /\ chat'[c].saved[1] = SavedMessage(w)
        BY <1>3, SaveFirstIs
    <2> HIDE DEF c
    <2>2. QED
        BY <1>1, <2>1 DEF Arrived
<1>4. QED
    BY <1>2, <1>3

\* What one step makes of a request.
LEMMA RequestSteps ==
    ASSUME TypeInv, [InboxNext]_inboxVars, NEW w \in Worker
    PROVE  \/ worker'[w] = worker[w]
           \/ worker'[w].payload \in Payload /\ worker'[w].next = 1 /\ worker'[w].stage \in {"idle", "open"}
           \/ /\ worker'[w].payload = worker[w].payload
              /\ \/ worker'[w].next = worker[w].next /\ worker'[w].stage = "save" /\ Look(w)
                 \/ worker'[w].next = worker[w].next /\ worker'[w].stage = "queue" /\ (SaveInto(w) \/ SaveFirst(w))
                 \/ worker'[w].next = worker[w].next + 1 /\ worker'[w].stage = "open" /\ worker[w].stage = "queue"
                 \/ worker'[w].stage = "answer" /\ worker[w].stage = "queue" /\ worker[w].next = Len(Events[worker[w].payload])
<1> DEFINE Goal == \/ worker'[w] = worker[w]
                   \/ worker'[w].payload \in Payload /\ worker'[w].next = 1 /\ worker'[w].stage \in {"idle", "open"}
                   \/ /\ worker'[w].payload = worker[w].payload
                      /\ \/ worker'[w].next = worker[w].next /\ worker'[w].stage = "save" /\ Look(w)
                         \/ worker'[w].next = worker[w].next /\ worker'[w].stage = "queue" /\ (SaveInto(w) \/ SaveFirst(w))
                         \/ worker'[w].next = worker[w].next + 1 /\ worker'[w].stage = "open" /\ worker[w].stage = "queue"
                         \/ worker'[w].stage = "answer" /\ worker[w].stage = "queue" /\ worker[w].next = Len(Events[worker[w].payload])
<1>1. worker \in [Worker -> WorkerState] /\ worker[w] \in WorkerState
    BY TypeFacts
<1>2. FreeWorker \in WorkerState /\ FreeWorker.next = 1 /\ FreeWorker.stage = "idle" /\ FreeWorker.payload \in Payload
    BY FreeWorkerTyped DEF WorkerState
<1>3. ASSUME NEW p \in Payload, Receive(w, p) PROVE Goal
    BY <1>1, <1>2, <1>3 DEF Receive, WorkerState
<1>4. ASSUME Look(w) PROVE Goal
    <2>1. worker'[w].payload = worker[w].payload /\ worker'[w].next = worker[w].next /\ worker'[w].stage = "save"
        BY <1>1, <1>4 DEF Look, WorkerState
    <2>2. QED
        BY <1>4, <2>1
<1>5. ASSUME SaveInto(w) PROVE Goal
    BY <1>1, <1>5 DEF SaveInto, WorkerState
<1>6. ASSUME SaveFirst(w) PROVE Goal
    BY <1>1, <1>6 DEF SaveFirst, WorkerState
<1>7. ASSUME SaveFails(w) \/ Answer(w) \/ Interrupt(w) PROVE Goal
    BY <1>1, <1>2, <1>7 DEF SaveFails, Answer, Interrupt
<1>8. ASSUME Enqueue(w) \/ EnqueueFails(w) PROVE Goal
    <2> GoesOn(w)
        BY <1>8 DEF Enqueue, EnqueueFails
    <2>1. CASE worker[w].next = Len(Events[worker[w].payload])
        BY <1>1, <1>2, <2>1 DEF GoesOn, WorkerState
    <2>2. CASE worker[w].next # Len(Events[worker[w].payload])
        BY <1>1, <2>2 DEF GoesOn, WorkerState
    <2>3. QED
        BY <2>1, <2>2
<1>9. ASSUME NEW v \in Worker, v # w, WorkerStep(v) \/ EnqueueFails(v) \/ Interrupt(v) PROVE worker'[w] = worker[w]
    BY <1>1, <1>9 DEF WorkerStep, Look, SaveInto, SaveFirst, SaveFails, Enqueue, EnqueueFails, GoesOn, Answer, Interrupt
<1>10. ASSUME NEW v \in Worker, v # w, NEW p \in Payload, Receive(v, p) PROVE worker'[w] = worker[w]
    BY <1>1, <1>10 DEF Receive
<1>11. ASSUME NEW t \in task, RunTask(t) PROVE UNCHANGED worker
    BY <1>11 DEF RunTask
<1>12. ASSUME NEW c \in DOMAIN conversation, Touch(c) \/ StartRead(c) \/ DeleteConversation(c) PROVE UNCHANGED worker
    BY <1>12 DEF Touch, StartRead, DeleteConversation
<1>13. CASE FlagRead \/ WriteRead \/ DeleteCustomer \/ UNCHANGED inboxVars
    BY <1>13 DEF FlagRead, WriteRead, DeleteCustomer, inboxVars
<1>14. QED
    BY <1>3, <1>4, <1>5, <1>6, <1>7, <1>8, <1>9, <1>10, <1>11, <1>12, <1>13 DEF InboxNext, WorkerStep

\* A request leaves an event behind it only when the event has arrived.
LEMMA PastArrived ==
    ASSUME TypeInv, KeptInv, [InboxNext]_inboxVars, NEW w \in Worker, NEW e \in EventSet, PastEvent(w, e)'
    PROVE  Arrived(e)'
<1>1. PICK i \in DOMAIN Events[worker'[w].payload] : Events[worker'[w].payload][i] = e /\ Past(w, i)'
    BY DEF PastEvent
<1>2. PastEvent(w, e) => Arrived(e)'
    BY ArrivedStays DEF KeptInv
<1>3. CASE worker'[w] = worker[w]
    BY <1>1, <1>2, <1>3 DEF PastEvent, Past
<1>4. CASE worker'[w].payload \in Payload /\ worker'[w].next = 1 /\ worker'[w].stage \in {"idle", "open"}
    BY <1>1, <1>4, NonePast DEF Past
<1>5. ASSUME worker'[w].payload = worker[w].payload PROVE i \in DOMAIN Events[worker[w].payload] /\ Events[worker[w].payload][i] = e
    BY <1>1, <1>5
<1>6. worker[w].payload \in Payload /\ worker[w].next \in Nat /\ i \in Nat
    <2>1. worker[w] \in WorkerState /\ worker' \in [Worker -> WorkerState]
        BY TypeFacts, StepTypeInv DEF TypeInv, InboxTypeOK, WorkerState
    <2>2. worker'[w].payload \in Payload
        BY <2>1 DEF WorkerState
    <2>3. i \in Nat
        BY <1>1, <2>2, EventsAre
    <2>4. QED
        BY <2>1, <2>3 DEF WorkerState
<1>7. CASE worker'[w].payload = worker[w].payload /\ worker'[w].next = worker[w].next /\ worker'[w].stage = "save"
    <2>1. Past(w, i)
        BY <1>1, <1>7 DEF Past
    <2>2. QED
        BY <1>2, <1>5, <1>7, <2>1 DEF PastEvent
<1>8. CASE worker'[w].payload = worker[w].payload /\ worker'[w].next = worker[w].next /\ worker'[w].stage = "queue" /\ (SaveInto(w) \/ SaveFirst(w))
    <2>1. CASE i = worker[w].next
        BY <1>5, <1>8, <2>1, SavedArrives
    <2>2. CASE i # worker[w].next
        <3>1. Past(w, i)
            BY <1>1, <1>8, <2>2 DEF Past
        <3>2. QED
            BY <1>2, <1>5, <1>8, <3>1 DEF PastEvent
    <2>3. QED
        BY <2>1, <2>2
<1>9. CASE worker'[w].payload = worker[w].payload /\ worker'[w].next = worker[w].next + 1 /\ worker'[w].stage = "open" /\ worker[w].stage = "queue"
    <2>1. Past(w, i)
        BY <1>1, <1>6, <1>9 DEF Past
    <2>2. QED
        BY <1>2, <1>5, <1>9, <2>1 DEF PastEvent
<1>10. CASE worker'[w].payload = worker[w].payload /\ worker[w].stage = "queue" /\ worker[w].next = Len(Events[worker[w].payload])
    <2>1. i <= Len(Events[worker[w].payload])
        BY <1>5, <1>6, <1>10, EventsAre
    <2>2. Past(w, i)
        BY <1>6, <1>10, <2>1 DEF Past
    <2>3. QED
        BY <1>2, <1>5, <1>10, <2>2 DEF PastEvent
<1>11. QED
    BY <1>3, <1>4, <1>7, <1>8, <1>9, <1>10, RequestSteps

LEMMA StepKeptInv == TypeInv /\ KeptInv /\ [InboxNext]_inboxVars => KeptInv'
<1> SUFFICES ASSUME TypeInv, KeptInv, [InboxNext]_inboxVars PROVE KeptInv'
    OBVIOUS
<1>1. ASSUME NEW p \in Payload, hook'[p] = "ok", NEW e \in ToSet(Events[p]) PROVE Arrived(e)'
    <2>1. CASE hook[p] = "ok"
        BY <2>1, ArrivedStays DEF KeptInv
    <2>2. CASE hook[p] # "ok"
        <3>1. UNCHANGED hook \/ \E w \in Worker : Answer(w)
            <4>1. ASSUME NEW w \in Worker, Look(w) \/ SaveInto(w) \/ SaveFirst(w) \/ SaveFails(w) \/ Enqueue(w) \/ EnqueueFails(w) \/ Interrupt(w)
                  PROVE  UNCHANGED hook
                BY <4>1 DEF Look, SaveInto, SaveFirst, SaveFails, Enqueue, EnqueueFails, GoesOn, Interrupt
            <4>2. ASSUME NEW w \in Worker, NEW q \in Payload, Receive(w, q) PROVE UNCHANGED hook
                BY <4>2 DEF Receive
            <4>3. ASSUME NEW t \in task, RunTask(t) PROVE UNCHANGED hook
                BY <4>3 DEF RunTask
            <4>4. ASSUME NEW c \in DOMAIN conversation, Touch(c) \/ StartRead(c) \/ DeleteConversation(c) PROVE UNCHANGED hook
                BY <4>4 DEF Touch, StartRead, DeleteConversation
            <4>5. CASE FlagRead \/ WriteRead \/ DeleteCustomer \/ UNCHANGED inboxVars
                BY <4>5 DEF FlagRead, WriteRead, DeleteCustomer, inboxVars
            <4>6. QED
                BY <4>1, <4>2, <4>3, <4>4, <4>5 DEF InboxNext, WorkerStep
        <3>2. PICK w \in Worker : Answer(w)
            BY <1>1, <2>2, <3>1
        <3>3. worker[w].stage = "answer" /\ worker[w].payload = p
            BY <1>1, <2>2, <3>2 DEF Answer, TypeInv, InboxTypeOK
        <3>4. PastEvent(w, e) /\ e \in EventSet
            <4>1. PICK i \in DOMAIN Events[p] : Events[p][i] = e
                BY EventsAre
            <4>2. Past(w, i)
                BY <3>3 DEF Past
            <4>3. e \in EventSet
                BY <4>1, EventsAre
            <4>4. QED
                BY <3>3, <4>1, <4>2, <4>3 DEF PastEvent
        <3>5. QED
            BY <3>4, ArrivedStays DEF KeptInv
    <2>3. QED
        BY <2>1, <2>2
<1>2. QED
    BY <1>1, PastArrived DEF KeptInv

\* When the messenger has its 200, every event of the payload is in the inbox unless staff deleted it there: a request is
\* past an event only when that event was committed, and only a request that is past all of them answers.
THEOREM NothingIsLost == InboxSpec => []NothingLost
<1>1. InboxInit => TypeInv /\ KeptInv
    BY InitTypeInv, InitKeptInv
<1>2. TypeInv /\ KeptInv /\ [InboxNext]_inboxVars => (TypeInv /\ KeptInv)'
    BY StepTypeInv, StepKeptInv
<1>3. KeptInv => NothingLost
    BY DEF KeptInv, Arrived, NothingLost, EventsIn
<1>4. QED
    BY <1>1, <1>2, <1>3, PTL DEF InboxSpec

-----------------------------------------------------------------------------
(* Conversations that are open at a time.                                  *)

\* The requests that found no conversation and have not opened theirs yet.
Opening == {w \in Worker : worker[w].stage = "save" /\ worker[w].chat = 0}

OpenInv == Cardinality(DOMAIN conversation) + Cardinality(Opening) <= Cardinality(Worker)

OpenCounts ==
    /\ IsFiniteSet(DOMAIN conversation) /\ Cardinality(DOMAIN conversation) \in Nat
    /\ IsFiniteSet(Opening) /\ Cardinality(Opening) \in Nat /\ Cardinality(Opening) <= Cardinality(Worker)
    /\ Cardinality(Worker) \in Nat

LEMMA OpenCounted == TypeInv => OpenCounts
<1> SUFFICES ASSUME TypeInv PROVE OpenCounts
    OBVIOUS
<1>1. IsFiniteSet(Worker) /\ Opening \subseteq Worker
    BY InboxAssumption DEF Opening
<1>2. QED
    BY <1>1, PlacesTyped, FS_Subset, FS_CardinalityType DEF OpenCounts

LEMMA OpenSteps ==
    ASSUME TypeInv, [InboxNext]_inboxVars, \A w \in Worker : ~SaveFirst(w)
    PROVE  DOMAIN conversation' \subseteq DOMAIN conversation
<1>1. ASSUME NEW w \in Worker, SaveInto(w) PROVE DOMAIN conversation' = DOMAIN conversation
    BY <1>1, SaveIntoIs
<1>2. ASSUME NEW w \in Worker, Look(w) \/ SaveFails(w) \/ Enqueue(w) \/ EnqueueFails(w) \/ Answer(w) \/ Interrupt(w) PROVE UNCHANGED conversation
    BY <1>2 DEF Look, SaveFails, Enqueue, EnqueueFails, GoesOn, Answer, Interrupt
<1>3. ASSUME NEW w \in Worker, NEW p \in Payload, Receive(w, p) PROVE UNCHANGED conversation
    BY <1>3 DEF Receive
<1>4. ASSUME NEW t \in task, RunTask(t) PROVE DOMAIN conversation' = DOMAIN conversation
    <2>1. CASE t[1] \in DOMAIN conversation /\ IsLast(t)
        BY <1>4, <2>1, RunTaskIs DEF Attended
    <2>2. CASE ~ (t[1] \in DOMAIN conversation /\ IsLast(t))
        BY <1>4, <2>2 DEF RunTask
    <2>3. QED
        BY <2>1, <2>2
<1>5. ASSUME NEW c \in DOMAIN conversation, Touch(c) PROVE DOMAIN conversation' = DOMAIN conversation
    BY <1>5, PlacesTyped DEF Touch
<1>6. ASSUME NEW c \in DOMAIN conversation, StartRead(c) \/ DeleteConversation(c) PROVE DOMAIN conversation' \subseteq DOMAIN conversation
    BY <1>6 DEF StartRead, DeleteConversation
<1>7. CASE FlagRead \/ WriteRead \/ UNCHANGED inboxVars
    BY <1>7 DEF FlagRead, WriteRead, inboxVars
<1>8. CASE DeleteCustomer
    BY <1>8 DEF DeleteCustomer
<1>9. QED
    BY <1>1, <1>2, <1>3, <1>4, <1>5, <1>6, <1>7, <1>8 DEF InboxNext, WorkerStep

LEMMA StepOpenInv == TypeInv /\ OpenInv /\ [InboxNext]_inboxVars => OpenInv'
<1> SUFFICES ASSUME TypeInv, OpenInv, [InboxNext]_inboxVars PROVE OpenInv'
    OBVIOUS
<1>1. /\ IsFiniteSet(DOMAIN conversation) /\ Cardinality(DOMAIN conversation) \in Nat
      /\ IsFiniteSet(Opening) /\ Cardinality(Opening) \in Nat /\ Cardinality(Worker) \in Nat
    BY OpenCounted DEF OpenCounts
<1>2. /\ IsFiniteSet(DOMAIN conversation') /\ Cardinality(DOMAIN conversation') \in Nat
      /\ IsFiniteSet(Opening') /\ Cardinality(Opening') \in Nat /\ Cardinality(Opening') <= Cardinality(Worker)
    <2>1. TypeInv'
        BY StepTypeInv
    <2>2. OpenCounts'
        BY <2>1, OpenCounted, PTL
    <2>3. QED
        BY <2>2 DEF OpenCounts
<1>3. CASE \E w \in Worker : SaveFirst(w)
    <2>1. PICK w \in Worker : SaveFirst(w)
        BY <1>3
    <2> DEFINE c == Len(chat) + 1
    <2>2. DOMAIN conversation' = DOMAIN conversation \cup {c} /\ c \notin DOMAIN conversation
        BY <2>1, SaveFirstIs DEF TypeInv, InboxTypeOK
    <2>3. Cardinality(DOMAIN conversation') = Cardinality(DOMAIN conversation) + 1
        BY <1>1, <2>2, FS_AddElement
    <2>4. w \in Opening /\ Opening' = Opening \ {w}
        <3>1. worker \in [Worker -> WorkerState] /\ worker[w] \in WorkerState
            BY TypeFacts
        <3>2. worker'[w].stage = "queue" /\ \A v \in Worker : v # w => worker'[v] = worker[v]
            BY <2>1, <3>1 DEF SaveFirst, WorkerState
        <3>3. QED
            BY <2>1, <3>2 DEF Opening, SaveFirst
    <2>5. Cardinality(Opening') = Cardinality(Opening) - 1
        BY <1>1, <2>4, FS_RemoveElement
    <2>6. QED
        BY <1>1, <2>3, <2>5 DEF OpenInv
<1>4. CASE ~ \E w \in Worker : SaveFirst(w)
    <2>1. DOMAIN conversation' \subseteq DOMAIN conversation
        BY <1>4, OpenSteps
    <2>2. CASE DOMAIN conversation = {}
        <3>1. DOMAIN conversation' = {}
            BY <2>1, <2>2
        <3>2. Cardinality(DOMAIN conversation') = 0
            BY <3>1, FS_EmptySet
        <3>3. QED
            BY <1>1, <1>2, <3>2 DEF OpenInv
    <2>3. CASE DOMAIN conversation # {}
        <3>1. Opening' \subseteq Opening
            <4> SUFFICES ASSUME NEW w \in Worker, worker'[w].stage = "save", worker'[w].chat = 0 PROVE w \in Opening
                BY DEF Opening
            <4>1. CASE worker'[w] = worker[w]
                BY <4>1 DEF Opening
            <4>2. CASE Look(w)
                <5>1. worker \in [Worker -> WorkerState] /\ worker[w] \in WorkerState
                    BY TypeFacts
                <5>2. worker'[w].chat \in Latest
                    BY <4>2, <5>1 DEF Look, WorkerState
                <5>3. 0 \notin Latest
                    BY <2>3, OpenIs DEF Latest
                <5>4. QED
                    BY <5>2, <5>3
            <4>3. QED
                BY <4>1, <4>2, RequestSteps
        <3>2. Cardinality(Opening') <= Cardinality(Opening)
            BY <1>1, <3>1, FS_Subset
        <3>3. Cardinality(DOMAIN conversation') <= Cardinality(DOMAIN conversation)
            BY <1>1, <2>1, FS_Subset
        <3>4. QED
            BY <1>1, <1>2, <3>2, <3>3 DEF OpenInv
    <2>4. QED
        BY <2>2, <2>3
<1>5. QED
    BY <1>3, <1>4

\* There are never more open conversations than requests run at a time: each was opened by a request that had found none,
\* and whoever looks while one is open finds it.
THEOREM FewOpen == InboxSpec => []OpenAtMostWorkers
<1>1. InboxInit => TypeInv /\ OpenInv
    <2> SUFFICES ASSUME InboxInit PROVE OpenInv
        BY InitTypeInv
    <2>1. DOMAIN conversation = {} /\ Opening = {}
        BY FreeWorkerTyped DEF InboxInit, Opening
    <2>2. Cardinality(Worker) \in Nat
        BY InboxAssumption, FS_CardinalityType
    <2>3. QED
        BY <2>1, <2>2, FS_EmptySet DEF OpenInv
<1>2. TypeInv /\ OpenInv /\ [InboxNext]_inboxVars => (TypeInv /\ OpenInv)'
    BY StepTypeInv, StepOpenInv
<1>3. TypeInv /\ OpenInv => OpenAtMostWorkers
    BY OpenCounted DEF OpenCounts, OpenInv, OpenAtMostWorkers
<1>4. QED
    BY <1>1, <1>2, <1>3, PTL DEF InboxSpec

-----------------------------------------------------------------------------
(* The unread counter.                                                     *)

\* The steps that write rows of messages or of conversations; all others leave them alone.
LEMMA WritingSteps ==
    ASSUME TypeInv, [InboxNext]_inboxVars
    PROVE  \/ UNCHANGED <<chat, skewed>> /\ DOMAIN conversation' = DOMAIN conversation
           \/ \E w \in Worker : SaveInto(w) \/ SaveFirst(w)
           \/ \E t \in task : RunTask(t)
           \/ WriteRead
           \/ \E c \in DOMAIN conversation : DeleteConversation(c)
           \/ DeleteCustomer
<1>1. ASSUME NEW w \in Worker, Look(w) \/ SaveFails(w) \/ Enqueue(w) \/ EnqueueFails(w) \/ Answer(w) \/ Interrupt(w)
      PROVE  UNCHANGED <<chat, skewed, conversation>>
    BY <1>1 DEF Look, SaveFails, Enqueue, EnqueueFails, GoesOn, Answer, Interrupt
<1>2. ASSUME NEW w \in Worker, NEW p \in Payload, Receive(w, p) PROVE UNCHANGED <<chat, skewed, conversation>>
    BY <1>2 DEF Receive
<1>3. ASSUME NEW c \in DOMAIN conversation, Touch(c) \/ StartRead(c)
      PROVE  UNCHANGED <<chat, skewed>> /\ DOMAIN conversation' = DOMAIN conversation
    BY <1>3, PlacesTyped DEF Touch, StartRead
<1>4. CASE FlagRead \/ UNCHANGED inboxVars
    BY <1>4 DEF FlagRead, inboxVars
<1>5. QED
    BY <1>1, <1>2, <1>3, <1>4 DEF InboxNext, WorkerStep

LEMMA UnreadFinite ==
    ASSUME TypeInv, NEW c \in DOMAIN chat
    PROVE  IsFiniteSet(UnreadRows(c)) /\ Cardinality(UnreadRows(c)) \in Nat
<1>1. IsFiniteSet(DOMAIN chat[c].saved)
    BY SavedIs, FS_Interval
<1>2. UnreadRows(c) \subseteq DOMAIN chat[c].saved
    BY DEF UnreadRows
<1>3. QED
    BY <1>1, <1>2, FS_Subset, FS_CardinalityType

\* What a conversation counts depends on its own row and messages.
LEMMA SameUnread ==
    ASSUME NEW c, DOMAIN chat'[c].saved = DOMAIN chat[c].saved,
           \A i \in DOMAIN chat[c].saved : chat'[c].saved[i].read = chat[c].saved[i].read
    PROVE  UnreadRows(c)' = UnreadRows(c)
BY DEF UnreadRows

LEMMA SaveIntoCounts ==
    ASSUME TypeInv, UnreadIsExplained, NEW w \in Worker, SaveInto(w), NEW d \in DOMAIN conversation', d \notin skewed'
    PROVE  chat'[d].unread = Cardinality(UnreadRows(d)')
<1> DEFINE c == worker[w].chat
           n == Len(chat[c].saved) + 1
<1>1. /\ c \in DOMAIN chat /\ c \in DOMAIN conversation /\ Added(c, worker[w].count + 1, w)
      /\ \A x \in DOMAIN chat : x # c => chat'[x] = chat[x]
      /\ DOMAIN conversation' = DOMAIN conversation
    BY SaveIntoIs
<1>2. d \notin skewed /\ d \in DOMAIN conversation /\ (d = c => chat[c].unread = worker[w].count) /\ d \in DOMAIN chat
    BY <1>1, OpenIs DEF SaveInto
<1>3. chat[d].unread = Cardinality(UnreadRows(d))
    BY <1>2 DEF UnreadIsExplained
<1>4. CASE d = c
    <2>1. /\ n \in DOMAIN chat'[d].saved /\ n \notin DOMAIN chat[d].saved /\ DOMAIN chat'[d].saved = DOMAIN chat[d].saved \cup {n}
          /\ chat'[d].saved[n].read = FALSE /\ chat'[d].unread = worker[w].count + 1
          /\ \A i \in DOMAIN chat[d].saved : chat'[d].saved[i] = chat[d].saved[i]
        BY <1>1, <1>4, MessageTyped DEF Added
    <2>2. chat'[d].unread = chat[d].unread + 1
        BY <1>2, <1>4, <2>1
    <2> HIDE DEF c, n
    <2>3. UnreadRows(d)' = UnreadRows(d) \cup {n} /\ n \notin UnreadRows(d)
        <3>1. UnreadRows(d)' = {i \in DOMAIN chat'[d].saved : ~chat'[d].saved[i].read}
            BY DEF UnreadRows
        <3>2. QED
            BY <2>1, <3>1 DEF UnreadRows
    <2>4. Cardinality(UnreadRows(d)') = Cardinality(UnreadRows(d)) + 1
        BY <1>2, <2>3, UnreadFinite, FS_AddElement
    <2>5. QED
        BY <1>3, <2>2, <2>4
<1>5. CASE d # c
    <2>1. chat'[d] = chat[d]
        BY <1>1, <1>2, <1>5
    <2>2. UnreadRows(d)' = UnreadRows(d)
        BY <2>1, SameUnread
    <2>3. QED
        BY <1>3, <2>1, <2>2
<1>6. QED
    BY <1>4, <1>5

LEMMA SaveFirstCounts ==
    ASSUME TypeInv, UnreadIsExplained, NEW w \in Worker, SaveFirst(w), NEW d \in DOMAIN conversation', d \notin skewed'
    PROVE  chat'[d].unread = Cardinality(UnreadRows(d)')
<1> DEFINE c == Len(chat) + 1
<1>1. /\ c \notin DOMAIN chat /\ \A x \in DOMAIN chat : chat'[x] = chat[x]
      /\ chat'[c].unread = 1 /\ DOMAIN chat'[c].saved = {1} /\ chat'[c].saved[1] = SavedMessage(w)
      /\ DOMAIN conversation' = DOMAIN conversation \cup {c}
    BY SaveFirstIs
<1>2. SavedMessage(w).read = FALSE /\ d \notin skewed
    BY MessageTyped DEF SaveFirst
<1> HIDE DEF c
<1>3. CASE d = c
    <2>1. UnreadRows(d)' = {1}
        <3>1. UnreadRows(d)' = {i \in DOMAIN chat'[d].saved : ~chat'[d].saved[i].read}
            BY DEF UnreadRows
        <3>2. QED
            BY <1>1, <1>2, <1>3, <3>1
    <2>2. QED
        BY <1>1, <1>3, <2>1, FS_Singleton
<1>4. CASE d # c
    <2>1. d \in DOMAIN conversation /\ d \in DOMAIN chat
        BY <1>1, <1>4, OpenIs
    <2>2. chat'[d] = chat[d]
        BY <1>1, <2>1
    <2>3. UnreadRows(d)' = UnreadRows(d)
        BY <2>2, SameUnread
    <2>4. QED
        BY <1>2, <2>1, <2>2, <2>3 DEF UnreadIsExplained
<1>5. QED
    BY <1>3, <1>4

LEMMA RunTaskCounts ==
    ASSUME TypeInv, UnreadIsExplained, NEW t \in task, RunTask(t), NEW d \in DOMAIN conversation', d \notin skewed'
    PROVE  chat'[d].unread = Cardinality(UnreadRows(d)')
<1>1. CASE t[1] \in DOMAIN conversation /\ IsLast(t)
    <2> DEFINE c == t[1]
    <2>1. Attended(c) /\ d \notin skewed
        BY <1>1, RunTaskIs DEF RunTask
    <2> HIDE DEF c
    <2>2. d \in DOMAIN conversation /\ d \in DOMAIN chat
        BY <2>1, OpenIs DEF Attended
    <2>3. chat'[d].unread = chat[d].unread /\ UnreadRows(d)' = UnreadRows(d)
        <3>1. CASE d = c
            BY <2>1, <2>2, <3>1, SameUnread DEF Attended
        <3>2. CASE d # c
            BY <2>1, <2>2, <3>2, SameUnread DEF Attended
        <3>3. QED
            BY <3>1, <3>2
    <2>4. QED
        BY <2>1, <2>2, <2>3 DEF UnreadIsExplained
<1>2. CASE ~ (t[1] \in DOMAIN conversation /\ IsLast(t))
    <2>1. UNCHANGED <<chat, conversation, skewed>>
        BY <1>2 DEF RunTask
    <2>2. UnreadRows(d)' = UnreadRows(d)
        BY <2>1 DEF UnreadRows
    <2>3. QED
        BY <2>1, <2>2 DEF UnreadIsExplained
<1>3. QED
    BY <1>1, <1>2

LEMMA WriteReadCounts ==
    ASSUME TypeInv, UnreadIsExplained, WriteRead, NEW d \in DOMAIN conversation', d \notin skewed'
    PROVE  chat'[d].unread = Cardinality(UnreadRows(d)')
<1>1. CASE reader.chat \in DOMAIN conversation
    <2> DEFINE c == reader.chat
    <2>1. MarkedRead(c) /\ d \in DOMAIN conversation /\ d \in DOMAIN chat
        BY <1>1, WriteReadIs, OpenIs DEF WriteRead
    <2>2. CASE d = c
        <3>1. reader.upto = Len(chat[c].saved) /\ (reader.count = 0 => chat[c].unread = 0)
            BY <1>1, <2>2 DEF WriteRead
        <3> HIDE DEF c
        <3>2. chat'[c].unread = 0
            BY <2>1, <3>1 DEF MarkedRead
        <3>3. \A i \in DOMAIN chat'[c].saved : chat'[c].saved[i].read = TRUE
            BY <2>1, <2>2, <3>1, SavedIs DEF MarkedRead
        <3>4. UnreadRows(d)' = {i \in DOMAIN chat'[d].saved : ~chat'[d].saved[i].read}
            BY DEF UnreadRows
        <3>5. UnreadRows(d)' = {}
            BY <2>2, <3>3, <3>4
        <3>6. QED
            BY <2>2, <3>2, <3>5, FS_EmptySet
    <2>3. CASE d # c
        <3>1. d \notin skewed
            BY <1>1, <2>3 DEF WriteRead
        <3> HIDE DEF c
        <3>2. chat'[d] = chat[d]
            BY <2>1, <2>3 DEF MarkedRead
        <3>3. UnreadRows(d)' = UnreadRows(d)
            BY <3>2, SameUnread
        <3>4. QED
            BY <2>1, <3>1, <3>2, <3>3 DEF UnreadIsExplained
    <2>4. QED
        BY <2>2, <2>3
<1>2. CASE reader.chat \notin DOMAIN conversation
    <2>1. UNCHANGED <<chat, conversation, skewed>>
        BY <1>2 DEF WriteRead
    <2>2. UnreadRows(d)' = UnreadRows(d)
        BY <2>1 DEF UnreadRows
    <2>3. QED
        BY <2>1, <2>2 DEF UnreadIsExplained
<1>3. QED
    BY <1>1, <1>2

LEMMA DeleteConversationCounts ==
    ASSUME TypeInv, UnreadIsExplained, NEW c \in DOMAIN conversation, DeleteConversation(c), NEW d \in DOMAIN conversation', d \notin skewed'
    PROVE  chat'[d].unread = Cardinality(UnreadRows(d)')
<1>1. d # c /\ d \in DOMAIN conversation /\ d \notin skewed /\ d \in DOMAIN chat
    BY OpenIs DEF DeleteConversation
<1>2. chat'[d] = chat[d]
    BY <1>1, EmptiedIs DEF DeleteConversation
<1>3. UnreadRows(d)' = UnreadRows(d)
    BY <1>2, SameUnread
<1>4. QED
    BY <1>1, <1>2, <1>3 DEF UnreadIsExplained

LEMMA StepUnread == TypeInv /\ UnreadIsExplained /\ [InboxNext]_inboxVars => UnreadIsExplained'
<1> SUFFICES ASSUME TypeInv, UnreadIsExplained, [InboxNext]_inboxVars, NEW d \in DOMAIN conversation', d \notin skewed'
             PROVE  chat'[d].unread = Cardinality(UnreadRows(d)')
    BY DEF UnreadIsExplained
<1>1. CASE UNCHANGED <<chat, skewed>> /\ DOMAIN conversation' = DOMAIN conversation
    <2>1. UnreadRows(d)' = UnreadRows(d)
        BY <1>1 DEF UnreadRows
    <2>2. QED
        BY <1>1, <2>1 DEF UnreadIsExplained
<1>2. CASE DeleteCustomer
    BY <1>2 DEF DeleteCustomer
<1>3. QED
    BY <1>1, <1>2, WritingSteps, SaveIntoCounts, SaveFirstCounts, RunTaskCounts, WriteReadCounts, DeleteConversationCounts

\* unread_count is the number of unread messages of an open conversation unless somebody wrote over a count that had
\* changed: a save on the count it read adds one row and one to the count, and a mark_read that nothing overlaps leaves none.
THEOREM UnreadExplained == InboxSpec => []UnreadIsExplained
<1>1. InboxInit => TypeInv /\ UnreadIsExplained
    BY InitTypeInv DEF InboxInit, UnreadIsExplained
<1>2. TypeInv /\ UnreadIsExplained /\ [InboxNext]_inboxVars => (TypeInv /\ UnreadIsExplained)'
    BY StepTypeInv, StepUnread
<1>3. QED
    BY <1>1, <1>2, PTL DEF InboxSpec

-----------------------------------------------------------------------------
(* Every message is answered, or its conversation has a task to come.      *)

Coming == task \cup AboutToEnqueue \cup orphan

Unneeded(c, i) == chat[c].saved[i].seen \/ Overtaken(c, i)

HasTask(c) == \E t \in Coming : t[1] = c /\ IsLast(t)

TasksInv == \A c \in DOMAIN chat : \A i \in DOMAIN chat[c].saved : Unneeded(c, i) \/ HasTask(c)

\* The rows of a conversation keep their begins, and stay answered.
SameBegins(c) ==
    /\ DOMAIN chat'[c].saved = DOMAIN chat[c].saved
    /\ \A i \in DOMAIN chat[c].saved :
          chat'[c].saved[i].at = chat[c].saved[i].at /\ (chat[c].saved[i].seen => chat'[c].saved[i].seen)

LEMMA SameSettled ==
    ASSUME TypeInv, NEW c \in DOMAIN chat, SameBegins(c)
    PROVE  /\ \A i \in DOMAIN chat[c].saved : Unneeded(c, i) => Unneeded(c, i)'
           /\ \A t : t[1] = c /\ IsLast(t) => IsLast(t)'
<1>1. ASSUME NEW i \in DOMAIN chat[c].saved, Unneeded(c, i) PROVE Unneeded(c, i)'
    <2>1. CASE chat[c].saved[i].seen
        BY <2>1 DEF SameBegins, Unneeded
    <2>2. CASE Overtaken(c, i)
        <3>1. PICK k \in 1 .. i - 1 : chat[c].saved[k].at > chat[c].saved[i].at
            BY <2>2 DEF Overtaken
        <3>2. k \in DOMAIN chat[c].saved
            BY <3>1, SavedIs
        <3>3. chat'[c].saved[k].at > chat'[c].saved[i].at
            BY <3>1, <3>2 DEF SameBegins
        <3>4. QED
            BY <3>1, <3>3 DEF Overtaken, Unneeded
    <2>3. QED
        BY <1>1, <2>1, <2>2 DEF Unneeded
<1>2. ASSUME NEW t, t[1] = c, IsLast(t) PROVE IsLast(t)'
    BY <1>2 DEF IsLast, SameBegins
<1>3. QED
    BY <1>1, <1>2

LEMMA QueueSteps ==
    ASSUME TypeInv, [InboxNext]_inboxVars, NEW w \in Worker, worker[w].stage = "queue"
    PROVE  worker'[w] = worker[w] \/ Enqueue(w) \/ EnqueueFails(w) \/ Interrupt(w)
<1>1. worker \in [Worker -> WorkerState]
    BY TypeFacts
<1>2. ASSUME NEW v \in Worker, v # w, WorkerStep(v) \/ EnqueueFails(v) \/ Interrupt(v) PROVE worker'[w] = worker[w]
    BY <1>1, <1>2 DEF WorkerStep, Look, SaveInto, SaveFirst, SaveFails, Enqueue, EnqueueFails, GoesOn, Answer, Interrupt
<1>3. ASSUME NEW v \in Worker, NEW p \in Payload, Receive(v, p) PROVE worker'[w] = worker[w]
    <2>1. v # w
        BY <1>3 DEF Receive
    <2>2. QED
        BY <1>1, <1>3, <2>1 DEF Receive
<1>4. ~Look(w) /\ ~SaveInto(w) /\ ~SaveFirst(w) /\ ~SaveFails(w) /\ ~Answer(w)
    BY DEF Look, SaveInto, SaveFirst, SaveFails, Answer
<1>5. ASSUME NEW t \in task, RunTask(t) PROVE UNCHANGED worker
    BY <1>5 DEF RunTask
<1>6. ASSUME NEW c \in DOMAIN conversation, Touch(c) \/ StartRead(c) \/ DeleteConversation(c) PROVE UNCHANGED worker
    BY <1>6 DEF Touch, StartRead, DeleteConversation
<1>7. CASE FlagRead \/ WriteRead \/ DeleteCustomer \/ UNCHANGED inboxVars
    BY <1>7 DEF FlagRead, WriteRead, DeleteCustomer, inboxVars
<1>8. QED
    BY <1>2, <1>3, <1>4, <1>5, <1>6, <1>7 DEF InboxNext, WorkerStep

LEMMA TaskSteps ==
    ASSUME [InboxNext]_inboxVars
    PROVE  /\ task \subseteq task' \/ (\E w \in Worker : Enqueue(w)) \/ (\E t \in task : RunTask(t))
           /\ orphan \subseteq orphan'
<1>1. ASSUME NEW w \in Worker, Look(w) \/ SaveInto(w) \/ SaveFirst(w) \/ SaveFails(w) \/ Answer(w)
      PROVE  UNCHANGED <<task, orphan>>
    BY <1>1 DEF Look, SaveInto, SaveFirst, SaveFails, Answer
<1>2. ASSUME NEW w \in Worker, Enqueue(w) \/ EnqueueFails(w) \/ Interrupt(w)
      PROVE  orphan \subseteq orphan' /\ (UNCHANGED task \/ Enqueue(w))
    BY <1>2 DEF Enqueue, EnqueueFails, Interrupt
<1>3. ASSUME NEW w \in Worker, NEW p \in Payload, Receive(w, p) PROVE UNCHANGED <<task, orphan>>
    BY <1>3 DEF Receive
<1>4. ASSUME NEW t \in task, RunTask(t) PROVE UNCHANGED orphan
    BY <1>4 DEF RunTask
<1>5. ASSUME NEW c \in DOMAIN conversation, Touch(c) \/ StartRead(c) \/ DeleteConversation(c) PROVE UNCHANGED <<task, orphan>>
    BY <1>5 DEF Touch, StartRead, DeleteConversation
<1>6. CASE FlagRead \/ WriteRead \/ DeleteCustomer \/ UNCHANGED inboxVars
    BY <1>6 DEF FlagRead, WriteRead, DeleteCustomer, inboxVars
<1>7. QED
    BY <1>1, <1>2, <1>3, <1>4, <1>5, <1>6 DEF InboxNext, WorkerStep

\* A task to come stays to come until it runs or another is put in the queue.
LEMMA ComingStays ==
    ASSUME TypeInv, [InboxNext]_inboxVars, \A w \in Worker : ~Enqueue(w), \A t \in task : ~RunTask(t), NEW t \in Coming
    PROVE  t \in Coming'
<1>1. CASE t \in task \cup orphan
    BY <1>1, TaskSteps DEF Coming
<1>2. CASE t \in AboutToEnqueue
    <2>1. PICK w \in Worker : worker[w].stage = "queue" /\ t = <<worker[w].chat, worker[w].at>>
        BY <1>2 DEF AboutToEnqueue
    <2>2. CASE worker'[w] = worker[w]
        BY <2>1, <2>2 DEF Coming, AboutToEnqueue
    <2>3. CASE EnqueueFails(w) \/ Interrupt(w)
        BY <2>1, <2>3 DEF Coming, EnqueueFails, Interrupt
    <2>4. QED
        BY <2>1, <2>2, <2>3, QueueSteps
<1>3. QED
    BY <1>1, <1>2 DEF Coming

\* What is to come stays so, and the conversation keeps its begins.
LEMMA StillSettled ==
    ASSUME TypeInv, TasksInv, NEW c \in DOMAIN chat, SameBegins(c), NEW i \in DOMAIN chat[c].saved,
           \A t \in Coming : t[1] = c /\ IsLast(t) => HasTask(c)' \/ t \in Coming'
    PROVE  Unneeded(c, i)' \/ HasTask(c)'
<1>1. CASE Unneeded(c, i)
    BY <1>1, SameSettled
<1>2. CASE HasTask(c)
    <2>1. PICK t \in Coming : t[1] = c /\ IsLast(t)
        BY <1>2 DEF HasTask
    <2>2. IsLast(t)'
        BY <2>1, SameSettled
    <2>3. QED
        BY <2>1, <2>2 DEF HasTask
<1>3. QED
    BY <1>1, <1>2 DEF TasksInv

\* The request of a message that is saved is about to enqueue its task, and whoever was about to still is.
LEMMA SavedComes ==
    ASSUME TypeInv, NEW w \in Worker, NEW c, NEW a, a = worker[w].at, worker[w].stage = "save", UNCHANGED <<task, orphan>>,
           worker'[w].stage = "queue", worker'[w].chat = c, worker'[w].at = a,
           \A v \in Worker : v # w => worker'[v] = worker[v]
    PROVE  <<c, a>> \in Coming' /\ \A t \in Coming : t \in Coming'
<1>1. <<c, a>> \in AboutToEnqueue'
    BY DEF AboutToEnqueue
<1>2. ASSUME NEW t \in AboutToEnqueue PROVE t \in AboutToEnqueue'
    <2>1. PICK v \in Worker : worker[v].stage = "queue" /\ t = <<worker[v].chat, worker[v].at>>
        BY DEF AboutToEnqueue
    <2>2. worker'[v] = worker[v]
        BY <2>1
    <2>3. QED
        BY <2>1, <2>2 DEF AboutToEnqueue
<1>3. QED
    BY <1>1, <1>2 DEF Coming

\* A task to come that is not earlier than any row of its conversation.
LEMMA LastCovers ==
    ASSUME NEW d, NEW a, NEW t, t = <<d, a>>, t \in Coming', \A k \in DOMAIN chat'[d].saved : chat'[d].saved[k].at <= a
    PROVE  HasTask(d)'
<1>1. t[1] = d /\ t[2] = a
    OBVIOUS
<1>2. IsLast(t)'
    BY <1>1 DEF IsLast
<1>3. QED
    BY <1>1, <1>2 DEF HasTask

LEMMA StillLast ==
    ASSUME NEW t, t \in Coming', IsLast(t), UNCHANGED chat, NEW d, d = t[1]
    PROVE  HasTask(d)'
<1>1. IsLast(t)'
    BY DEF IsLast
<1>2. QED
    BY <1>1 DEF HasTask

LEMMA SaveIntoSettled ==
    ASSUME TypeInv, TasksInv, NEW w \in Worker, SaveInto(w), NEW d \in DOMAIN chat', NEW i \in DOMAIN chat'[d].saved
    PROVE  Unneeded(d, i)' \/ HasTask(d)'
<1> DEFINE c == worker[w].chat
           a == worker[w].at
           n == Len(chat[c].saved) + 1
<1>1. /\ c \in DOMAIN chat /\ DOMAIN chat' = DOMAIN chat /\ Added(c, worker[w].count + 1, w)
      /\ \A x \in DOMAIN chat : x # c => chat'[x] = chat[x]
    BY SaveIntoIs
<1>2. worker \in [Worker -> WorkerState] /\ worker[w] \in WorkerState /\ a \in Nat
    BY TypeFacts
<1>3. worker'[w].stage = "queue" /\ worker'[w].chat = c /\ worker'[w].at = a /\ \A v \in Worker : v # w => worker'[v] = worker[v]
    BY <1>2 DEF SaveInto, WorkerState
<1>4. <<c, a>> \in Coming' /\ \A t \in Coming : t \in Coming'
    BY <1>3, SavedComes DEF SaveInto
<1>5. CASE d # c
    <2>1. d \in DOMAIN chat /\ chat'[d] = chat[d] /\ i \in DOMAIN chat[d].saved
        BY <1>1, <1>5
    <2>2. SameBegins(d)
        BY <2>1 DEF SameBegins
    <2>3. QED
        BY <1>4, <2>1, <2>2, StillSettled
<1>6. CASE d = c
    <2>1. /\ d \in DOMAIN chat /\ DOMAIN chat'[d].saved = DOMAIN chat[d].saved \cup {n} /\ n = Len(chat[d].saved) + 1
          /\ chat'[d].saved[n].at = a /\ \A k \in DOMAIN chat[d].saved : chat'[d].saved[k] = chat[d].saved[k]
        BY <1>1, <1>6, MessageTyped DEF Added
    <2>2. Len(chat[d].saved) \in Nat /\ DOMAIN chat[d].saved = 1 .. Len(chat[d].saved)
          /\ \A k \in DOMAIN chat[d].saved : chat[d].saved[k].at \in Nat
        BY <2>1, SavedIs
    <2>3. <<d, a>> \in Coming'
        BY <1>4, <1>6
    <2> HIDE DEF c, a, n
    <2>4. CASE \A k \in DOMAIN chat[d].saved : chat[d].saved[k].at <= a
        <3>1. \A k \in DOMAIN chat'[d].saved : chat'[d].saved[k].at <= a
            BY <1>2, <2>1, <2>4
        <3>2. QED
            BY <2>3, <3>1, LastCovers
    <2>5. ASSUME NEW k \in DOMAIN chat[d].saved, ~(chat[d].saved[k].at <= a) PROVE Unneeded(d, i)' \/ HasTask(d)'
        <3>1. chat[d].saved[k].at > a /\ k \in 1 .. n - 1 /\ chat'[d].saved[k] = chat[d].saved[k]
            BY <1>2, <2>1, <2>2, <2>5
        <3>2. CASE i = n
            BY <2>1, <3>1, <3>2 DEF Unneeded, Overtaken
        <3>3. CASE i \in DOMAIN chat[d].saved /\ chat[d].saved[i].seen
            BY <2>1, <3>3 DEF Unneeded
        <3>4. CASE i \in DOMAIN chat[d].saved /\ Overtaken(d, i)
            <4>1. PICK j \in 1 .. i - 1 : chat[d].saved[j].at > chat[d].saved[i].at
                BY <3>4 DEF Overtaken
            <4>2. j \in DOMAIN chat[d].saved
                BY <2>2, <3>4, <4>1
            <4>3. chat'[d].saved[j].at > chat'[d].saved[i].at
                BY <2>1, <3>4, <4>1, <4>2
            <4>4. QED
                BY <4>1, <4>3 DEF Unneeded, Overtaken
        <3>5. CASE HasTask(d)
            <4>1. PICK t \in Coming : t[1] = d /\ IsLast(t)
                BY <3>5 DEF HasTask
            <4>2. t[2] \in Nat
                BY <4>1, TaskTyped DEF Coming, AboutToEnqueue
            <4>3. \A x \in DOMAIN chat[d].saved : chat[d].saved[x].at <= t[2]
                BY <4>1 DEF IsLast
            <4>4. a <= t[2]
                BY <1>2, <2>2, <3>1, <4>2, <4>3
            <4>5. \A x \in DOMAIN chat'[d].saved : chat'[d].saved[x].at <= t[2]
                BY <2>1, <4>3, <4>4
            <4>6. IsLast(t)'
                BY <4>1, <4>5 DEF IsLast
            <4>7. QED
                BY <1>4, <4>1, <4>6 DEF HasTask
        <3>6. QED
            BY <2>1, <3>2, <3>3, <3>4, <3>5 DEF TasksInv, Unneeded
    <2>6. QED
        BY <2>4, <2>5
<1>7. QED
    BY <1>5, <1>6

LEMMA SaveFirstSettled ==
    ASSUME TypeInv, TasksInv, NEW w \in Worker, SaveFirst(w), NEW d \in DOMAIN chat', NEW i \in DOMAIN chat'[d].saved
    PROVE  Unneeded(d, i)' \/ HasTask(d)'
<1> DEFINE c == Len(chat) + 1
           a == worker[w].at
<1>1. /\ c \notin DOMAIN chat /\ DOMAIN chat' = DOMAIN chat \cup {c} /\ \A x \in DOMAIN chat : chat'[x] = chat[x]
      /\ DOMAIN chat'[c].saved = {1} /\ chat'[c].saved[1] = SavedMessage(w)
    BY SaveFirstIs
<1>2. worker \in [Worker -> WorkerState] /\ worker[w] \in WorkerState /\ a \in Nat
    BY TypeFacts
<1>3. worker'[w].stage = "queue" /\ worker'[w].chat = c /\ worker'[w].at = a /\ \A v \in Worker : v # w => worker'[v] = worker[v]
    BY <1>2 DEF SaveFirst, WorkerState
<1>4. <<c, a>> \in Coming' /\ \A t \in Coming : t \in Coming'
    BY <1>3, SavedComes DEF SaveFirst
<1>5. CASE d # c
    <2>1. d \in DOMAIN chat /\ chat'[d] = chat[d] /\ i \in DOMAIN chat[d].saved
        BY <1>1, <1>5
    <2>2. SameBegins(d)
        BY <2>1 DEF SameBegins
    <2>3. QED
        BY <1>4, <2>1, <2>2, StillSettled
<1>6. CASE d = c
    <2>1. \A k \in DOMAIN chat'[d].saved : chat'[d].saved[k].at <= a
        <3>1. SavedMessage(w).at = a
            BY MessageTyped
        <3>2. DOMAIN chat'[d].saved = {1} /\ chat'[d].saved[1].at = a
            BY <1>1, <1>6, <3>1
        <3>3. a <= a
            BY <1>2
        <3> HIDE DEF a
        <3>4. QED
            BY <3>2, <3>3
    <2>2. <<d, a>> \in Coming'
        BY <1>4, <1>6
    <2> HIDE DEF a, c
    <2>3. QED
        BY <2>1, <2>2, LastCovers
<1>7. QED
    BY <1>5, <1>6

\* A task takes the place of the tasks before it only when its message is the last one.
LEMMA EnqueueSettled ==
    ASSUME TypeInv, TasksInv, NEW w \in Worker, Enqueue(w), NEW d \in DOMAIN chat', NEW i \in DOMAIN chat'[d].saved
    PROVE  Unneeded(d, i)' \/ HasTask(d)'
<1> DEFINE c == worker[w].chat
           a == worker[w].at
           s == <<c, a>>
<1>1. chat' = chat /\ orphan' = orphan /\ task' = WithTask(s) /\ worker[w].stage = "queue"
    BY DEF Enqueue, GoesOn
<1>2. worker \in [Worker -> WorkerState]
    BY TypeFacts
<1>3. \A v \in Worker : v # w => worker'[v] = worker[v]
    BY <1>2 DEF Enqueue, GoesOn
<1>4. s[1] = c /\ s[2] = a
    OBVIOUS
<1>5. d \in DOMAIN chat /\ i \in DOMAIN chat[d].saved /\ SameBegins(d)
    BY <1>1 DEF SameBegins
<1>6. ASSUME NEW t \in Coming, t[1] = d, IsLast(t) PROVE HasTask(d)' \/ t \in Coming'
    <2>1. CASE t = s
        BY <1>1, <1>6, <2>1 DEF WithTask, Coming
    <2>2. CASE t \in orphan
        BY <1>1, <2>2 DEF Coming
    <2>3. CASE t # s /\ t \in AboutToEnqueue
        <3>1. PICK v \in Worker : worker[v].stage = "queue" /\ t = <<worker[v].chat, worker[v].at>>
            BY <2>3 DEF AboutToEnqueue
        <3>2. worker'[v] = worker[v]
            BY <1>3, <2>3, <3>1
        <3>3. QED
            BY <3>1, <3>2 DEF Coming, AboutToEnqueue
    <2>4. CASE t \in task
        <3>1. CASE d = c /\ IsLast(s)
            <4> HIDE DEF s, c, a
            <4>1. s \in Coming' /\ d = s[1] /\ IsLast(s)
                BY <1>1, <1>4, <3>1 DEF WithTask, Coming
            <4>2. QED
                BY <1>1, <4>1, StillLast
        <3>2. CASE ~(d = c /\ IsLast(s))
            <4> HIDE DEF s, c, a
            <4>1. t \in task'
                BY <1>1, <1>4, <1>6, <2>4, <3>2 DEF WithTask
            <4>2. QED
                BY <4>1 DEF Coming
        <3>3. QED
            BY <3>1, <3>2
    <2>5. QED
        BY <1>6, <2>1, <2>2, <2>3, <2>4 DEF Coming
<1>7. QED
    BY <1>5, <1>6, StillSettled

\* The agent answers all messages of the conversation, or there are none left, or the task was not for the last message.
LEMMA RunTaskSettled ==
    ASSUME TypeInv, TasksInv, NEW s \in task, RunTask(s), NEW d \in DOMAIN chat', NEW i \in DOMAIN chat'[d].saved
    PROVE  Unneeded(d, i)' \/ HasTask(d)'
<1>1. task' = task \ {s} /\ orphan' = orphan /\ worker' = worker
    BY DEF RunTask
<1>2. AboutToEnqueue' = AboutToEnqueue
    BY <1>1 DEF AboutToEnqueue
<1>3. \A t \in Coming : t # s => t \in Coming'
    BY <1>1, <1>2 DEF Coming
<1>4. CASE s[1] \in DOMAIN conversation /\ IsLast(s)
    <2>1. Attended(s[1])
        BY <1>4, RunTaskIs
    <2>2. d \in DOMAIN chat /\ SameBegins(d) /\ i \in DOMAIN chat[d].saved /\ (d # s[1] \/ chat'[d].saved[i].seen)
        <3>1. d \in DOMAIN chat /\ DOMAIN chat'[d].saved = DOMAIN chat[d].saved
            BY <2>1 DEF Attended
        <3>2. CASE d = s[1]
            BY <2>1, <3>1, <3>2 DEF Attended, SameBegins
        <3>3. CASE d # s[1]
            BY <2>1, <3>1, <3>3 DEF Attended, SameBegins
        <3>4. QED
            BY <3>1, <3>2, <3>3
    <2>3. CASE chat'[d].saved[i].seen
        BY <2>3 DEF Unneeded
    <2>4. CASE d # s[1]
        BY <1>3, <2>2, <2>4, StillSettled
    <2>5. QED
        BY <2>2, <2>3, <2>4
<1>5. CASE ~ (s[1] \in DOMAIN conversation /\ IsLast(s))
    <2>1. UNCHANGED <<chat, conversation>>
        BY <1>5 DEF RunTask
    <2>2. d \in DOMAIN chat /\ i \in DOMAIN chat[d].saved /\ SameBegins(d)
        BY <2>1 DEF SameBegins
    <2>3. d \in DOMAIN conversation
        <3>1. d \notin DOMAIN conversation => chat[d].saved = <<>>
            BY <2>2 DEF TypeInv, Rooted
        <3>2. DOMAIN <<>> = {}
            BY EmptySeq, SeqIs
        <3>3. QED
            BY <2>2, <3>1, <3>2
    <2>4. \A t \in Coming : t[1] = d /\ IsLast(t) => t \in Coming'
        BY <1>3, <1>5, <2>3
    <2>5. QED
        BY <2>2, <2>4, StillSettled
<1>6. QED
    BY <1>4, <1>5

\* Nothing is left in a conversation that is deleted, and the others are as they were.
LEMMA DeleteSettled ==
    ASSUME TypeInv, TasksInv, NEW C, chat' = Emptied(C), \A t \in Coming : t \in Coming',
           NEW d \in DOMAIN chat', NEW i \in DOMAIN chat'[d].saved
    PROVE  Unneeded(d, i)' \/ HasTask(d)'
<1>1. d \in DOMAIN chat /\ d \notin C /\ chat'[d] = chat[d]
    BY EmptiedIs
<1>2. SameBegins(d) /\ i \in DOMAIN chat[d].saved
    BY <1>1 DEF SameBegins
<1>3. QED
    BY <1>1, <1>2, StillSettled

LEMMA StepTasksInv == TypeInv /\ TasksInv /\ [InboxNext]_inboxVars => TasksInv'
<1> SUFFICES ASSUME TypeInv, TasksInv, [InboxNext]_inboxVars, NEW d \in DOMAIN chat', NEW i \in DOMAIN chat'[d].saved
             PROVE  Unneeded(d, i)' \/ HasTask(d)'
    BY DEF TasksInv
<1>1. CASE \E w \in Worker : SaveInto(w) \/ SaveFirst(w) \/ Enqueue(w)
    BY <1>1, SaveIntoSettled, SaveFirstSettled, EnqueueSettled
<1>2. CASE \E s \in task : RunTask(s)
    BY <1>2, RunTaskSettled
<1>3. CASE ~(\E w \in Worker : SaveInto(w) \/ SaveFirst(w) \/ Enqueue(w)) /\ ~(\E s \in task : RunTask(s))
    <2>1. \A t \in Coming : t \in Coming'
        BY <1>3, ComingStays
    <2>2. CASE UNCHANGED chat
        <3>1. SameBegins(d) /\ d \in DOMAIN chat /\ i \in DOMAIN chat[d].saved
            BY <2>2 DEF SameBegins
        <3>2. QED
            BY <2>1, <3>1, StillSettled
    <2>3. CASE WriteRead /\ ~UNCHANGED chat
        <3>1. reader.chat \in DOMAIN conversation
            BY <2>3 DEF WriteRead
        <3>2. MarkedRead(reader.chat)
            BY <2>3, <3>1, WriteReadIs
        <3>3. d \in DOMAIN chat /\ SameBegins(d) /\ i \in DOMAIN chat[d].saved
            <4>1. CASE d = reader.chat
                BY <3>2, <4>1 DEF MarkedRead, SameBegins
            <4>2. CASE d # reader.chat
                BY <3>2, <4>2 DEF MarkedRead, SameBegins
            <4>3. QED
                BY <4>1, <4>2
        <3>4. QED
            BY <2>1, <3>3, StillSettled
    <2>4. ASSUME NEW c \in DOMAIN conversation, DeleteConversation(c) PROVE Unneeded(d, i)' \/ HasTask(d)'
        BY <2>1, <2>4, DeleteSettled DEF DeleteConversation
    <2>5. CASE DeleteCustomer
        BY <2>1, <2>5, DeleteSettled DEF DeleteCustomer
    <2>6. QED
        BY <1>3, <2>2, <2>3, <2>4, <2>5, WritingSteps
<1>4. QED
    BY <1>1, <1>2, <1>3

\* Every message is answered, or a task of the last message of its conversation is in the queue or about to be, but for
\* messages that were committed after one that began later and for last messages whose task was lost with its request or
\* refused by the broker.
THEOREM UnansweredOvertaken == InboxSpec => []UnansweredWasOvertaken
<1>1. InboxInit => TypeInv /\ TasksInv
    <2>1. DOMAIN <<>> = {}
        BY EmptySeq, SeqIs
    <2>2. QED
        BY <2>1, InitTypeInv DEF InboxInit, TasksInv
<1>2. TypeInv /\ TasksInv /\ [InboxNext]_inboxVars => (TypeInv /\ TasksInv)'
    BY StepTypeInv, StepTasksInv
<1>3. TasksInv => UnansweredWasOvertaken
    BY DEF TasksInv, Unneeded, HasTask, Coming, UnansweredWasOvertaken
<1>4. QED
    BY <1>1, <1>2, <1>3, PTL DEF InboxSpec
=============================================================================

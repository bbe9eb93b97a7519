----------------------------- MODULE Responder ------------------------------
(***************************************************************************)
(* The AI agent's replies to one conversation.                             *)
(*                                                                         *)
(* Every incoming message is saved by the webhook and starts a Celery task *)
(* of its own (AgentService.handle_incoming_message).  The tasks run side  *)
(* by side in several workers and meet in three places: the Redis lock of  *)
(* the conversation, the answered_upto mark in Redis, and the database.    *)
(* Staff may start the agent by hand as well; such a run takes no lock.    *)
(* A step of this specification is what a task does between two points at  *)
(* which another task, the customer or the staff can be noticed.           *)
(*                                                                         *)
(* Messages are numbered in the order of created_at.  The text of messages *)
(* and replies, and what the tools of the agent do to orders, are left out *)
(* (see Orders); of a tool call only its commit and its failure are kept.  *)
(***************************************************************************)
EXTENDS Integers, FiniteSets

CONSTANTS
    MaxMessages,    \* bound: messages of the customer
    MaxForced,      \* bound: runs started by hand with force=true
    Trouble         \* what may go wrong

Message == 1 .. MaxMessages
Forced == (MaxMessages + 1) .. (MaxMessages + MaxForced)
Task == 1 .. (MaxMessages + MaxForced)    \* the task of message m is m
Free == 0

Troubles == {"slow",       \* the agent outlasts the lock's TTL or the others' patience
             "crash",      \* a process dies
             "llm",        \* the model or a tool raises
             "channel",    \* the messenger refuses or cannot be reached
             "redis",      \* Redis cannot be reached
             "broker"}     \* the queue cannot be reached

ASSUME ResponderAssumption ==
    /\ MaxMessages \in Nat
    /\ MaxForced \in Nat
    /\ Trouble \subseteq Troubles

VARIABLES
    arrived,     \* the incoming messages 1 .. arrived are saved
    paused,      \* ai_paused_until is in the future, or ai_enabled is off
    lock,        \* the task whose token is in the Redis lock
    mark,        \* answered_upto in Redis
    pc,          \* where each task is
    outcome,     \* AgentOutcome of each task
    upto,        \* the last incoming message when the task began to answer
    seen,        \* the last incoming message in the context of its reply
    unsaved,     \* its uncommitted write of ai_paused_until, which keeps the row locked
    delivery,    \* delivery_status of its reply
    covered,     \* history: the last message that a saved reply has seen
    frontier     \* history: the last message that a saved reply is to be marked with

vars == <<arrived, paused, lock, mark, pc, outcome, upto, seen, unsaved, delivery, covered, frontier>>
answer == <<upto, seen, delivery, covered, frontier>>

Point == {"idle", "waiting", "locked", "latest", "context", "thinking", "ready", "saved", "sent",
          "leaving", "done", "dead"}
Inside == {"locked", "latest", "context", "thinking", "ready", "saved", "sent", "leaving"}
Outcome == {"none", "lost", "busy", "superseded", "already_answered", "paused", "error", "replied"}

\* Nothing is ahead of the messages that have arrived.
TypeOK ==
    /\ arrived \in 0 .. MaxMessages
    /\ paused \in BOOLEAN
    /\ lock \in Message \cup {Free}
    /\ mark \in 0 .. arrived
    /\ pc \in [Task -> Point]
    /\ outcome \in [Task -> Outcome]
    /\ upto \in [Task -> 0 .. arrived]
    /\ seen \in [Task -> 0 .. arrived]
    /\ unsaved \in [Task -> {"nothing", "wake", "pause"}]
    /\ delivery \in [Task -> {"none", "pending", "sent", "failed"}]
    /\ covered \in 0 .. arrived
    /\ frontier \in 0 .. arrived

Higher(a, b) == IF a > b THEN a ELSE b

\* Nobody but t holds an uncommitted write of the conversation's row.
RowFree(t) == \A s \in Task \ {t} : unsaved[s] = "nothing"

Move(t, p) == pc' = [pc EXCEPT ![t] = p]

\* Task t returns, through the release of the lock; its session rolls back what is not committed.
Return(t, why) ==
    /\ Move(t, "leaving")
    /\ outcome' = [outcome EXCEPT ![t] = why]
    /\ unsaved' = [unsaved EXCEPT ![t] = "nothing"]

Init ==
    /\ arrived = 0
    /\ paused = FALSE
    /\ lock = Free
    /\ mark = 0
    /\ pc = [t \in Task |-> "idle"]
    /\ outcome = [t \in Task |-> "none"]
    /\ upto = [t \in Task |-> 0]
    /\ seen = [t \in Task |-> 0]
    /\ unsaved = [t \in Task |-> "nothing"]
    /\ delivery = [t \in Task |-> "none"]
    /\ covered = 0
    /\ frontier = 0

-----------------------------------------------------------------------------
(* The customer, the staff and the clock.                                  *)

\* The webhook saves the message, then enqueues its task, best effort.
Arrive(m) ==
    /\ m = arrived + 1
    /\ RowFree(Free)
    /\ arrived' = m
    /\ \/ Move(m, "waiting") /\ UNCHANGED outcome
       \/ /\ "broker" \in Trouble
          /\ Move(m, "done")
          /\ outcome' = [outcome EXCEPT ![m] = "lost"]
    /\ UNCHANGED <<paused, lock, mark, unsaved, answer>>

\* An operator writes, an approval hands over, or staff pause the agent.
Pause ==
    /\ ~paused
    /\ RowFree(Free)
    /\ paused' = TRUE
    /\ UNCHANGED <<arrived, lock, mark, pc, outcome, unsaved, answer>>

\* The pause runs out, or staff end it.
Resume ==
    /\ paused
    /\ paused' = FALSE
    /\ UNCHANGED <<arrived, lock, mark, pc, outcome, unsaved, answer>>

\* The TTL of the lock ends: after a death, after a release that failed, or too soon.
Expire ==
    /\ lock # Free
    /\ pc[lock] \in {"dead", "done"} \/ "slow" \in Trouble
    /\ lock' = Free
    /\ UNCHANGED <<arrived, paused, mark, pc, outcome, unsaved, answer>>

-----------------------------------------------------------------------------
(* The way of a task to its answer.                                        *)

\* Mutant: a plain SET instead of SET NX.
AcquireAnyway(t) ==
    /\ pc[t] = "waiting"
    /\ lock' = t
    /\ Move(t, "locked")
    /\ UNCHANGED <<arrived, paused, mark, outcome, unsaved, answer>>

\* After the burst wait SET NX succeeds; without Redis the task goes on unlocked.
Acquire(t) ==
    /\ pc[t] = "waiting"
    /\ \/ lock = Free /\ lock' = t
       \/ "redis" \in Trouble /\ UNCHANGED lock
    /\ Move(t, "locked")
    /\ UNCHANGED <<arrived, paused, mark, outcome, unsaved, answer>>

\* The holder outlasts ai_lock_wait_seconds: the TTL of a dead one is longer than the wait.
GiveUp(t) ==
    /\ pc[t] = "waiting"
    /\ lock # Free
    /\ pc[lock] \in {"dead", "done"} \/ "slow" \in Trouble
    /\ Move(t, "done")
    /\ outcome' = [outcome EXCEPT ![t] = "busy"]
    /\ UNCHANGED <<arrived, paused, lock, mark, unsaved, answer>>

\* If a newer message is there, its task is to answer.
CheckLatest(t) ==
    /\ pc[t] = "locked"
    /\ \/ arrived = t /\ Move(t, "latest") /\ UNCHANGED <<outcome, unsaved>>
       \/ arrived # t /\ Return(t, "superseded")
    /\ UNCHANGED <<arrived, paused, lock, mark, answer>>

\* A reply that came meanwhile covers the message.
AlreadyAnswered(t) ==
    /\ pc[t] = "latest"
    /\ mark >= t
    /\ Return(t, "already_answered")
    /\ UNCHANGED <<arrived, paused, lock, mark, answer>>

Unanswered(t) == mark < t \/ "redis" \in Trouble

SkipPaused(t) ==
    /\ pc[t] = "latest"
    /\ Unanswered(t)
    /\ paused
    /\ Return(t, "paused")
    /\ UNCHANGED <<arrived, paused, lock, mark, answer>>

\* The agent looks at the pause once, here, and notes the last message it will have answered.
Begin(t) ==
    /\ pc[t] = "latest"
    /\ Unanswered(t)
    /\ ~paused
    /\ upto' = [upto EXCEPT ![t] = arrived]
    /\ Move(t, "context")
    /\ UNCHANGED <<arrived, paused, lock, mark, outcome, unsaved, seen, delivery, covered, frontier>>

\* POST /ai/conversations/{id}/respond?force=true ends the pause, takes no lock and looks at no
\* mark.  The end of the pause, or of one that has run out already, is flushed by the next query
\* and committed by the next commit.
ForceRespond(f) ==
    /\ pc[f] = "idle"
    /\ \/ RowFree(f) /\ unsaved' = [unsaved EXCEPT ![f] = "wake"]
       \/ ~paused /\ UNCHANGED unsaved
    /\ upto' = [upto EXCEPT ![f] = arrived]
    /\ Move(f, "context")
    /\ UNCHANGED <<arrived, paused, lock, mark, outcome, seen, delivery, covered, frontier>>

-----------------------------------------------------------------------------
(* The answer.                                                             *)

\* What a commit of t leaves of the pause.
Committed(t) == IF unsaved[t] = "nothing" THEN paused ELSE unsaved[t] = "pause"

\* The last messages are read from the database.
BuildContext(t) ==
    /\ pc[t] = "context"
    /\ seen' = [seen EXCEPT ![t] = arrived]
    /\ Move(t, "thinking")
    /\ UNCHANGED <<arrived, paused, lock, mark, outcome, unsaved, upto, delivery, covered, frontier>>

\* The tool transfer_to_operator asks for a pause; the agent goes on.
HandOff(t) ==
    /\ pc[t] = "thinking"
    /\ RowFree(t)
    /\ unsaved' = [unsaved EXCEPT ![t] = "pause"]
    /\ UNCHANGED <<arrived, paused, lock, mark, pc, outcome, answer>>

\* Another tool commits what the agent has not, or raises and rolls it back.
UseTool(t) ==
    /\ pc[t] = "thinking"
    /\ unsaved[t] # "nothing"
    /\ \/ paused' = Committed(t)
       \/ "llm" \in Trouble /\ UNCHANGED paused
    /\ unsaved' = [unsaved EXCEPT ![t] = "nothing"]
    /\ UNCHANGED <<arrived, lock, mark, pc, outcome, answer>>

\* The model gives a reply, or none within ai_max_tool_iterations: then the fallback text is
\* sent and a pause follows.  Now the agent waits, to seem human.
Think(t) ==
    /\ pc[t] = "thinking"
    /\ \/ UNCHANGED unsaved
       \/ RowFree(t) /\ unsaved' = [unsaved EXCEPT ![t] = "pause"]
    /\ Move(t, "ready")
    /\ UNCHANGED <<arrived, paused, lock, mark, outcome, answer>>

\* Something raises before the reply is saved: an LLM error is caught by the agent; after
\* a tool's rollback the conversation of the session can no longer be read.
Fail(t) ==
    /\ "llm" \in Trouble
    /\ pc[t] \in {"context", "thinking", "ready"}
    /\ Return(t, "error")
    /\ UNCHANGED <<arrived, paused, lock, mark, answer>>

\* The reply is saved as pending before it is sent.
Save(t) ==
    /\ pc[t] = "ready"
    /\ RowFree(t)
    /\ paused' = Committed(t)
    /\ unsaved' = [unsaved EXCEPT ![t] = "nothing"]
    /\ delivery' = [delivery EXCEPT ![t] = "pending"]
    /\ covered' = Higher(covered, seen[t])
    /\ frontier' = Higher(frontier, upto[t])
    /\ Move(t, "saved")
    /\ UNCHANGED <<arrived, lock, mark, outcome, upto, seen>>

\* Only ChannelError is caught.  After any other error the reply stays pending.
Send(t) ==
    /\ pc[t] = "saved"
    /\ \/ /\ \/ delivery' = [delivery EXCEPT ![t] = "sent"]
             \/ "channel" \in Trouble /\ delivery' = [delivery EXCEPT ![t] = "failed"]
          /\ Move(t, "sent")
          /\ UNCHANGED <<outcome, unsaved>>
       \/ /\ "channel" \in Trouble
          /\ Return(t, "error")
          /\ UNCHANGED delivery
    /\ UNCHANGED <<arrived, paused, lock, mark, upto, seen, covered, frontier>>

\* Mutants: the mark is the task's own message, whatever arrived before it began; every message
\* there is by now; one too many.
MarkOwn(t) ==
    /\ pc[t] = "sent"
    /\ mark' = t
    /\ Return(t, "replied")
    /\ UNCHANGED <<arrived, paused, lock, answer>>

MarkAll(t) ==
    /\ pc[t] = "sent"
    /\ mark' = arrived
    /\ Return(t, "replied")
    /\ UNCHANGED <<arrived, paused, lock, answer>>

MarkOneMore(t) ==
    /\ pc[t] = "sent"
    /\ mark' = upto[t] + 1
    /\ Return(t, "replied")
    /\ UNCHANGED <<arrived, paused, lock, answer>>

\* mark_answered: a plain SET, which may fail.
MarkAnswered(t) ==
    /\ pc[t] = "sent"
    /\ \/ mark' = IF upto[t] = 0 THEN mark ELSE upto[t]
       \/ "redis" \in Trouble /\ UNCHANGED mark
    /\ Return(t, "replied")
    /\ UNCHANGED <<arrived, paused, lock, answer>>

\* Mutants: a plain DEL; a release on the path of the reply only.
ReleaseAny(t) ==
    /\ pc[t] = "leaving"
    /\ lock' = Free
    /\ Move(t, "done")
    /\ UNCHANGED <<arrived, paused, mark, outcome, unsaved, answer>>

ReleaseAfterReply(t) ==
    /\ pc[t] = "leaving"
    /\ lock' = IF lock = t /\ outcome[t] = "replied" THEN Free ELSE lock
    /\ Move(t, "done")
    /\ UNCHANGED <<arrived, paused, mark, outcome, unsaved, answer>>

\* The lock is deleted by its owner only, if Redis answers.
Release(t) ==
    /\ pc[t] = "leaving"
    /\ \/ lock' = IF lock = t THEN Free ELSE lock
       \/ "redis" \in Trouble /\ UNCHANGED lock
    /\ Move(t, "done")
    /\ UNCHANGED <<arrived, paused, mark, outcome, unsaved, answer>>

\* Celery acknowledges early: the task of a dead worker is not run again.  A run started by hand
\* holds no lock, so its death differs in nothing from an error.
Crash(t) ==
    /\ "crash" \in Trouble
    /\ pc[t] \in {"waiting"} \cup Inside
    /\ Move(t, "dead")
    /\ unsaved' = [unsaved EXCEPT ![t] = "nothing"]
    /\ UNCHANGED <<arrived, paused, lock, mark, outcome, answer>>

-----------------------------------------------------------------------------
Answer(t) ==
    \/ BuildContext(t) \/ Think(t) \/ Save(t) \/ Send(t) \/ MarkAnswered(t) \/ Release(t)
    \/ HandOff(t) \/ UseTool(t) \/ Fail(t)

Handle(t) ==
    Acquire(t) \/ GiveUp(t) \/ CheckLatest(t) \/ AlreadyAnswered(t) \/ SkipPaused(t) \/ Begin(t)

Next ==
    \/ Pause \/ Resume \/ Expire
    \/ \E m \in Message : Arrive(m) \/ Handle(m) \/ Crash(m)
    \/ \E f \in Forced : ForceRespond(f)
    \/ \E t \in Task : Answer(t)

Spec == Init /\ [][Next]_vars

\* A worker that runs a task goes on with it, and the tool loop ends (ai_max_tool_iterations).
FairSpec == Spec /\ \A t \in Task : WF_vars(Handle(t) \/ Answer(t)) /\ WF_vars(Think(t))

-----------------------------------------------------------------------------
(* Properties.                                                             *)

\* Layer 2 of handle_incoming_message: one task at a time generates a reply.
OneAtATime == \A s, t \in Message : pc[s] \in Inside /\ pc[t] \in Inside => s = t

\* The mark never says that a message is answered which no saved reply has seen, whatever fails:
\* its task would keep silent (AlreadyAnswered) and the customer would wait for ever.
MarkIsEarned == mark <= covered

\* A task does not take the lock away from another one (the Lua script of redis_lock).
OnlyOwnRelease ==
    [][\A t \in Task : pc'[t] # pc[t] /\ lock \notin {Free, t} => lock' = lock]_vars

Log == INSTANCE ReplyLog WITH replies <- Cardinality({t \in Task : delivery[t] # "none"})

\* Layer 3: each saved reply is for a message behind all those that earlier replies were marked with.
ImplementsReplyLog == Log!Spec

\* The burst wait, supersession and the mark drop no message between them: every message is seen by
\* a saved reply, or a task that has it in view finds the agent paused.
EveryMessageSettled ==
    \A m \in Message :
        arrived >= m ~> (covered >= m \/ \E n \in m .. MaxMessages : outcome[n] = "paused")

\* A message in the context of a reply is not answered again: each reply has seen a new message
\* (what layer 3 of handle_incoming_message says of the messages a reply covers).
NoSecondAnswer ==
    [][\A t \in Message : delivery[t] # delivery'[t] /\ delivery[t] = "none" => seen[t] > covered]_vars

\* While an operator has the conversation, Agent.respond saves no reply.
SilentWhilePaused ==
    [][\A t \in Message : delivery[t] # delivery'[t] /\ delivery[t] = "none" => ~paused]_vars
=============================================================================

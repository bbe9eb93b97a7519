-------------------------- MODULE ResponderProofs ---------------------------
(***************************************************************************)
(* What Responder promises for any number of messages and of runs started  *)
(* by hand.                                                                *)
(***************************************************************************)
EXTENDS Responder, FiniteSetTheorems, TLAPS

LEMMA Tasks ==
    /\ Message \subseteq Task
    /\ Forced \subseteq Task
    /\ Message \cap Forced = {}
    /\ Task \subseteq Nat \ {Free}
BY ResponderAssumption DEF Message, Forced, Task, Free

-----------------------------------------------------------------------------
(* Type correctness.                                                       *)

\* Every way out of a task.
LEMMA ReturnType ==
    ASSUME TypeOK, NEW t \in Task, NEW why \in Outcome, Return(t, why)
    PROVE  /\ pc' \in [Task -> Point]
           /\ outcome' \in [Task -> Outcome]
           /\ unsaved' \in [Task -> {"nothing", "wake", "pause"}]
BY DEF TypeOK, Return, Move, Point

LEMMA InitTypeOK == Init => TypeOK
<1> SUFFICES ASSUME Init PROVE TypeOK
    OBVIOUS
<1>1. arrived = 0 /\ 0 \in 0 .. MaxMessages /\ 0 \in 0 .. arrived
    BY ResponderAssumption DEF Init
<1>2. /\ pc \in [Task -> Point]
      /\ outcome \in [Task -> Outcome]
      /\ unsaved \in [Task -> {"nothing", "wake", "pause"}]
      /\ delivery \in [Task -> {"none", "pending", "sent", "failed"}]
    BY DEF Init, Point, Outcome
<1>3. upto \in [Task -> 0 .. arrived] /\ seen \in [Task -> 0 .. arrived]
    BY <1>1 DEF Init
<1>4. QED
    BY <1>1, <1>2, <1>3 DEF Init, TypeOK

LEMMA StepTypeOK == TypeOK /\ [Next]_vars => TypeOK'
<1> SUFFICES ASSUME TypeOK, [Next]_vars PROVE TypeOK'
    OBVIOUS
<1> USE ResponderAssumption, Tasks
<1>1. ASSUME NEW m \in Message, Arrive(m)
      PROVE  TypeOK'
    <2>1. arrived' = arrived + 1 /\ arrived' \in 0 .. MaxMessages /\ 0 .. arrived \subseteq 0 .. arrived'
        BY <1>1 DEF Arrive, Message, TypeOK
    <2>2. pc' \in [Task -> Point] /\ outcome' \in [Task -> Outcome]
        BY <1>1 DEF Arrive, Move, TypeOK, Point, Outcome
    <2>3. upto' \in [Task -> 0 .. arrived'] /\ seen' \in [Task -> 0 .. arrived']
        BY <1>1, <2>1 DEF Arrive, TypeOK, answer
    <2>4. QED
        BY <1>1, <2>1, <2>2, <2>3 DEF Arrive, TypeOK, answer
<1>2. ASSUME Pause \/ Resume \/ Expire
      PROVE  TypeOK'
    BY <1>2 DEF Pause, Resume, Expire, TypeOK, answer
<1>3. ASSUME NEW m \in Message, Acquire(m) \/ GiveUp(m)
      PROVE  TypeOK'
    BY <1>3 DEF Acquire, GiveUp, Move, TypeOK, Point, Outcome, answer
<1>4. ASSUME NEW m \in Message, CheckLatest(m)
      PROVE  TypeOK'
    <2>1. CASE Move(m, "latest") /\ UNCHANGED <<outcome, unsaved>>
        BY <1>4, <2>1 DEF CheckLatest, Move, TypeOK, Point, answer
    <2>2. CASE Return(m, "superseded")
        BY <1>4, <2>2, ReturnType DEF CheckLatest, TypeOK, Outcome, answer
    <2>3. QED
        BY <1>4, <2>1, <2>2 DEF CheckLatest
<1>5. ASSUME NEW m \in Message, AlreadyAnswered(m) \/ SkipPaused(m)
      PROVE  TypeOK'
    <2>1. PICK why \in Outcome : Return(m, why)
        BY <1>5 DEF AlreadyAnswered, SkipPaused, Outcome
    <2>2. QED
        BY <1>5, <2>1, ReturnType DEF AlreadyAnswered, SkipPaused, TypeOK, answer
<1>6. ASSUME NEW m \in Message, Begin(m)
      PROVE  TypeOK'
    BY <1>6 DEF Begin, Move, TypeOK, Point
<1>7. ASSUME NEW f \in Forced, ForceRespond(f)
      PROVE  TypeOK'
    BY <1>7 DEF ForceRespond, Move, TypeOK, Point
<1>8. ASSUME NEW t \in Task, BuildContext(t) \/ HandOff(t) \/ Think(t)
      PROVE  TypeOK'
    BY <1>8 DEF BuildContext, HandOff, Think, Move, TypeOK, Point, answer
<1>9. ASSUME NEW t \in Task, UseTool(t)
      PROVE  TypeOK'
    BY <1>9 DEF UseTool, Committed, TypeOK, answer
<1>10. ASSUME NEW t \in Task, Fail(t)
       PROVE  TypeOK'
    BY <1>10, ReturnType DEF Fail, TypeOK, Outcome, answer
<1>11. ASSUME NEW t \in Task, Save(t)
       PROVE  TypeOK'
    <2>1. covered' \in 0 .. arrived /\ frontier' \in 0 .. arrived
        BY <1>11 DEF Save, Higher, TypeOK
    <2>2. paused' \in BOOLEAN
        BY <1>11 DEF Save, Committed, TypeOK
    <2>3. QED
        BY <1>11, <2>1, <2>2 DEF Save, Move, TypeOK, Point
<1>12. ASSUME NEW t \in Task, Send(t)
       PROVE  TypeOK'
    <2>1. CASE Move(t, "sent") /\ UNCHANGED <<outcome, unsaved>>
        BY <1>12, <2>1 DEF Send, Move, Return, TypeOK, Point
    <2>2. CASE Return(t, "error") /\ UNCHANGED delivery
        BY <1>12, <2>2, ReturnType DEF Send, TypeOK, Outcome
    <2>3. QED
        BY <1>12, <2>1, <2>2 DEF Send
<1>13. ASSUME NEW t \in Task, MarkAnswered(t)
       PROVE  TypeOK'
    <2>1. mark' \in 0 .. arrived
        BY <1>13 DEF MarkAnswered, TypeOK
    <2>2. QED
        BY <1>13, <2>1, ReturnType DEF MarkAnswered, TypeOK, Outcome, answer
<1>14. ASSUME NEW t \in Task, Release(t)
       PROVE  TypeOK'
    BY <1>14 DEF Release, Move, TypeOK, Point, answer
<1>15. ASSUME NEW t \in Task, Crash(t)
       PROVE  TypeOK'
    BY <1>15 DEF Crash, Move, TypeOK, Point, answer
<1>16. ASSUME UNCHANGED vars
       PROVE  TypeOK'
    BY <1>16 DEF vars, TypeOK
<1>17. QED
    BY <1>1, <1>2, <1>3, <1>4, <1>5, <1>6, <1>7, <1>8, <1>9, <1>10, <1>11, <1>12, <1>13, <1>14,
       <1>15, <1>16 DEF Next, Handle, Answer

\* Every variable keeps its type, and no task is ahead of the messages that have arrived.
THEOREM TypeCorrect == Spec => []TypeOK
BY InitTypeOK, StepTypeOK, PTL DEF Spec

-----------------------------------------------------------------------------
(* The mark, whatever goes wrong.                                          *)

\* A reply has seen what it will be marked with, and a saved reply is covered.
Earned ==
    /\ MarkIsEarned
    /\ \A t \in Task :
        /\ pc[t] \in {"thinking", "ready", "saved", "sent"} => upto[t] <= seen[t]
        /\ pc[t] \in {"saved", "sent"} => seen[t] <= covered

LEMMA InitEarned == Init => Earned
BY DEF Init, Earned, MarkIsEarned

LEMMA StepEarned == TypeOK /\ Earned /\ [Next]_vars => Earned'
<1> SUFFICES ASSUME TypeOK, Earned, [Next]_vars PROVE Earned'
    OBVIOUS
<1> USE Tasks DEF MarkIsEarned, Move, Return
<1>1. ASSUME NEW m \in Message, Arrive(m)
      PROVE  Earned'
    BY <1>1 DEF Arrive, Earned, TypeOK, answer
<1>2. ASSUME Pause \/ Resume \/ Expire
      PROVE  Earned'
    BY <1>2 DEF Pause, Resume, Expire, Earned, answer
<1>3. ASSUME NEW m \in Message, Handle(m)
      PROVE  Earned'
    BY <1>3 DEF Handle, Acquire, GiveUp, CheckLatest, AlreadyAnswered, SkipPaused, Begin, Earned,
                TypeOK, answer
<1>4. ASSUME NEW f \in Forced, ForceRespond(f)
      PROVE  Earned'
    BY <1>4 DEF ForceRespond, Earned, TypeOK
<1>5. ASSUME NEW t \in Task, BuildContext(t)
      PROVE  Earned'
    BY <1>5 DEF BuildContext, Earned, TypeOK
<1>6. ASSUME NEW t \in Task, HandOff(t) \/ UseTool(t) \/ Think(t) \/ Fail(t) \/ Release(t) \/ Crash(t)
      PROVE  Earned'
    BY <1>6 DEF Think, HandOff, UseTool, Fail, Release, Crash, Earned, TypeOK, answer
<1>7. ASSUME NEW t \in Task, Save(t)
      PROVE  Earned'
    <2>1. covered' \in Int /\ covered <= covered' /\ seen[t] <= covered'
        BY <1>7 DEF Save, Higher, TypeOK
    <2>2. MarkIsEarned'
        BY <1>7, <2>1 DEF Save, Earned, TypeOK
    <2>3. ASSUME NEW s \in Task
          PROVE  /\ pc'[s] \in {"thinking", "ready", "saved", "sent"} => upto'[s] <= seen'[s]
                 /\ pc'[s] \in {"saved", "sent"} => seen'[s] <= covered'
        BY <1>7, <2>1 DEF Save, Earned, TypeOK
    <2>4. QED
        BY <2>2, <2>3 DEF Earned
<1>8. ASSUME NEW t \in Task, Send(t)
      PROVE  Earned'
    BY <1>8 DEF Send, Earned, TypeOK
<1>9. ASSUME NEW t \in Task, MarkAnswered(t)
      PROVE  Earned'
    <2>1. upto[t] <= covered
        BY <1>9 DEF MarkAnswered, Earned, TypeOK
    <2>2. QED
        BY <1>9, <2>1 DEF MarkAnswered, Earned, TypeOK, answer
<1>10. ASSUME UNCHANGED vars
       PROVE  Earned'
    BY <1>10 DEF vars, Earned
<1>11. QED
    BY <1>1, <1>2, <1>3, <1>4, <1>5, <1>6, <1>7, <1>8, <1>9, <1>10 DEF Next, Answer

\* Whatever fails, a message that the mark calls answered has been seen by a saved reply.
THEOREM MarkEarned == Spec => []MarkIsEarned
<1>1. Init => TypeOK /\ Earned
    BY InitTypeOK, InitEarned
<1>2. TypeOK /\ Earned /\ [Next]_vars => (TypeOK /\ Earned)'
    BY StepTypeOK, StepEarned
<1>3. TypeOK /\ Earned => MarkIsEarned
    BY DEF Earned
<1>4. QED
    BY <1>1, <1>2, <1>3, PTL DEF Spec

-----------------------------------------------------------------------------
(* The lock.                                                               *)

\* Whatever goes wrong, no step of a task takes the lock away from another task.
THEOREM LockReleasedByOwner == Spec => OnlyOwnRelease
<1>1. TypeOK /\ [Next]_vars =>
          [\A t \in Task : pc'[t] # pc[t] /\ lock \notin {Free, t} => lock' = lock]_vars
    <2> SUFFICES ASSUME TypeOK, Next, NEW t \in Task, pc'[t] # pc[t], lock \notin {Free, t}
                 PROVE  lock' = lock
        BY DEF vars
    <2> USE Tasks
    <2>1. CASE Pause \/ Resume \/ Expire
        BY <2>1 DEF Pause, Resume, Expire
    <2>2. ASSUME NEW m \in Message, Arrive(m) \/ Handle(m)
          PROVE  lock' = lock
        BY <2>2 DEF Arrive, Handle, Acquire, GiveUp, CheckLatest, AlreadyAnswered, SkipPaused, Begin
    <2>3. ASSUME NEW f \in Forced, ForceRespond(f)
          PROVE  lock' = lock
        BY <2>3 DEF ForceRespond
    <2>4. ASSUME NEW s \in Task, Release(s)
          PROVE  lock' = lock
        <3>1. s = t
            BY <2>4 DEF Release, Move, TypeOK
        <3>2. QED
            BY <2>4, <3>1 DEF Release
    <2>5. ASSUME NEW s \in Task, Answer(s) \/ Crash(s), ~Release(s)
          PROVE  lock' = lock
        BY <2>5 DEF Answer, Crash, BuildContext, Think, HandOff, UseTool, Fail, Save, Send, MarkAnswered
    <2>6. QED
        BY <2>1, <2>2, <2>3, <2>4, <2>5 DEF Next
<1>2. QED
    BY <1>1, TypeCorrect, PTL DEF Spec, OnlyOwnRelease

\* While Redis answers, nobody dies and nobody is slow, the lock is with the task inside; the
\* task of a message that has not come is idle.
Quiet == Trouble \cap {"slow", "redis", "crash"} = {}
Locked == \A t \in Message : /\ pc[t] \in Inside <=> lock = t
                             /\ arrived < t => pc[t] = "idle"

LEMMA InitLocked == Init => Locked
BY Tasks DEF Init, Locked, Inside, Free

LEMMA StepLocked == ASSUME Quiet PROVE TypeOK /\ Locked /\ [Next]_vars => Locked'
<1> SUFFICES ASSUME TypeOK, Locked, [Next]_vars PROVE Locked'
    OBVIOUS
<1> USE Quiet, Tasks DEF Quiet, Move, Return, Inside
<1>1. ASSUME Pause \/ Resume \/ UNCHANGED vars
      PROVE  Locked'
    BY <1>1 DEF Pause, Resume, vars, Locked
<1>2. ~Expire
    BY DEF Expire, Locked, TypeOK
<1>3. ASSUME NEW m \in Message, Arrive(m)
      PROVE  Locked'
    <2>1. pc[m] \notin Inside /\ pc'[m] \notin Inside
        BY <1>3 DEF Arrive, TypeOK, Locked
    <2>2. QED
        BY <1>3, <2>1 DEF Arrive, TypeOK, Locked
<1>4. ASSUME NEW m \in Message, Acquire(m)
      PROVE  Locked'
    BY <1>4 DEF Acquire, TypeOK, Locked
<1>5. ASSUME NEW m \in Message, GiveUp(m)
      PROVE  Locked'
    BY <1>5 DEF GiveUp, TypeOK, Locked
<1>6. ASSUME NEW m \in Message,
             CheckLatest(m) \/ AlreadyAnswered(m) \/ SkipPaused(m) \/ Begin(m)
      PROVE  Locked'
    BY <1>6 DEF CheckLatest, AlreadyAnswered, SkipPaused, Begin, TypeOK, Locked
<1>7. ASSUME NEW f \in Forced, ForceRespond(f)
      PROVE  Locked'
    BY <1>7 DEF ForceRespond, TypeOK, Locked
<1>8. ASSUME NEW t \in Task, BuildContext(t) \/ HandOff(t) \/ UseTool(t) \/ Think(t) \/ Fail(t)
      PROVE  Locked'
    BY <1>8 DEF BuildContext, Think, HandOff, UseTool, Fail, TypeOK, Locked
<1>9. ASSUME NEW t \in Task, Save(t) \/ Send(t) \/ MarkAnswered(t)
      PROVE  Locked'
    BY <1>9 DEF Save, Send, MarkAnswered, TypeOK, Locked
<1>10. ASSUME NEW t \in Task, Release(t)
       PROVE  Locked'
    BY <1>10 DEF Release, TypeOK, Locked
<1>11. \A t \in Task : ~Crash(t)
    BY DEF Crash
<1>12. QED
    BY <1>1, <1>2, <1>3, <1>4, <1>5, <1>6, <1>7, <1>8, <1>9, <1>10, <1>11 DEF Next, Handle, Answer

\* With a working Redis and living, patient workers, one task at a time generates a reply.
THEOREM OneReplyAtATime == ASSUME Quiet PROVE Spec => []OneAtATime
<1>1. Init => TypeOK /\ Locked
    BY InitTypeOK, InitLocked
<1>2. TypeOK /\ Locked /\ [Next]_vars => (TypeOK /\ Locked)'
    BY StepTypeOK, StepLocked, Quiet
<1>3. Locked => OneAtATime
    BY DEF Locked, OneAtATime
<1>4. QED
    BY <1>1, <1>2, <1>3, PTL DEF Spec

-----------------------------------------------------------------------------
(* Layer 3: no reply without a message that is not marked as answered.     *)

\* The agent itself may fail and the queue may lose a task, but what is saved is sent and marked.
Undisturbed == MaxForced = 0 /\ Trouble \subseteq {"llm", "broker"}

\* Between replies the mark is the frontier; who is about to answer has noted a message behind it;
\* who has answered has noted the frontier; and a reply exists from Save on.
Noted ==
    /\ (\A t \in Message : pc[t] \notin {"saved", "sent"}) => mark = frontier
    /\ \A t \in Message :
        /\ pc[t] \in {"context", "thinking", "ready"} => frontier < upto[t]
        /\ pc[t] \in {"saved", "sent"} => frontier = upto[t] /\ upto[t] # 0
        /\ pc[t] \in {"idle", "waiting", "locked", "latest", "context", "thinking", "ready"}
               => delivery[t] = "none"
        /\ pc[t] = "saved" => delivery[t] # "none"

Replied == {t \in Task : delivery[t] # "none"}

\* Without forced runs every task is the task of a message.
LEMMA OnlyMessages == ASSUME Undisturbed PROVE Task = Message /\ Forced = {} /\ Quiet
BY ResponderAssumption DEF Undisturbed, Task, Message, Forced, Quiet

LEMMA InitNoted == Init => Noted
BY Tasks DEF Init, Noted

LEMMA StepNoted ==
    ASSUME Undisturbed PROVE TypeOK /\ Locked /\ Noted /\ [Next]_vars => Noted'
<1> SUFFICES ASSUME TypeOK, Locked, Noted, [Next]_vars PROVE Noted'
    OBVIOUS
<1> USE OnlyMessages, Undisturbed, Tasks DEF Undisturbed, Move, Return, answer
<1>1. ASSUME Pause \/ Resume \/ Expire \/ UNCHANGED vars
      PROVE  Noted'
    BY <1>1 DEF Pause, Resume, Expire, vars, Noted
<1>2. ASSUME NEW m \in Message, Arrive(m)
      PROVE  Noted'
    <2>1. pc[m] = "idle" /\ pc'[m] \in {"waiting", "done"} /\ \A t \in Message \ {m} : pc'[t] = pc[t]
        BY <1>2 DEF Arrive, TypeOK, Locked
    <2>2. UNCHANGED <<mark, upto, delivery, frontier>>
        BY <1>2 DEF Arrive
    <2>3. QED
        BY <2>1, <2>2 DEF Noted
<1>3. ASSUME NEW m \in Message, Acquire(m) \/ GiveUp(m)
      PROVE  Noted'
    BY <1>3 DEF Acquire, GiveUp, TypeOK, Noted
<1>4. ASSUME NEW m \in Message, CheckLatest(m) \/ AlreadyAnswered(m) \/ SkipPaused(m)
      PROVE  Noted'
    BY <1>4 DEF CheckLatest, AlreadyAnswered, SkipPaused, TypeOK, Noted
<1>5. ASSUME NEW m \in Message, Begin(m)
      PROVE  Noted'
    <2>1. \A t \in Message : pc[t] \notin {"saved", "sent"}
        BY <1>5 DEF Begin, Locked, Inside
    <2>2. m <= arrived
        BY <1>5 DEF Begin, Locked, TypeOK
    <2>3. mark = frontier /\ mark < m
        BY <1>5, <2>1 DEF Begin, Unanswered, Noted
    <2>4. upto'[m] = arrived /\ frontier' < upto'[m]
        BY <1>5, <2>2, <2>3 DEF Begin, TypeOK
    <2>5. QED
        BY <1>5, <2>1, <2>3, <2>4 DEF Begin, TypeOK, Noted
<1>6. ASSUME NEW t \in Message, BuildContext(t) \/ HandOff(t) \/ UseTool(t) \/ Think(t) \/ Fail(t)
      PROVE  Noted'
    BY <1>6 DEF BuildContext, Think, HandOff, UseTool, Fail, TypeOK, Noted
<1>7. ASSUME NEW t \in Message, Save(t)
      PROVE  Noted'
    <2>1. \A s \in Message \ {t} : pc[s] \notin Inside
        BY <1>7 DEF Save, Locked, Inside
    <2>2. frontier' = upto[t] /\ upto[t] # 0
        BY <1>7 DEF Save, Higher, TypeOK, Noted
    <2>3. QED
        BY <1>7, <2>1, <2>2 DEF Save, TypeOK, Noted, Inside
<1>8. ASSUME NEW t \in Message, Send(t)
      PROVE  Noted'
    BY <1>8 DEF Send, TypeOK, Noted
<1>9. ASSUME NEW t \in Message, MarkAnswered(t)
      PROVE  Noted'
    <2>1. mark' = frontier'
        BY <1>9 DEF MarkAnswered, TypeOK, Noted
    <2>2. QED
        BY <1>9, <2>1 DEF MarkAnswered, TypeOK, Noted
<1>10. ASSUME NEW t \in Message, Release(t)
       PROVE  Noted'
    BY <1>10 DEF Release, TypeOK, Noted
<1>11. \A t \in Task : ~Crash(t)
    BY DEF Crash
<1>12. QED
    BY <1>1, <1>2, <1>3, <1>4, <1>5, <1>6, <1>7, <1>8, <1>9, <1>10, <1>11 DEF Next, Handle, Answer

\* Saving a reply adds one to the replies.
LEMMA SaveCounts ==
    ASSUME TypeOK, Noted, NEW t \in Message, Save(t)
    PROVE  Cardinality(Replied') = Cardinality(Replied) + 1
<1>1. t \notin Replied /\ Replied' = Replied \cup {t}
    BY Tasks DEF Save, Noted, TypeOK, Replied
<1>2. IsFiniteSet(Replied)
    <2>1. IsFiniteSet(Task)
        BY FS_Interval, ResponderAssumption DEF Task
    <2>2. QED
        BY <2>1, FS_Subset DEF Replied
<1>3. QED
    BY <1>1, <1>2, FS_AddElement

\* No other step adds or removes one.
LEMMA OthersDoNotCount ==
    ASSUME Undisturbed, TypeOK, Noted, [Next]_vars, ~ \E t \in Message : Save(t)
    PROVE  Replied' = Replied
<1> USE OnlyMessages, Undisturbed DEF Undisturbed, answer
<1>1. CASE UNCHANGED delivery
    BY <1>1 DEF Replied
<1>2. CASE \E t \in Message : Send(t)
    BY <1>2 DEF Send, Noted, TypeOK, Replied
<1>3. QED
    BY <1>1, <1>2 DEF Next, vars, Pause, Resume, Expire, Arrive, Handle, Acquire, GiveUp,
       CheckLatest, AlreadyAnswered, SkipPaused, Begin, Answer, BuildContext, Think, HandOff, UseTool, Fail,
       MarkAnswered, Release, Crash

\* Undisturbed, the tasks of a conversation implement the log of replies: each saved reply is
\* for a message behind all that were answered before.
THEOREM RepliesAnswerSomethingNew == ASSUME Undisturbed PROVE Spec => ImplementsReplyLog
<1>1. Init => TypeOK /\ Locked /\ Noted
    BY InitTypeOK, InitLocked, InitNoted
<1>2. TypeOK /\ Locked /\ Noted /\ [Next]_vars => (TypeOK /\ Locked /\ Noted)'
    BY StepTypeOK, StepLocked, StepNoted, OnlyMessages, Undisturbed
<1>3. Init => Log!Init
    <2>1. Init => Replied = {}
        BY DEF Init, Replied
    <2>2. QED
        BY <2>1, FS_EmptySet DEF Init, Log!Init, Replied
<1>4. TypeOK /\ Locked /\ Noted /\ [Next]_vars => [Log!Next]_(Log!vars)
    <2> SUFFICES ASSUME TypeOK, Locked, Noted, [Next]_vars PROVE [Log!Next]_(Log!vars)
        OBVIOUS
    <2> USE OnlyMessages, Undisturbed
    <2>1. CASE \E m \in Message : Arrive(m)
        <3>1. Replied' = Replied
            BY <2>1 DEF Arrive, answer, Replied
        <3>2. arrived' = arrived + 1 /\ UNCHANGED frontier
            BY <2>1 DEF Arrive, answer
        <3>3. QED
            BY <3>1, <3>2 DEF Log!Next, Log!Arrive, Replied
    <2>2. CASE \E t \in Message : Save(t)
        <3>1. PICK t \in Message : Save(t)
            BY <2>2
        <3>2. frontier' \in (frontier + 1) .. arrived /\ arrived' = arrived
            BY <3>1 DEF Save, Higher, Noted, TypeOK
        <3>3. QED
            BY <3>1, <3>2, SaveCounts DEF Log!Next, Log!Reply, Replied
    <2>3. CASE ~(\E m \in Message : Arrive(m)) /\ ~(\E t \in Message : Save(t))
        <3>1. UNCHANGED <<arrived, frontier>>
            BY <2>3 DEF Next, vars, Pause, Resume, Expire, Handle, Acquire, GiveUp, CheckLatest,
               AlreadyAnswered, SkipPaused, Begin, Answer, BuildContext, Think, HandOff, UseTool, Fail, Send,
               MarkAnswered, Release, Crash, answer
        <3>2. Replied' = Replied
            BY <2>3, OthersDoNotCount
        <3>3. QED
            BY <3>1, <3>2 DEF Log!vars, Replied
    <2>4. QED
        BY <2>1, <2>2, <2>3
<1>5. QED
    BY <1>1, <1>2, <1>3, <1>4, PTL DEF Spec, ImplementsReplyLog, Log!Spec
=============================================================================

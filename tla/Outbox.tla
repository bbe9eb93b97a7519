------------------------------- MODULE Outbox -------------------------------
(***************************************************************************)
(* What goes out: replies, pictures and carousels to a customer, and the   *)
(* notices to the staff's groups.  A message to a customer is a row of the *)
(* conversation before the messenger is called; a notice is a row after.   *)
(*                                                                         *)
(* A message is one or more calls of the messenger's API, made in order.   *)
(* A call is accepted, refused (ChannelError), or broken: the network      *)
(* fails or the process dies, and nobody knows whether it arrived.         *)
(***************************************************************************)
EXTENDS Naturals, FiniteSets

CONSTANTS
    Mail,        \* messages and notices
    Shape,       \* Shape[m]: its channel, its kind and the number of text chunks
    Configured   \* messengers with a token, and the groups' chat id if it is set

Kind == {"text", "image", "carousel", "notice"}

ASSUME OutboxAssumption == \A m \in Mail : Shape[m].kind \in Kind /\ Shape[m].chunks \in Nat \ {0}

VARIABLES
    row,         \* of each: none, pending, sent, failed, skipped, or deleted with the conversation
    made,        \* calls made so far
    arrived,     \* the calls that the messenger carried out
    sender,      \* the handler: idle, calling, refused, or over (done or dead)
    open         \* the conversation is still there

outboxVars == <<row, made, arrived, sender, open>>

\* split_message cuts a text; a picture on Instagram carries no text, so that its caption follows it.
TelegramCalls(m) == IF Shape[m].kind \in {"text", "notice"} THEN 1 .. Shape[m].chunks ELSE {1}

InstagramCalls(m) ==
    CASE Shape[m].kind = "text" -> 1 .. Shape[m].chunks
      [] Shape[m].kind = "image" -> IF Shape[m].chunks > 1 THEN {1, 2} ELSE {1}
      [] OTHER -> {1}

Calls(m) == IF Shape[m].channel = "telegram" THEN TelegramCalls(m) ELSE InstagramCalls(m)

\* The answer to the caption of a picture on Instagram is not looked at.
Checked(m, k) == ~(Shape[m].channel = "instagram" /\ Shape[m].kind = "image" /\ k = 2)

\* Every variable keeps its type.
OutboxTypeOK ==
    /\ row \in [Mail -> {"none", "pending", "sent", "failed", "skipped", "deleted"}]
    /\ \A m \in Mail : made[m] \in 0 .. Cardinality(Calls(m)) /\ arrived[m] \subseteq Calls(m)
    /\ sender \in [Mail -> {"idle", "calling", "refused", "over"}]
    /\ open \in BOOLEAN

-----------------------------------------------------------------------------

Notice(m) == Shape[m].kind = "notice"

Saved(m, kind) ==
    /\ Shape[m].kind = kind
    /\ sender[m] = "idle"
    /\ open                                  \* notify_customer and get_conversation find none otherwise
    /\ row' = [row EXCEPT ![m] = "pending"]
    /\ sender' = [sender EXCEPT ![m] = "calling"]
    /\ UNCHANGED <<made, arrived, open>>

SaveText(m) == Saved(m, "text")

SaveImage(m) == Saved(m, "image")

SaveCarousel(m) == Saved(m, "carousel")

\* A notice is added to the session only; without a chat id it is skipped.
StartNotice(m) ==
    /\ Notice(m)
    /\ sender[m] = "idle"
    /\ IF "group" \in Configured
         THEN sender' = [sender EXCEPT ![m] = "calling"] /\ UNCHANGED row
         ELSE sender' = [sender EXCEPT ![m] = "over"] /\ row' = [row EXCEPT ![m] = "skipped"]
    /\ UNCHANGED <<made, arrived, open>>

Left(m) == made[m] < Cardinality(Calls(m))

Accepted(m) ==
    /\ sender[m] = "calling" /\ Left(m)
    /\ Shape[m].channel \in Configured
    /\ made' = [made EXCEPT ![m] = @ + 1]
    /\ arrived' = [arrived EXCEPT ![m] = @ \cup {made[m] + 1}]
    /\ UNCHANGED <<row, sender, open>>

RefusedUnseen(m) ==
    /\ sender[m] = "calling" /\ Left(m)
    /\ made' = [made EXCEPT ![m] = @ + 1]
    /\ UNCHANGED <<row, sender, arrived, open>>

\* ChannelError: an answer that says no, or no token.
Refused(m) ==
    /\ sender[m] = "calling" /\ Left(m)
    /\ made' = [made EXCEPT ![m] = @ + 1]
    /\ sender' = [sender EXCEPT ![m] = IF Checked(m, made[m] + 1) THEN "refused" ELSE @]
    /\ UNCHANGED <<row, arrived, open>>

\* An error of httpx is no ChannelError: the row stays as it is.
Broken(m) ==
    /\ sender[m] \in {"calling", "refused"}
    /\ sender' = [sender EXCEPT ![m] = "over"]
    /\ IF sender[m] = "calling" /\ Left(m)
         THEN /\ made' = [made EXCEPT ![m] = @ + 1]
              /\ arrived' \in {arrived, [arrived EXCEPT ![m] = @ \cup {made[m] + 1}]}
         ELSE UNCHANGED <<made, arrived>>
    /\ UNCHANGED <<row, open>>

Finished(m) == sender[m] = "refused" \/ (sender[m] = "calling" /\ ~Left(m))

\* The second commit; a row that went with its conversation makes it fail.
Record(m) ==
    /\ Finished(m)
    /\ sender' = [sender EXCEPT ![m] = "over"]
    /\ row' = [row EXCEPT ![m] = CASE @ = "deleted" -> "deleted"
                                   [] sender[m] = "refused" -> "failed"
                                   [] OTHER -> "sent"]
    /\ UNCHANGED <<made, arrived, open>>

DeleteTalk ==
    /\ open
    /\ open' = FALSE
    /\ row' = [m \in Mail |-> IF Notice(m) \/ row[m] = "none" THEN row[m] ELSE "deleted"]
    /\ UNCHANGED <<made, arrived, sender>>

-----------------------------------------------------------------------------

OutboxInit ==
    /\ row = [m \in Mail |-> "none"]
    /\ made = [m \in Mail |-> 0]
    /\ arrived = [m \in Mail |-> {}]
    /\ sender = [m \in Mail |-> "idle"]
    /\ open = TRUE

OutboxNext ==
    \/ \E m \in Mail :
          \/ SaveText(m) \/ SaveImage(m) \/ SaveCarousel(m) \/ StartNotice(m)
          \/ Accepted(m) \/ Refused(m) \/ Broken(m) \/ Record(m)
    \/ DeleteTalk

OutboxSpec == OutboxInit /\ [][OutboxNext]_outboxVars

-----------------------------------------------------------------------------

\* What the inbox shows is what the customer has: "sent" only if every call whose answer is looked at arrived,
\* "failed" only if one did not, the parts of a message arrive as a prefix, and what has arrived is in the inbox, or
\* was, even if the process died on the way.
InboxShowsWhatArrived ==
    \A m \in Mail :
        /\ row[m] = "sent" => \A k \in Calls(m) : Checked(m, k) => k \in arrived[m]
        /\ row[m] = "failed" => arrived[m] # Calls(m)
        /\ \A k \in arrived[m] : \A j \in Calls(m) : j < k => j \in arrived[m]
        /\ arrived[m] # {} /\ ~Notice(m) => row[m] # "none"
=============================================================================

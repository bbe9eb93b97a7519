-------------------------------- MODULE Sale ---------------------------------
(***************************************************************************)
(* The bill of one customer: the lines of the orders and their total, the  *)
(* details that a payment needs, and the message that asks for it.         *)
(*                                                                         *)
(* Orders has the statuses one transaction at a time.  Here replace_items, *)
(* the map page and the text address read in one step, commit in another   *)
(* and, the last two, write to the customer in a third: what a session has *)
(* read it keeps, since nothing expires at a commit.                       *)
(***************************************************************************)
EXTENDS Naturals, FiniteSets, FiniteSetsExt

CONSTANTS
    Bills,      \* bound: orders of the customer, 1 .. Bills
    Line,       \* rows of order_item
    Value,      \* Value[l]: what a line comes to
    Desk        \* the slots of requests that run at a time: 1 .. n

ASSUME SaleAssumption == Bills \in Nat /\ Value \in [Line -> Nat]

Bill == 1 .. Bills

VARIABLES
    bill,       \* the orders: status, lines and grand_total; due stands for waiting_payment and payment_review
    known,      \* full_name and phone of the customer
    contact,    \* the orders whose delivery row has a phone
    page,       \* the orders with a link that can still be used
    desk,       \* what each request has read
    mixed        \* history: orders whose lines were replaced twice at once, and not cleanly after

saleVars == <<bill, known, contact, page, desk, mixed>>

NoBill == [status |-> "none", lines |-> {}, total |-> 0]
Vacant == [stage |-> "idle"]
Details == [name : BOOLEAN, phone : BOOLEAN]
Replacing == [stage : {"replace"}, bill : Bill, old : SUBSET Line, line : Line]
Addressing == [stage : {"map", "text", "tell"}, bill : Bill, pending : BOOLEAN, settled : BOOLEAN, total : Nat,
               phone : BOOLEAN, known : Details, contact : BOOLEAN, stale : BOOLEAN]

\* Every variable keeps its type.
SaleTypeOK ==
    /\ bill \in [Bill -> [status : {"none", "pending", "due", "settled"}, lines : SUBSET Line, total : Nat]]
    /\ known \in Details /\ contact \in SUBSET Bill /\ page \in SUBSET Bill /\ mixed \in SUBSET Bill
    /\ desk \in [Desk -> {Vacant} \cup Replacing \cup Addressing]

-----------------------------------------------------------------------------

Editable(b) == bill[b].status \in {"pending", "due"}

Claimed == UNION {bill[b].lines : b \in Bill} \cup {desk[d].line : d \in {e \in Desk : desk[e].stage = "replace"}}
                \cup UNION {desk[d].old : d \in {e \in Desk : desk[e].stage = "replace"}}

Vacates(d) == desk[d].stage = "idle" /\ \A e \in Desk : e < d => desk[e].stage # "idle"

\* The requests that are open have not read what is written now.  What one tells the customer after that is no longer
\* followed, what it writes is.
Unread(others) == [d \in Desk |->
    CASE others[d].stage = "tell" -> Vacant
      [] others[d].stage \in {"map", "text"} ->
             [others[d] EXCEPT !.stale = TRUE, !.total = 0, !.settled = FALSE, !.known.name = FALSE]
      [] OTHER -> others[d]]

\* create_order: the customer's open orders are cancelled.
CreateBill(b, l) ==
    /\ bill[b] = NoBill /\ \A c \in Bill : c < b => bill[c] # NoBill
    /\ l \notin Claimed
    /\ bill' = [c \in Bill |-> IF c = b THEN [status |-> "pending", lines |-> {l}, total |-> Value[l]]
                               ELSE IF Editable(c) THEN [bill[c] EXCEPT !.status = "settled"] ELSE bill[c]]
    /\ desk' = Unread(desk)
    /\ UNCHANGED <<known, contact, page, mixed>>

\* Cancelled, or confirmed after the payment.
Settle(b) ==
    /\ Editable(b)
    /\ bill' = [bill EXCEPT ![b].status = "settled"]
    /\ desk' = Unread(desk)
    /\ UNCHANGED <<known, contact, page, mixed>>

\* submit_payment.
Submit(b) ==
    /\ bill[b].status = "pending"
    /\ bill' = [bill EXCEPT ![b].status = "due"]
    /\ desk' = Unread(desk)
    /\ UNCHANGED <<known, contact, page, mixed>>

\* replace_items up to its commit, which deletes the lines it has read.
OpenReplace(d, b, l) ==
    /\ Vacates(d) /\ Editable(b) /\ l \notin Claimed
    /\ desk' = [desk EXCEPT ![d] = [stage |-> "replace", bill |-> b, old |-> bill[b].lines, line |-> l]]
    /\ UNCHANGED <<bill, known, contact, page, mixed>>

CommitReplaceAdding(d) ==
    LET w == desk[d] IN
    /\ w.stage = "replace"
    /\ bill' = [bill EXCEPT ![w.bill].lines = @ \cup {w.line}, ![w.bill].total = Value[w.line]]
    /\ mixed' = IF bill[w.bill].lines = w.old THEN mixed \ {w.bill} ELSE mixed \cup {w.bill}
    /\ desk' = Unread([desk EXCEPT ![d] = Vacant])
    /\ UNCHANGED <<known, contact, page>>

\* A line that another request has deleted meanwhile is deleted again without a complaint.
CommitReplace(d) ==
    LET w == desk[d] IN
    /\ w.stage = "replace"
    /\ bill' = [bill EXCEPT ![w.bill].lines = (@ \ w.old) \cup {w.line}, ![w.bill].total = Value[w.line]]
    /\ mixed' = IF bill[w.bill].lines = w.old THEN mixed \ {w.bill} ELSE mixed \cup {w.bill}
    /\ desk' = Unread([desk EXCEPT ![d] = Vacant])
    /\ UNCHANGED <<known, contact, page>>

-----------------------------------------------------------------------------
(* The address and the message after it.                                   *)

\* request_delivery_location, for the active order or any that the agent names; the link of an order outlives the order.
SendLink(b) ==
    /\ bill[b] # NoBill /\ b \notin page
    /\ page' = page \cup {b}
    /\ UNCHANGED <<bill, known, contact, desk, mixed>>

Reads(stage, b, phone) ==
    [stage |-> stage, bill |-> b, pending |-> bill[b].status = "pending", settled |-> bill[b].status = "settled",
     total |-> bill[b].total, phone |-> phone, known |-> known, contact |-> b \in contact, stale |-> FALSE]

\* Bound: one address at a time, since two of them are Checkout's.
Free(d) == Vacates(d) /\ \A e \in Desk : desk[e].stage \in {"idle", "replace"}

OpenMap(d, b, phone) ==
    /\ Free(d) /\ b \in page
    /\ desk' = [desk EXCEPT ![d] = Reads("map", b, phone)]
    /\ UNCHANGED <<bill, known, contact, page, mixed>>

\* set_delivery_address, likewise.
OpenTyped(d, b, phone) ==
    /\ Free(d) /\ bill[b] # NoBill
    /\ desk' = [desk EXCEPT ![d] = Reads("text", b, phone)]
    /\ UNCHANGED <<bill, known, contact, page, mixed>>

\* The status and the customer's phone are written if they were to be written when they were read.
Addressed(w) ==
    /\ bill' = IF w.pending THEN [bill EXCEPT ![w.bill].status = "due"] ELSE bill
    /\ known' = IF w.phone /\ ~w.known.phone THEN [known EXCEPT !.phone = TRUE] ELSE known

Telling(d, total, contacted, stale) ==
    [Unread([desk EXCEPT ![d] = Vacant]) EXCEPT
        ![d] = IF stale THEN Vacant
               ELSE [desk[d] EXCEPT !.stage = "tell", !.total = total, !.contact = contacted,
                                    !.known.phone = @ \/ desk[d].phone]]

\* confirm_location writes the phone of the form, also none.
CommitMap(d) ==
    LET w == desk[d] IN
    /\ w.stage = "map"
    /\ Addressed(w)
    /\ contact' = IF w.phone = w.contact THEN contact
                  ELSE IF w.phone THEN contact \cup {w.bill} ELSE contact \ {w.bill}
    /\ page' = page \ {w.bill}
    /\ desk' = Telling(d, w.total, w.phone, w.stale)
    /\ UNCHANGED mixed

\* set_text_address keeps a phone that is there; the tool refreshes the order.
CommitTyped(d) ==
    LET w == desk[d] IN
    /\ w.stage = "text"
    /\ Addressed(w)
    /\ contact' = IF w.phone THEN contact \cup {w.bill} ELSE contact
    /\ desk' = Telling(d, bill[w.bill].total, w.contact \/ w.phone, w.stale)
    /\ UNCHANGED <<page, mixed>>

CompleteIfKnown(details, contacted) == details.name /\ details.phone

\* The gate of _send_payment_followup.
Complete(details, contacted) == details.name /\ (details.phone \/ contacted)

\* What _send_payment_followup says.
FollowUpText(w, details) ==
    IF Complete(details, w.contact) THEN [kind |-> "pay", bill |-> w.bill, total |-> w.total]
    ELSE [kind |-> "details", bill |-> w.bill, total |-> 0]

\* The customer's row is the one the session has, or it is read now.
Messages(d) == {FollowUpText(desk[d], details) : details \in {desk[d].known, known}}

\* The message is sent, or there is no conversation to send it to.
FollowUp(d) ==
    /\ desk[d].stage = "tell"
    /\ desk' = [desk EXCEPT ![d] = Vacant]
    /\ UNCHANGED <<bill, known, contact, page, mixed>>

\* Refused, or cut off before the commit.
Leaves(d) ==
    /\ desk[d].stage \in {"replace", "map", "text"}
    /\ desk' = [desk EXCEPT ![d] = Vacant]
    /\ UNCHANGED <<bill, known, contact, page, mixed>>

\* update_customer_profile and request_operator_callback fill in, update_customer of the staff may blank.
Profile(details) ==
    /\ details # known
    /\ known' = details
    /\ desk' = Unread(desk)
    /\ UNCHANGED <<bill, contact, page, mixed>>

-----------------------------------------------------------------------------

SaleInit ==
    /\ bill = [b \in Bill |-> NoBill] /\ known = [name |-> FALSE, phone |-> FALSE]
    /\ contact = {} /\ page = {} /\ mixed = {}
    /\ desk = [d \in Desk |-> Vacant]

SaleNext ==
    \/ \E b \in Bill, l \in Line : CreateBill(b, l) \/ \E d \in Desk : OpenReplace(d, b, l)
    \/ \E b \in Bill : Settle(b) \/ Submit(b) \/ SendLink(b)
    \/ \E d \in Desk, b \in Bill, phone \in BOOLEAN : OpenMap(d, b, phone) \/ OpenTyped(d, b, phone)
    \/ \E d \in Desk : CommitReplace(d) \/ CommitMap(d) \/ CommitTyped(d) \/ FollowUp(d) \/ Leaves(d)
    \/ \E details \in Details : Profile(details)

SaleSpec == SaleInit /\ [][SaleNext]_saleVars

-----------------------------------------------------------------------------

Worth(lines) == MapThenSumSet(LAMBDA l : Value[l], lines)

\* The total that is asked for is the sum of the lines that are delivered, through any number of replacements: but two
\* at once leave the lines of both with the total of one, until the next.
TotalIsLines ==
    \A b \in Bill : b \in mixed \/ bill[b].total = Worth(bill[b].lines)

\* After an address the customer is asked to pay what the order comes to exactly when name and phone are known, and for
\* the details otherwise, by the page as by the text: unless something was written since the request read the order.
\* An order that was settled before that is asked to be paid all the same.
AsksForWhatIsDue ==
    \A d \in Desk : desk[d].stage = "tell" =>
        LET b == desk[d].bill IN
        \A m \in Messages(d) :
            /\ m.kind = "pay" <=> known.name /\ (known.phone \/ b \in contact)
            /\ m.kind = "pay" => m.total = bill[b].total /\ (bill[b].status = "due" \/ desk[d].settled)
=============================================================================

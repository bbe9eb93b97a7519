# Almaz Silver: verification project

TLA+ models of Almaz, an AI seller and CRM for a jewellery shop (FastAPI, PostgreSQL, Redis,
RabbitMQ/Celery). The modules are translated from the Python code under `src/app`; TLC checks them on
small instances; TLAPS proves every safety invariant and action property of the passing runs for all constants that meet the assumptions section 4 names. `PROJECT.json` holds the
inventory in machine-readable form: components, runs, mutants, the map from definitions to source
lines, findings, hazards and theorems.

Paths below are relative to `src/app/modules` unless they start with `core/` or `src/`.

## 1. The system

| Component | State it keeps | Operations | Status |
|---|---|---|---|
| Orders (`orders/`) | order: status, customer, items, total | create (with supersede), replace items, cancel, board move, complete, edit | `Orders`; overlapping requests in `Catalog`, prices in `Offer`, totals in `Sale` |
| Payments (`payments/`) | payment per order: status, receipt | submit, approve, reject, Telegram callback | `Orders`, overlapping reviews in `Catalog` |
| Payment cards (`payments/`) | cards, one primary | create, update, delete | `Cards` |
| Catalogue (`catalog/`) | products, variants and boxes with stock_qty and reserved_qty; combos; categories | create, correct stock, edit combos and prices, delete | `Catalog`, `Orders`, `Offer`; names, tags and media files left out |
| Stories and posts (`catalog/`) | `product_media` rows | register, resolve a link or a story reply | `Stories` |
| Delivery (`delivery/`) | delivery row, checkout tokens | link, confirm, text address, status | `Checkout`; the order's side in `Orders` and `Sale` |
| AI responder (`ai/service.py`, `agent.py`, `coalesce.py`, `core/redis_lock.py`, `inbox/tasks.py`) | lock and mark in Redis, pause and reply in the database | one Celery task per message; run by hand | `Responder` |
| AI tools, memory (`ai/tools.py`, `memory.py`) | none of their own | calls into orders, payments, delivery | `Offer`, `Sale`, `Orders`, `Responder`; searches left out |
| Inbox (`inbox/service.py`) | customers, conversations, messages, unread counters | ingest, reply, read, delete, control of the agent | `Inbox`, `Outbox`, `Responder` |
| Channels (`inbox/channels`, `webhooks.py`) | none | receive, send | `Inbox`, `Outbox`; parsing and signatures left out |
| Notifications (`notifications/`) | a row per notice | notify the group | `Outbox` |
| Re-engagement (`inbox/reengagement.py`) | none | periodic message to silent customers | `Reengagement` |
| Identity (`identity/`, `core/`) | users, roles; cache, blacklist and counters in Redis | login, refresh, logout, change of roles, rate limit | `Permissions`, `Access`, `Sessions` |
| Settings, prompts, knowledge, integrations | rows that the source ships and staff edit; the webhook at Telegram | seed, edit, reset, register | `Configuration` |
| Audit, analytics, search, files, model client, geography's arithmetic, scripts | | | not modelled, section 5 |

How they interact:

* A webhook saves the customer's message (`InboxService.ingest_incoming`) and enqueues a Celery task,
  best effort. The task takes the conversation's Redis lock, looks at the mark and the pause, builds
  the context from the database, calls the model, runs its tools, saves and sends a reply and sets the mark.
* The tools call the services of orders, payments and delivery in the agent's own database session.
* The customer's address (checkout page or text) moves an order from `pending` to `waiting_payment`,
  the receipt to `payment_review`; staff approve or reject by button or API. Creation reserves units,
  approval sells them, rejection and cancellation give them back. An approval pauses the agent.
* Orders share the rows of variants and boxes. A combo names component rows, which are looked up
  again (`resolve_stock_targets`) at each booking, release and sale.
* Every endpoint asks for one permission code. A user's codes come from Redis or, on a miss, from the
  roles in the database. Every start of the server runs the seed and registers the Telegram webhook.
* Celery beat starts the re-engagement, which writes through the same `_send_outbound` as the agent.

What is hard here: several handlers touch one row and trust each other's status tests; the same
units are released from four places, each clamped at zero, so that a mistake is silent; a session
reads rows, computes in Python and commits the columns that changed, with no lock and no version, so
that two requests overwrite each other's parts; tasks of one conversation run in parallel and meet only
in Redis, which may be down; an operator, the customer and the agent act between any two awaits;
messengers deliver again what they have no answer for; workers may die, and Celery acknowledges early.

What makes each component correct:

* Orders, payments, stock: no row overbooked, no reservation leaked, a unit sold once; one active
  order per customer; nothing shipped unpaid; a paid order closed to edits; no order lost by supersession.
* Prices and bills: what the agent told is what is charged; a total is the sum of its lines; the customer
  is asked for what is due.
* Responder: one reply at a time, no message dropped between the three layers of de-duplication,
  no reply that answers nothing new, a mark that never hides an unanswered message, no foreign lock
  freed, silence while an operator has the conversation.
* Inbox: nothing lost that was answered with 200, every payload through in the end, true counters, and
  rows that say what the customer has.
* Checkout: a link used once, an address that is stored as it was told. Cards: one primary card.
* Stories: a reply to a story shows the jewel of that story.
* Access: a revoked permission is cleared or expires, a logged-out token stays out, a login limit ends,
  the administrator is back after every start. Configuration: seeds undo no edit, the bot hears.

## 2. Modules

| Module | What it is |
|---|---|
| `Orders` | orders, payments and stock at the grain of a database transaction |
| `Catalog` | variants, boxes, combos and the requests about orders that overlap on their rows |
| `Offer` | what the agent is told of a product, and what an order of it costs |
| `Sale` | the bill of a customer: lines, total, and the message that asks for the payment |
| `ReplyLog` | abstract specification: a reply answers messages behind the frontier of the earlier ones |
| `Responder` | the tasks, runs by hand, Redis lock and mark, pause and reply of one conversation |
| `Inbox` | webhooks, conversations and messages of one customer, unread counters, deletions |
| `Outbox` | messages, pictures, carousels and notices, call by call of the messenger's API |
| `Checkout` | links, the map page, text addresses and the delivery row of one order |
| `Stories` | story replies, links and `product_media` rows |
| `Cards` | payment cards |
| `Permissions` | the tables of codes, system roles and endpoints |
| `Access` | users, roles, grants, the permission cache and the requests that use and change them |
| `Sessions` | login limit, refresh tokens, logout and blacklist |
| `Configuration` | settings, prompts, knowledge, messenger secrets, seeds and the bot's webhook |
| `Reengagement` | the beat, its candidates and its nudges |
| `MCOrders`, `MCResponder` | small shops, and sets of troubles, for TLC |
| `MCBackOffice` | the instance of `Access`, `Sessions`, `Configuration`, `Reengagement`, `Offer`, `Sale` |
| `MCFrontOffice` | the instance of `Inbox`, `Outbox`, `Checkout`, `Stories`, `Cards`, `Catalog` |
| `OrdersProofs`, `ResponderProofs`, `AccessProofs`, `InboxProofs`, `CatalogProofs` | theorems of the module they are named after |
| `SalesProofs` | theorems of `Offer` and `Sale` |
| `BackOfficeProofs` | theorems of `Sessions`, `Configuration`, `Reengagement` and of their composition with `Access`, `Offer`, `Sale` |
| `FrontOfficeProofs` | theorems of `Cards`, `Stories`, `Checkout`, `Outbox` and of their composition with `Inbox`, `Catalog` |

The modules of one MC module share no variable: they model parts that meet in rows which one of them
owns (a paid order in `Sale` is `Orders`' status). Interleaving them would multiply states and show
nothing, so `part` picks the one that moves in a behaviour. Their actions keep the names of the code's
handlers as far as names do not clash.

### Orders

State: `status`, `owner`, `payment` are the columns of the rows of order and payment; `basket` stands
for the items of an order; `stock` and `reserved` are `stock_qty` and `reserved_qty` of the rows of
variant and box; `catalog` says what a basket takes today and whether all it names can be sold.
Orders are numbered by `created_at`.

One action per handler, from its first read to its commit. A handler that raises `AppError` before
its commit changes nothing, because its session is closed without one. There is one exception and it
is in the code: the `create_order` tool catches the error in the agent's session, and the reply's
commit keeps what the failed call did: old orders cancelled, earlier items booked (`AiCreateFails`,
whose `Prefix` says which rows a basket has booked when an item is refused).

Helpers follow the code: `Released` is `_release_reservation` with its clamp, order after order;
`Fits` is the check of `_process_items`, on stocked variants and boxes (`Checked`) only. A
made-to-order variant is booked but not checked. Two items that name the same row are checked one
after the other against growing `reserved_qty`, which is the one check against their sum.

What staff do rather than what the code refuses is a constant: `KanbanMoves` (the code accepts
every move on the board), `OwnerEdits`, `Edits` of the catalogue, `Deltas` of stock corrections. So a
property that rests on the staff's discipline names that discipline in its run and its theorem.

Abstracted: prices, fees, history rows, notifications, sizes, engraving, bonuses. A change of
`fulfillment_type` of an existing variant and the tool's test for an identical order are left out.
`draft` is in the statuses and reachable by a board move only, as in the code. `refunded` and
`returned` are written by no handler.

### Responder

A task's `pc` walks `idle, waiting, locked, latest, context, thinking, ready, saved, sent, leaving,
done`, or ends `dead`. A step ends where another task, the customer, staff or the clock can be
noticed. Variables: the Redis `lock` and `mark`, the `paused` flag of the conversation, per task the
`outcome` (AgentOutcome), `upto` (`answered_upto`), `seen` (last message in the context), `unsaved`
(a flushed but uncommitted write of the pause, which holds the row's lock in PostgreSQL), and
`delivery` of its reply. `covered` and `frontier` are history: what saved replies have seen, and
what they are to be marked with.

`Trouble` chooses what may fail: `slow` (a holder outlasts the lock's 180 s or the others' 90 s of
waiting), `crash`, `llm` (the model or a tool raises), `channel`, `redis`, `broker`. Redis failing is
a choice at each use: the lock is then passed without being held, the mark is not read, not written,
or the lock not deleted. The code catches each of these and goes on, and so does the model.

Assumptions: messages are ordered by arrival (`created_at` and commit order agree); the reply context
is long enough to hold every unanswered message; the mark's 24 h TTL does not end inside a behaviour.
Early returns that change nothing (global switch off, conversation closed, no model key, no such
message) are left out.

### Catalog, Offer, Sale

`Catalog` has the grain of a session: a request (`create`, `cancel`, `approve`) reads orders and units in
one step and commits in another what it computed, and others may have committed meanwhile. A commit
writes exactly the columns that changed, which is what SQLAlchemy does. Rows that two overlapping requests
wrote, or a combo changed under an order, are collected in `blurred`, customers who ordered twice at once
in `doubled`; the properties hold for all others. `replace_items`, `reject` and the remaining statuses
are in `Orders` only.

`Offer` has two computations side by side that the code also has twice: `Quote` is `_product_brief` with
`_boxes_for_product`, `Charge` is `_process_items`. Staff may write any row in between, which takes
the brief back (`brief' = <<>>`): the property speaks of what the customer was told last. An open order
that holds the last units of a box is `BoxToComeBack`: the brief lists no box, `create_order` gives the
units back first and then asks for one.

`Sale` follows `replace_items`, the map page and the text address from the read to the commit and on to the
message. A request whose rows were written by another since is marked stale and its message is not
followed. `settled` notes that the order had been settled before the address came: the message asks for the
payment all the same, since `_send_payment_followup` does not look at the status.

### Inbox, Outbox, Checkout, Stories, Cards

`Inbox`: a `Worker` handles a request: it looks up customer and conversation, flushes, commits each event and
enqueues its task, and answers; a broker that is down costs the task and not the 200 (`EnqueueFails`). `hook` is
what the messenger knows of a payload; what has no 200 is posted again. `at` is the begin of a transaction (`created_at`), the order of `saved` that of the commits. Tasks of the agent are seen from
afar: one answers everything saved, or leaves it to the last message's task. `orphan` keeps the messages whose task was
lost with its request or refused by the broker. `MaxMishaps` bounds crashes, lost answers, a broker that is down, early
redeliveries, deletions and reads together. `conversation` gives each open conversation its
place by last activity, which is the only thing `get_open_conversation` asks of them.

`Outbox`: a row is committed before the first call, and the second commit records the outcome. `Calls`
says how many calls a message takes per messenger; a call is accepted, refused (`ChannelError`) or broken
(nobody knows whether it arrived, and nothing records it).

`Checkout`: `writes` are the columns a request is going to write, so that two requests may each leave a part.
A text needs no link: it makes the row when there is none, and fails (`Leave`) when another request has made it meanwhile.
`Cards` has the same grain. `Stories` tells apart the id in a link and the id in a webhook; `unsure` collects the
stories that were asked about while the code had to guess.

### Permissions, Access, Sessions, Configuration, Reengagement

`Permissions` is the three tables of the source as sets, with the assumption `TablesAgree` that every code an
endpoint asks for and every code a role is given exists; TLC evaluates it. `Access` follows a request through the cache (hit, or miss,
read and fill in two steps) and through the handlers of roles and users up to the clearing of the last cache.
`late` collects the entries that nobody will clear: filled after a commit that overtook it, cut off by a
death, changed by the seed, or of a user who got a role while it was being deleted.

`Sessions`: a token's life is `fresh`, in its `last` seconds, `expired`; a blacklist entry may lapse in the last
seconds. `Configuration` tells shipped values from edited ones, and keeps what Telegram has registered per bot
(`hook`) beside the secret of today. `Reengagement` gives each conversation its `place`, 1 to n, by `last_activity_at`; time passes by
moving the oldest on, and a run's list holds the place of each candidate as the run found it.

## 3. Runs

Each property also has a mutant in `PROJECT.json`: a plausible slip in one definition, beside it in the
module, under which TLC finds the property violated in the same run.

| Run | Instance | Shows | Distinct states |
|---|---|---|---|
| `orders_routine` | 3 orders, 2 customers, a variant, a made-to-order variant and a box, 2 units each; two baskets; forward board moves | `OneActiveOrder`, `PaidIsClosed`, `ShippedIsPaid`, `ReservedIsBacked`, `StockFallsOnlyForSales`, `SupersededIsReplaced` | 177,817 |
| `orders_open` | 2 orders, 2 customers, 1 unit of each checked row, restocks, moves of any status to `pending` and `shipping`, owner and catalogue edits, AI path | `TypeOK`, `ReservedWithinStock` | 205,368 |
| `orders_resubmitted` | 1 order, 1 ring | finding: `ActiveHoldsUnits` fails | violation |
| `orders_half_done` | 2 orders, 1 ring, AI path | finding: `SupersededIsReplaced` fails | violation |
| `orders_revived` | 2 orders, 1 ring | finding: `CancelledIsTerminal` fails | violation |
| `responder_calm` | 3 messages, nothing fails, fair | `OneAtATime`, `ImplementsReplyLog`, `EveryMessageSettled` | 1,728 |
| `responder_storm` | 2 messages, 1 run by hand, everything may fail | `TypeOK`, `MarkIsEarned`, `OnlyOwnRelease` | 2,853,236 |
| `responder_again` | 2 messages, nothing fails | finding: `NoSecondAnswer` fails | violation |
| `responder_talkover` | 2 messages, nothing fails | finding: `SilentWhilePaused` fails | violation |
| `back_office` | 2 users, a system role and a custom one, 3 edits; 2 accounts, 2 tokens, limit 2; 2 bots and 2 secrets; 2 conversations, 2 runs, batch of 2; 3 kinds of product, 1 box, 2 policies; 1 bill of up to 3 lines, 2 requests | `TypeOK`, `StaleIsExplained`, `CacheConverges`, `SeedRestoresAdmin`, `LoggedOutStaysOut`, `LockEnds`, `SeedsKeepEdits`, `UnheardIsExplained`, `NoSecondNudge`, `FewQuietAreAllReached`, `BriefIsHonoured`, `TotalIsLines`, `AsksForWhatIsDue` | 221,792 |
| `front_office` | 2 payloads with 3 messages, 2 workers; 4 messages of different shapes; 1 link, 2 requests, a point in the city and one outside; 2 stories, 2 jewels; 2 cards, 2 clerks; a plain variant and a combo, 1 box, 2 orders, 2 requests, 1 edit | `TypeOK`, `NothingLost`, `PayloadsGetThrough`, `UnreadIsExplained`, `OpenAtMostWorkers`, `UnansweredWasOvertaken`, `InboxShowsWhatArrived`, `LinkSpentOnce`, `ParcelIsAsTold`, `OnePrimaryCard`, `RightJewel`, `BookedIsOpen`, `OneOpenOrder` | 449,987 |
| `inbox_overtaken` | the inbox of `front_office`, no mishap | finding: `EveryMessageAnswered` fails | violation |

Bounds and why they are enough. Three orders let one customer supersede an order while another
customer competes for the last unit; two units and unit needs reach zero, the limit and the clamp; a
need of two (`orders_open`) makes a combo's edit change what a release gives back. In `orders_open` only checked
rows occur, because a half-done AI order can book an unchecked row again and again, without limit.
Restocks stop at `MaxStock`. Three messages give a burst with a first, a middle and a last task, one
of them arriving at each point of another's life; two messages and one run by hand are
three concurrent answers, enough for one holder to expire under another. The theorems remove the bounds.

In `back_office` three edits are enough for a change of rights, the repair of the administrator and a
seed between them; two users are the one whose entry is stale and the one who made it so. The tables of
`Permissions` are not cut down, only the codes that are told apart. Two runs with a batch of two can hold the
same conversation. Of products there is one per branch of the price (discount, engraving of its own,
sizes). The three lines of a bill have the values 1, 2 and 4, so that no two sets have one sum; `Free`
keeps to one address request at a time, beside a replacement. In `front_office` two workers overlap any two
events of one customer; payloads of two and of one show an event lost behind another. One link and two requests
hold the double confirmation; one edit and two requests of two orders the blurred row. Larger instances were
run by hand with the same result: 2 links, 3 cards, 2 edits of the catalogue, a bill without `Free`, 4
products with 4 policies.

Deadlock is checked in the responder's runs. In the others it is not: after `MaxOrders`, `MaxEdits` or
the last payload there is nothing left to do, which is the bound's doing.

Fairness of the responder (`FairSpec`, used for `EveryMessageSettled` only): each task's own steps are weakly
fair, since a Celery worker that runs a task goes on with it; `Think` is weakly fair by itself, since the
tool loop ends after `ai_max_tool_iterations`. Nothing is assumed of the customer, the staff or the clock.
The run is without trouble: with a slow holder `GiveUp` loses a message by design, with
`crash` or `broker` nobody retries it.

Fairness of the other parts. `AccessFairness`: a request that runs goes on, and Redis drops an entry when its
TTL is over (`permission_cache_ttl` is set with the entry). `SessionsFairness`: a call that has incremented
goes on or dies, and Redis ends a window that has an expiry. `ReengagementFairness`: Celery beat keeps its
schedule, and a run takes its next candidate. `InboxFairness`: a request runs on or dies (its mishaps are bounded),
and the messenger posts a payload without a 200 again and again, which is strongly fair because another
request may have the row it needs; Telegram and Instagram do so for hours, not for ever.

`EveryMessageSettled` also takes as settled a message whose own task, or a later one's, found the
agent paused: an operator has the conversation then. `ReservedWithinStock` is stated for restocks; a
write-off does not look at `reserved_qty` (hazard at `catalog/service.py:229`).

### Findings

1. `orders_resubmitted`: reject gives the units back, a second receipt takes none; the order under
   review holds nothing (`payments/service.py:148-157`, `63-78`; against `orders/repository.py:33`).
2. `orders_half_done`: a refused `create_order` of the agent leaves the old order cancelled
   (`ai/tools.py:1208-1214`; against `ai/tools.py:1190`).
3. `orders_revived`: a cancelled order takes a receipt, and the approval confirms it
   (`payments/service.py:63-78`, `89-115`; against `orders/repository.py:48`).
4. `responder_again`: a message between `answered_upto` and the context gets two answers
   (`ai/agent.py:79`, `91`; against `ai/service.py:91`).
5. `responder_talkover`: the pause is not looked at again before the reply is sent (`ai/agent.py:69`,
   `151`; against `src/TZ_zargarlik_ai_seller_crm.md:114`).
6. `inbox_overtaken`: a message whose transaction began earlier and ended later than another's is taken for an
   older one, and the task of the newer one is over before it is there (`inbox/repository.py:98`,
   `core/base_model.py:32`; against `ai/service.py:115`).

What the properties name as exceptions is what the code does, too: two overlapping requests lose a reservation or
leave a customer two orders (`blurred`, `doubled`), two replacements the lines of both (`mixed`), two
confirmations spend one link twice (`raced`), two choices leave two primary cards (`torn`), a death between
INCR and EXPIRE locks an address out (`crashed`), a changed secret silences the bot until it is registered by hand
(`moved`), a settled order is asked to be paid (`settled`). Met while modelling and checked by no run:
a link stays valid after its order was superseded (`orders/service.py:62-65` says it does not); the seed
gives a system role back the codes that staff took away; an e-mail of a deleted user stays taken; the re-engagement
does not look at `ai_enabled`.

## 4. Theorems

All proofs are checked by TLAPS (SMT, Zenon, LS4) with no limit on orders, customers, rows, baskets,
payloads, requests, messages or tasks. Counters that the models bound (`MaxOrders`, `MaxEdits`, `MaxMishaps`,
`MaxCalls`, ...) are arbitrary natural numbers. Every safety invariant and action property of a passing run is
the subject of a theorem.

`OrdersProofs`:

| Theorem | Property | Assumes | Argument |
|---|---|---|---|
| `TypeCorrect` | `TypeOK` | nothing | inductive as it stands; the clamps keep `reserved` and `stock` natural |
| `NeverOverbooked` | `ReservedWithinStock` | corrections are restocks | inductive: a release only lowers, a sale lowers both sides by the same amount before the clamps (`LessMonotonic`), a booking passed `Fits` |
| `OneActivePerCustomer` | `OneActiveOrder` | the board makes no closed order active, owners are not edited | inductive: a new order empties `ActiveOf` first |
| `PaidBeforeShipped` | `ShippedIsPaid` | a board move into fulfilment starts in it | inductive: an approved payment is never rejected |
| `NoLeakedReservation` | `ReservedIsBacked` | no AI path, fixed catalogue | `Demand` over the live orders is a cardinality; lemmas split it over disjoint sets of orders and follow each release and booking |
| `ReplacedWhenSuperseded` | `SupersededIsReplaced` | no AI path | one step per action |
| `PaidStaysClosed` | `PaidIsClosed` | no revival by the board | inductive: an approved payment is not approved again, and no other handler makes its order active |
| `SoldOnce` | `StockFallsOnlyForSales` | restocks, fixed catalogue, no revival | with `PaidStaysClosed`: a paid order's basket cannot change, so what was sold for it still counts as its demand |

`ResponderProofs`:

| Theorem | Property | Assumes | Argument |
|---|---|---|---|
| `TypeCorrect` | `TypeOK` | nothing | inductive |
| `MarkEarned` | `MarkIsEarned` | nothing: any trouble, runs by hand included | `Earned`: a task that has passed its context has `upto <= seen`, and after its save `seen <= covered`; the mark is a past `upto` |
| `LockReleasedByOwner` | `OnlyOwnRelease` | nothing | one step per action |
| `OneReplyAtATime` | `OneAtATime` | no slow worker, no death, Redis up | `Locked`: a task is inside exactly when it has the lock |
| `RepliesAnswerSomethingNew` | `ImplementsReplyLog` | only the model and the broker may fail, no run by hand | `Noted` on top of `Locked`: while no reply waits for its mark, mark and frontier agree, and a task that began has its own message above them; each step is then a step of `ReplyLog` or a stutter |

The other modules, with no assumption beyond those their modules state of the constants (below):

| Theorem | Property | Argument |
|---|---|---|
| `AccessProofs!StaleExplained` | `StaleIsExplained` | inductive with `Newcomers` (who does not exist has no entry); `OwedKept`: what the others owe they still owe, since nobody but its own request ends a debt |
| `AccessProofs!AdminRestored` | `SeedRestoresAdmin` | follows from the types and `TablesAgree`: the seed writes the role, its codes and the membership whatever it finds |
| `BackOfficeProofs!StaysOut` | `LoggedOutStaysOut` | `Blacklisted`: a token that was logged out has its entry as long as it is `fresh`, for entry and token end together but for the last seconds |
| `BackOfficeProofs!UnheardExplained` | `UnheardIsExplained` | inductive with the types, which say whose secret a running registration has read |
| `BackOfficeProofs!EditsKept` | `SeedsKeepEdits` | the two actions that seed, looked at one by one; no invariant is needed |
| `BackOfficeProofs!NudgedOnce` | `NoSecondNudge` | `NudgeInv`: a customer who wrote last was not nudged since, and a conversation on two lists, or on one although it was nudged, is in `shared` |
| `SalesProofs!BriefHonoured` | `BriefIsHonoured` | `Fresh`: a brief that has not been taken back is the `Quote` of today's rows; then `Quote` and `Charge` agree, case by case |
| `SalesProofs!AskedForWhatIsDue` | `AsksForWhatIsDue` | `SaleInv`: a request that is not stale has read what the rows say (`ReadTrue`), and what it is about to tell is what they say (`TellTrue`); a commit marks every other reader of its rows |
| `SalesProofs!TotalsAgree` | `TotalIsLines` | `LinesOf`: a step leaves lines and total of a bill alone, makes it a bill of one line with that line's value, or two replacements met and `mixed` says so; the sums of no line and of one (`SumOfNone`, `SumOfOne`) |
| `InboxProofs!NothingIsLost` | `NothingLost` | `KeptInv`: a request is past an event only if that has arrived, and a payload has its 200 only when a request was past all its events |
| `InboxProofs!UnreadExplained` | `UnreadIsExplained` | the unread rows are a cardinality, followed through each commit (`Added`, `Attended`, `MarkedRead`); a save on the count it read adds one row and one to the count, any other writer of the count marks `skewed` |
| `InboxProofs!FewOpen` | `OpenAtMostWorkers` | `OpenInv`: the open conversations and the requests that are about to open one are together no more than the workers. The property alone is not inductive |
| `InboxProofs!UnansweredOvertaken` | `UnansweredWasOvertaken` | `TasksInv`: a message that is neither answered nor overtaken leaves its conversation's last message with a task in the queue, about to be there, lost with its request or refused by the broker |
| `CatalogProofs!BooksBalance` | `BookedIsOpen` | `BookInv`: `Referred` (a line names rows that are or were there), `Looks` (a release finds the rows that the booking took, outside `blurred`), `Counted` (what a request is going to commit is the sum over the other orders and its own line), beside the property |
| `CatalogProofs!OneOrderOpen` | `OneOpenOrder` | `Alone`: a request that has seen no rival closes every other open order of its customer |
| `FrontOfficeProofs!OnePrimary` | `OnePrimaryCard` | `AllDifferentCleared`: a request that is not stale clears every primary card but its own |
| `FrontOfficeProofs!SpentOnce` | `LinkSpentOnce` | `Noted`: two requests with one link are in `raced`, and a link is used under an open request only there |
| `FrontOfficeProofs!ToldAndStored` | `ParcelIsAsTold` | `AsRead`: a column is as it is to be answered, or among those to be written, unless the request is stale; `ChangesLeadToValues` |
| `FrontOfficeProofs!ShownAsArrived` | `InboxShowsWhatArrived` | `SoFar`: while a sender is calling, all calls whose answer is looked at have arrived, and the one that is not looked at is the last |
| `FrontOfficeProofs!RightJewelShown` | `RightJewel` | `Learned`: a row has the webhook id of another story only if that story is in `unsure` |

Types and composition:

| Theorem | Property | Argument |
|---|---|---|
| `SalesProofs!OfferTyped`, `InboxProofs!InboxTyped`, `CatalogProofs!CatalogTyped` | | each part's own type invariant. `Offer`'s is inductive. `Inbox`' needs `Begins` and `Rooted`: what requests and rows hold is not later than the clock, though the clock is set back when the latest request fails. `Catalog`'s needs `Rooms`: what a request will write fits the rows it names |
| `BackOfficeProofs!BackOfficeParts`, `FrontOfficeProofs!FrontOfficeParts` | | `Spec` of the MC module implies the specification of each part, its fairness included: a step of the composition is a step of one part and a stutter of the others |
| `BackOfficeProofs!BackOfficeTyped`, `FrontOfficeProofs!FrontOfficeTyped` | `TypeOK` | by the parts: the type theorems of the parts hold of the composition through the theorem above. `Reengagement`'s needs that places are ranks: `Active` moves a conversation to the last one and keeps them an injection |

So a theorem about a part alone is a theorem about the module that TLC runs, which is the reason for
proving the composition: the parts' invariants are stated and proved in their own variables.

Sums and counts. Totals and reservations are sums over finite sets (`SumFunctionOnSet`), which the community
modules define by folding. An induction theorem cannot be cited here, since it takes an operator as a
parameter. `SumsExist` in `CatalogProofs` shows that a fold over a finite set is what its equations say by
taking a least subset for which no function solves them (`LeastSubset`) and extending the function of a smaller one;
`SumTake` and `SumPart` are what the proof of `BooksBalance` cites. Counters of `Inbox` are cardinalities and need none of it.

Assumptions on constants, all named in the module that declares them and evaluated by TLC:

* `OrdersAssumption`, `ResponderAssumption`: bounds are natural numbers, sets of customers and baskets not empty.
* `AccessAssumption`: the administrator and `Super Admin` exist, codes are among those of the source. `TablesAgree`
  is about the literal tables of the source.
* `SessionsAssumption`: there is an account, the login limit and the number of calls are positive.
  `ReengagementAssumption`: conversations are finite in number. `ConfigurationAssumption`: `None` is no bot or
  secret; settings and prompts have different keys.
* `SaleAssumption`: the value of a line is a natural number. `OfferAssumption`: so are prices; the unset marker is none.
* `InboxAssumption`: a payload has at least one event, requests at a time are finite in number.
* `CatalogAssumption`: quantities are positive (`Field(ge=1)`), stock levels natural, variants and boxes different rows.
* `CheckoutAssumption`, `StoriesAssumption`, `OutboxAssumption`: markers are no values; a message takes at least one call.

Only model-checked, because they need fairness and ENABLED, which this prover cannot reason about:
`EveryMessageSettled`, `CacheConverges`, `LockEnds`, `FewQuietAreAllReached`, `PayloadsGetThrough`. The violations
are TLC's, too. No proof uses ENABLED or induction over data, and no module declares a RECURSIVE operator.

## 5. Plan and what is not modelled

Done: all modules of section 2, their runs and theorems. Left, in the order of what it would add:

1. `Inbox` composed with `Responder` instead of the agent seen from afar, so that the lock and the mark of two open
   conversations of one customer meet; `Outbox` as a refinement of the single `Send` of `Responder`.
2. `replace_items` and `reject` with the grain of `Catalog`; links that outlive their order in `Checkout`.

Not modelled, and why:

* catalogue search, analytics, audit, file storage: reads, append-only rows and uploads without rules of their own;
  the ranking is the database's;
* the model client and the prompts' text: external, or wording; the model's answers are choices of `Responder`;
* payload parsing, signatures, the cryptography of tokens and passwords: computations over strings and bytes;
* the distance and the bounding box of `delivery/geo.py`: floating point; a point is what they say of it;
* schemas, demos, self tests, migrations and deployment: declarations, scripts and configuration. The self tests were
  read for what the program is expected to do.

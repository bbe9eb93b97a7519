------------------------------ MODULE Stories -------------------------------
(***************************************************************************)
(* Which product a customer means who answers a story or sends a post: the *)
(* media rows of the catalogue, the two names Instagram gives a story, and *)
(* what resolve_instagram_media learns from a reply.                       *)
(*                                                                         *)
(* A story has a share id, in its link and in the media row, and another   *)
(* id in the webhook of a reply.  The Graph API knows both while the story *)
(* is on; the catalogue keeps the second one once it has met it.  When the *)
(* Graph API is of no help and one registered story is alive, it is taken  *)
(* to be the one, and the guess is kept.  A post or a reel, which has the  *)
(* shortcode of its link only, is a story nobody answers.                  *)
(***************************************************************************)
EXTENDS Naturals, FiniteSets

CONSTANTS
    Story,      \* stories that the shop publishes
    Jewel,      \* products
    Nothing     \* NULL

ASSUME StoriesAssumption == Nothing \notin Story \cup Jewel

VARIABLES
    onAir,      \* per story: coming, live (the Graph API lists it) or over
    media,      \* the product_media row of each story, <<>> when there is none
    delisted,   \* products that are deleted
    astray,     \* history: stories for which a customer was shown another product than the one of their row
    unsure      \* history: stories that were asked about while Graph was silent or the row was not to be found

storyVars == <<onAir, media, delisted, astray, unsure>>

MediaRow == [product : Jewel, external : Story \cup {Nothing}, active : BOOLEAN, expired : BOOLEAN]

\* story_ref and shortcode are unique: one row for each story.
Row(p) == [product |-> p, external |-> Nothing, active |-> TRUE, expired |-> FALSE]

\* Every variable keeps its type, and a row learns the ids of stories.
StoriesTypeOK ==
    /\ onAir \in [Story -> {"coming", "live", "over"}]
    /\ media \in [Story -> MediaRow \cup {<<>>}]
    /\ delisted \subseteq Jewel /\ unsure \subseteq Story /\ astray \subseteq Story

-----------------------------------------------------------------------------

\* Instagram itself.
Publish(s) ==
    /\ onAir[s] = "coming"
    /\ onAir' = [onAir EXCEPT ![s] = "live"]
    /\ UNCHANGED <<media, delisted, astray, unsure>>

GoOff(s) ==
    /\ onAir[s] = "live"
    /\ onAir' = [onAir EXCEPT ![s] = "over"]
    /\ UNCHANGED <<media, delisted, astray, unsure>>

\* The 24 hours of a row start when it is added, so that it may outlive its story.
AddInstagramMedia(p, s) ==
    /\ p \notin delisted
    /\ onAir[s] # "coming" /\ media[s] = <<>>
    /\ media' = [media EXCEPT ![s] = Row(p)]
    /\ UNCHANGED <<onAir, delisted, astray, unsure>>

RowExpires(s) ==
    /\ media[s] # <<>> /\ ~media[s].expired
    /\ media' = [media EXCEPT ![s].expired = TRUE]
    /\ UNCHANGED <<onAir, delisted, astray, unsure>>

UpdateInstagramMedia(s, active) ==
    /\ media[s] # <<>>
    /\ media' = [media EXCEPT ![s].active = active]
    /\ UNCHANGED <<onAir, delisted, astray, unsure>>

DeleteInstagramMedia(s) ==
    /\ media[s] # <<>>
    /\ media' = [media EXCEPT ![s] = <<>>]
    /\ UNCHANGED <<onAir, delisted, astray, unsure>>

Delist(p) ==
    /\ delisted' = delisted \cup {p}
    /\ UNCHANGED <<onAir, media, astray, unsure>>

-----------------------------------------------------------------------------

Usable(s) == media[s] # <<>> /\ media[s].active /\ ~media[s].expired /\ media[s].product \notin delisted

\* get_ig_media_by_ref: the share id and the webhook id of s are two references.
ByShareId(s) == {r \in {s} : Usable(r)}
ByWebhookId(s) == {r \in Story : Usable(r) /\ media[r].external = s}

StoryFromGraphAny(s, graph) == IF graph THEN {r \in Story : onAir[r] = "live" /\ Usable(r)} ELSE {}

StoryFromGraph(s, graph) == IF graph /\ onAir[s] = "live" THEN ByShareId(s) ELSE {}

OnlyActiveStory ==
    LET alive == {r \in Story : Usable(r)} IN IF Cardinality(alive) = 1 THEN alive ELSE {}

\* The customer who asked about s is shown found.
Show(s, found) ==
    LET meant == IF media[s] = <<>> THEN Nothing ELSE media[s].product IN
    astray' = IF found \in {meant, Nothing} THEN astray ELSE astray \cup {s}

\* A customer sends the link of s.  A link is never guessed.
ResolveLink(s) ==
    /\ onAir[s] # "coming"
    /\ Show(s, IF Usable(s) THEN media[s].product ELSE Nothing)
    /\ UNCHANGED <<onAir, media, delisted, unsure>>

\* A customer answers story s.  The same webhook id may have been learned by two rows: the query takes either.
ResolveReply(s, graph) ==
    /\ onAir[s] # "coming"
    /\ unsure' = IF graph /\ onAir[s] = "live" /\ Usable(s) THEN unsure ELSE unsure \cup {s}
    /\ LET found == IF StoryFromGraph(s, graph) # {} THEN StoryFromGraph(s, graph) ELSE OnlyActiveStory IN
       \/ \E r \in ByWebhookId(s) : Show(s, media[r].product) /\ UNCHANGED media
       \/ /\ ByWebhookId(s) = {}
          /\ \E r \in found :
                /\ Show(s, media[r].product)
                /\ media' = [media EXCEPT ![r].external = s]
       \/ /\ ByWebhookId(s) = {} /\ found = {}
          /\ Show(s, Nothing)
          /\ UNCHANGED media
    /\ UNCHANGED <<onAir, delisted>>

-----------------------------------------------------------------------------

StoriesInit ==
    /\ onAir = [s \in Story |-> "coming"]
    /\ media = [s \in Story |-> <<>>]
    /\ delisted = {} /\ unsure = {} /\ astray = {}

StoriesNext ==
    \/ \E s \in Story :
          \/ Publish(s) \/ GoOff(s) \/ RowExpires(s) \/ DeleteInstagramMedia(s) \/ ResolveLink(s)
          \/ \E p \in Jewel : AddInstagramMedia(p, s)
          \/ \E b \in BOOLEAN : UpdateInstagramMedia(s, b) \/ ResolveReply(s, b)
    \/ \E p \in Jewel : Delist(p)

StoriesSpec == StoriesInit /\ [][StoriesNext]_storyVars

-----------------------------------------------------------------------------

\* "noto'g'ri mahsulotni ko'rsatmaslik uchun": a customer is shown the jewel of the story that was answered, whatever
\* rows were added, expired, switched off or replaced before.  Another one only when that story was once asked about
\* while Graph did not answer or its row was not there to be found, which is when resolve_instagram_media guesses.
RightJewel == astray \subseteq unsure
=============================================================================

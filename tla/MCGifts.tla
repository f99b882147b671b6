------------------------------- MODULE MCGifts -------------------------------
(***************************************************************************)
(* The consumer side, on small instances: gifts over the address book,     *)
(* paid orders, the wishlist and the wall, reminders and digests.  They    *)
(* share no row, so a behaviour works on one of them: `focus' says which,  *)
(* and which of its operations overlap.                                    *)
(***************************************************************************)
EXTENDS GiftFulfilment, OrderPayment, GiftWall, WallFeed, Notifications, TLC

VARIABLE focus

giftSide == <<giftVars, orderVars, wallVars, feed, notificationVars, focus>>

MCDays == [r \in Reminders |-> 1]

\* The configuration uses the same two names for the callers of every
\* component, and the same two for bodies and presents; no definition tells them
\* apart.
MCSymmetry == Permutations(Parties) \cup Permutations(Bodies)

MCInit ==
    /\ GiftInit /\ OrderInit /\ WallInit /\ FeedInit /\ NotificationsInit
    /\ focus \in {"gift", "reads", "order", "hearts", "posts", "feed", "remind", "digest"}
    /\ occasion.on = 1 /\ (focus # "remind" => ~occasion.yearly)

\* A gift's requests in every order; then what is read of it in between, over an
\* address book that is filled once.
RequestsNext == GiftNext /\ (seen' = seen \/ <<status, act>>' # <<status, act>>)
ReadsNext ==
    /\ GiftNext
    /\ \A c \in OwnerCalls : \/ call'[c].pc \in {"idle", "resolve"}
                             \/ call'[c].pc = "create" /\ Saved = {}
    /\ UNCHANGED <<attempt, parcel>>

\* The wishlist and its counters; then the published posts.
HeartsNext == /\ WallNext
              /\ \A g \in Presents : ~post'[g].exists
              /\ \A t \in Taps : tap'[t].pc # "find"
PostsNext == /\ WallNext
             /\ hearts' = 0 /\ \A t \in Taps : tap'[t].pc \notin Hearting

\* Reminders, their claims and cleanups until one has released a claim; then alerts of every kind and the
\* digests that sum them up.
RemindNext ==
    /\ NotificationsNext
    /\ \A w \in Runners : runner'[w].pc # "digest" /\ runner'[w].cat \notin {"system", "security"}
    /\ UNCHANGED <<optOuts, digestOn>>
    /\ Len(inbox') <= 2 /\ occasion'.on >= occasion.on
    /\ cleaner' = NoCleanup \/ \A k \in FiringKeys : releases[k] = 0
    /\ enabled' = Reminders \/ occasion'.live
    /\ occasion.yearly => occasion' = occasion /\ enabled' = enabled
DigestNext ==
    /\ NotificationsNext
    /\ \A w \in Runners : runner'[w].pc # "scan"
    /\ UNCHANGED <<occasion, enabled, today>> /\ optOuts' \subseteq {"system"}

MCNext ==
    \/ focus = "gift" /\ RequestsNext /\ UNCHANGED <<orderVars, wallVars, feed, notificationVars, focus>>
    \/ focus = "reads" /\ ReadsNext /\ UNCHANGED <<orderVars, wallVars, feed, notificationVars, focus>>
    \/ focus = "order" /\ OrderNext /\ UNCHANGED <<giftVars, wallVars, feed, notificationVars, focus>>
    \/ focus = "hearts" /\ HeartsNext /\ UNCHANGED <<giftVars, orderVars, feed, notificationVars, focus>>
    \/ focus = "posts" /\ PostsNext /\ UNCHANGED <<giftVars, orderVars, feed, notificationVars, focus>>
    \/ focus = "feed" /\ FeedNext /\ UNCHANGED <<giftVars, orderVars, wallVars, notificationVars, focus>>
    \/ focus = "remind" /\ RemindNext /\ UNCHANGED <<giftVars, orderVars, wallVars, feed, focus>>
    \/ focus = "digest" /\ DigestNext /\ UNCHANGED <<giftVars, orderVars, wallVars, feed, focus>>

MCSpec == MCInit /\ [][MCNext]_giftSide
=============================================================================

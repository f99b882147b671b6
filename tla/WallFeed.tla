------------------------------ MODULE WallFeed ------------------------------
(***************************************************************************)
(* How the posts of an owner become the entries of a wall                  *)
(* (collapseGiftPostGroups, listMine and listByUser of                     *)
(* gift-posts.service.ts).  Posts appear at the top and are withdrawn from *)
(* anywhere.                                                               *)
(***************************************************************************)
EXTENDS Naturals, Sequences, FiniteSets, SequencesExt

CONSTANTS
    Buckets,     \* pairs of direction and product
    MaxFeed      \* bound on the posts

NoProduct == "no product"

ASSUME FeedAssumption == MaxFeed \in Nat /\ NoProduct \notin Buckets

VARIABLE feed    \* the rows of the query, the newest first

FeedInit == feed = <<>>

\* The post of a gift is published; gifts of free text have no product.
PostAppears(b) ==
    \E id \in 1..MaxFeed :
        /\ \A i \in DOMAIN feed : feed[i].id # id
        /\ feed' = <<[id |-> id, bucket |-> b]>> \o feed

PostWithdrawn(i) == feed' = RemoveAt(feed, i)

FeedNext ==
    \/ \E b \in Buckets \cup {NoProduct} : PostAppears(b)
    \/ \E i \in DOMAIN feed : PostWithdrawn(i)

FeedSpec == FeedInit /\ [][FeedNext]_feed

-----------------------------------------------------------------------------
BucketsAll(a, b) == a.bucket = b.bucket

SameBucket(a, b) == a = b \/ (a.bucket = b.bucket /\ a.bucket # NoProduct)

AddToGroups(groups, row) ==
    LET i == SelectInSeq(groups, LAMBDA e : SameBucket(e.row, row))
    IN IF i = 0 THEN Append(groups, [row |-> row, eventCount |-> 1])
       ELSE [groups EXCEPT ![i].eventCount = @ + 1]

CollapseGiftPostGroups(rows) == FoldLeft(AddToGroups, <<>>, rows)

-----------------------------------------------------------------------------
\* The rows of the query, by the key of the table.
FeedRows == [id : 1..MaxFeed, bucket : Buckets \cup {NoProduct}]
FeedFits ==
    /\ feed \in Seq(FeedRows)
    /\ \A i, j \in DOMAIN feed : feed[i].id = feed[j].id => i = j

Wall == CollapseGiftPostGroups(feed)
Place(row) == CHOOSE i \in DOMAIN feed : feed[i] = row

\* The wall shows "at most ONE entry per (ownerUserId, direction, productId)",
\* the newest post of its bucket, with the size of the bucket, in the order of
\* the posts; a post without a product stands alone, and no post is lost.
WallCollapsesByProduct ==
    /\ \A k \in DOMAIN Wall :
          LET r == Wall[k].row
              mates == {i \in DOMAIN feed : feed[i].bucket = r.bucket}
          IN IF r.bucket = NoProduct THEN Wall[k].eventCount = 1
             ELSE Wall[k].eventCount = Cardinality(mates) /\ \A i \in mates : Place(r) <= i
    /\ \A k, l \in DOMAIN Wall : k < l =>
          /\ Place(Wall[k].row) < Place(Wall[l].row)
          /\ Wall[k].row.bucket = Wall[l].row.bucket => Wall[k].row.bucket = NoProduct
    /\ FoldSeq(LAMBDA e, n : e.eventCount + n, 0, Wall) = Len(feed)
=============================================================================

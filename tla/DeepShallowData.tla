--------------------------- MODULE DeepShallowData ---------------------------
(***************************************************************************)
(* deep_shallow/bucket_data.hpp and anchor_data.hpp: what the serial and   *)
(* the parallel Deep-Shallow constructor share.                            *)
(*                                                                         *)
(* A bucket is the set of suffixes that begin with two given characters.   *)
(* The text is cut into segments of SegmentLength positions; the anchor of *)
(* a segment is the leftmost suffix in it whose bucket has been sorted,    *)
(* with its position in the suffix array.                                  *)
(***************************************************************************)
EXTENDS SaisText

CONSTANTS
  Texts,
  K,                 \* alphabet size with the sentinel
  SegmentLength      \* SEGMENT_LENGTH (550 in the code)

ASSUME DataAssumption ==
  /\ K \in Nat \ {0}
  /\ SegmentLength \in Nat \ {0}
  /\ \A x \in Texts :
       /\ x \in Seq(0 .. K - 1)
       /\ Len(x) > 0
       /\ \A p \in Positions(x) : At(x, p) = 0 <=> p = Len(x) - 1

Characters == 0 .. K - 1
Buckets == Characters \X Characters

\* The bucket of a suffix; the last suffix, of one character, is padded.
BucketOf(x, p) ==
  << At(x, p), IF p + 1 < Len(x) THEN At(x, p + 1) ELSE 0 >>

Before(a, b) == a[1] < b[1] \/ (a[1] = b[1] /\ a[2] < b[2])

start_of_bucket(x, b) ==
  Cardinality({ p \in Positions(x) : Before(BucketOf(x, p), b) })

end_of_bucket(x, b) ==
  Cardinality({ p \in Positions(x) : ~Before(b, BucketOf(x, p)) })

size_of_bucket(x, b) == end_of_bucket(x, b) - start_of_bucket(x, b)

\* The cells of the suffix array that belong to a bucket.
CellsOf(x, b) == start_of_bucket(x, b) .. end_of_bucket(x, b) - 1

\* bucketsort_presort: sorted by two characters, in text order in a bucket.
Presorted(x) ==
  [ c \in Positions(x) |->
      CHOOSE p \in Positions(x) :
        c = Cardinality({ q \in Positions(x) :
              \/ Before(BucketOf(x, q), BucketOf(x, p))
              \/ BucketOf(x, q) = BucketOf(x, p) /\ q < p }) ]

\* The smallest of the buckets that are left; which one, when there are
\* several, is up to the (unstable) introsort of sorting_order.
get_smallest_bucket(x, left) ==
  { b \in left : \A d \in left : size_of_bucket(x, b) <= size_of_bucket(x, d) }

\* Sorted by the whole suffixes in the given cells, and as before elsewhere.
SortedIn(x, array, cells) ==
  LET members == { array[c] : c \in cells }
      first == CHOOSE c \in cells : \A d \in cells : c <= d
      rank(p) == Cardinality({ q \in members : SuffixLess(x, q, p) })
  IN  [ c \in Positions(x) |->
          IF c \in cells THEN CHOOSE p \in members : rank(p) = c - first
          ELSE array[c] ]

-----------------------------------------------------------------------------
(* anchor_data *)

Null == -1

Segment(p) == p \div SegmentLength
Segments(x) == 0 .. Len(x) \div SegmentLength

NoAnchors(x) == [ g \in Segments(x) |-> [ relative |-> Null, position |-> 0 ] ]

\* Faulty variant: a new anchor always replaces the old one, and its position
\* is kept.
update_anchor_KeepsPosition(anchors, suffix, position_in_sa) ==
  [ anchors EXCEPT ![Segment(suffix)] =
      IF @.relative = Null
        THEN [ relative |-> suffix % SegmentLength, position |-> position_in_sa ]
        ELSE IF suffix % SegmentLength < @.relative
        THEN [ @ EXCEPT !.relative = suffix % SegmentLength ]
        ELSE @ ]

update_anchor(anchors, suffix, position_in_sa) ==
  [ anchors EXCEPT ![Segment(suffix)] =
      IF @.relative = Null \/ suffix % SegmentLength < @.relative
        THEN [ relative |-> suffix % SegmentLength, position |-> position_in_sa ]
        ELSE @ ]

\* The loop over a sorted bucket: afterwards a segment's anchor is the old one
\* or the bucket's leftmost suffix in the segment.
update_anchors(x, anchors, array, b) ==
  LET inSegment(g) == { c \in CellsOf(x, b) : Segment(array[c]) = g }
      leftmost(g) ==
        CHOOSE c \in inSegment(g) : \A d \in inSegment(g) : array[c] <= array[d]
  IN  [ g \in Segments(x) |->
          IF inSegment(g) = {} THEN anchors[g]
          ELSE update_anchor(anchors, array[leftmost(g)], leftmost(g))[g] ]

get_leftmost_position(anchors, suffix) ==
  Segment(suffix) * SegmentLength + anchors[Segment(suffix)].relative

HasAnchor(anchors, suffix) == anchors[Segment(suffix)].relative # Null

\* An anchor is the leftmost suffix of the sorted buckets in its segment, and
\* its position is that suffix's final one.
AnchorsAreFinal(x, anchors, finished) ==
  \A g \in Segments(x) :
    LET sorted == { p \in Positions(x) : Segment(p) = g /\ BucketOf(x, p) \in finished }
    IN  IF anchors[g].relative = Null THEN sorted = {}
        ELSE LET p == g * SegmentLength + anchors[g].relative
             IN  /\ p \in sorted
                 /\ \A q \in sorted : p <= q
                 /\ anchors[g].position = Rank(x, p)

=============================================================================

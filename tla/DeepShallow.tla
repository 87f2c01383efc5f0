----------------------------- MODULE DeepShallow -----------------------------
(***************************************************************************)
(* deep_shallow/saca_run_serial.hpp.  The suffixes are bucketed by their   *)
(* first two characters and the buckets sorted one after the other, the    *)
(* smallest first.  A bucket is first sorted by at most DeepSortDepth      *)
(* characters (shallow_sort); every group of suffixes that agree so far is *)
(* then sorted by deep_sort.  deep_sort first looks for an anchor to the   *)
(* right of one of its suffixes, at a distance (relation) shorter than the *)
(* common prefix: the suffixes at that distance have been sorted with the  *)
(* anchor's bucket, so the group only has to be put in their order.  To    *)
(* find them the code walks from the anchor to both sides and marks them   *)
(* with a bit of the suffix array.                                         *)
(***************************************************************************)
EXTENDS DeepShallowData

CONSTANT DeepSortDepth          \* DEEP_SORT_DEPTH (500 in the code)

ASSUME DepthAssumption == DeepSortDepth \in Nat \ {0, 1}

VARIABLES
  s,
  suffix_array,
  left,          \* buckets not yet taken from sorting_order
  current,       \* the bucket being sorted, or NoBucket
  groups,        \* first and end cell of the groups deep_sort is still to sort
  ad,            \* the anchors
  finished,      \* buckets with two or more suffixes that are sorted
  search,        \* the walk of try_induced_sort, or NoSearch
  tagged,        \* the cells of suffix_array with the tag bit
  phase          \* "new", "buckets" or "done"

vars == << s, suffix_array, left, current, groups, ad, finished, search, tagged, phase >>

n == Len(s)
NoBucket == << >>
NoSearch == << >>

Init ==
  /\ s \in Texts
  /\ suffix_array = [ c \in Positions(s) |-> c ]
  /\ left = Buckets
  /\ current = NoBucket
  /\ groups = {}
  /\ ad = NoAnchors(s)
  /\ finished = {}
  /\ search = NoSearch
  /\ tagged = {}
  /\ phase = "new"

\* Texts of one or two characters.
SortSmallText ==
  /\ phase = "new"
  /\ n < 3
  /\ suffix_array' = SortedIn(s, suffix_array, Positions(s))
  /\ phase' = "done"
  /\ UNCHANGED << s, left, current, groups, ad, finished, search, tagged >>

bucket_sort ==
  /\ phase = "new"
  /\ n >= 3
  /\ suffix_array' = Presorted(s)
  /\ phase' = "buckets"
  /\ UNCHANGED << s, left, current, groups, ad, finished, search, tagged >>

\* Buckets of fewer than two suffixes come first and are left alone.
SkipSmallBuckets ==
  LET small == { b \in left : size_of_bucket(s, b) < 2 }
  IN  /\ phase = "buckets"
      /\ small # {}
      /\ left' = left \ small
      /\ UNCHANGED << s, suffix_array, current, groups, ad, finished, search, tagged, phase >>

\* A bucket of two suffixes is sorted directly.
SortPair ==
  \E b \in get_smallest_bucket(s, left) :
    /\ phase = "buckets"
    /\ current = NoBucket
    /\ size_of_bucket(s, b) = 2
    /\ suffix_array' = SortedIn(s, suffix_array, CellsOf(s, b))
    /\ left' = left \ { b }
    /\ current' = b
    /\ UNCHANGED << s, groups, ad, finished, search, tagged, phase >>

\* Suffixes p and q agree in d characters.
Agree(p, q, d) ==
  \A j \in 0 .. d - 1 : p + j < n /\ q + j < n /\ At(s, p + j) = At(s, q + j)

Class(members, p, d) == { q \in members : q = p \/ Agree(p, q, d) }
Classes(members, d) == { Class(members, p, d) : p \in members }

\* Multikey quicksort hands deep_sort the suffixes that agree in DeepSortDepth
\* characters; a class that its pivots leave alone one character earlier goes
\* on to the next character first and is handed over in smaller classes.  Of
\* the classes that part at that character at least one is left alone, and
\* at least one is not, as it has the pivot.
GroupsPossible(members) ==
  LET together == Classes(members, DeepSortDepth)
      parting(A) == { C \in together : C \subseteq A }
  IN  { (together \ alone) \cup UNION { Classes(C, DeepSortDepth + 1) : C \in alone } :
          alone \in { X \in SUBSET together :
            \A A \in Classes(members, DeepSortDepth - 1) :
              /\ parting(A) \cap X # {}
              /\ Cardinality(parting(A)) > 1 => ~(parting(A) \subseteq X) } }

\* shallow_sort: the bucket in the order of its groups; the members of a group
\* are in any order, of which the text order stands for all, as deep_sort
\* below makes its choices whatever the order.
shallow_sort ==
  \E b \in get_smallest_bucket(s, left) :
    LET members == { suffix_array[c] : c \in CellsOf(s, b) }
    IN  /\ phase = "buckets"
        /\ current = NoBucket
        /\ size_of_bucket(s, b) > 2
        /\ \E partition \in GroupsPossible(members) :
             LET mates(p) == CHOOSE C \in partition : p \in C
                 first(p) == start_of_bucket(s, b) + Cardinality(
                   { q \in members : SuffixLess(s, q, p) /\ q \notin mates(p) })
                 cell(p) == first(p) + Cardinality({ q \in mates(p) : q < p })
             IN  /\ suffix_array' =
                      [ c \in Positions(s) |->
                          IF c \in CellsOf(s, b)
                            THEN CHOOSE p \in members : cell(p) = c
                            ELSE suffix_array[c] ]
                 /\ groups' =
                      { << first(p), first(p) + Cardinality(mates(p)) >> :
                          p \in { q \in members : Cardinality(mates(q)) > 1 } }
        /\ left' = left \ { b }
        /\ current' = b
        /\ UNCHANGED << s, ad, finished, search, tagged, phase >>

-----------------------------------------------------------------------------
(* deep_sort and try_induced_sort *)

Members(g) == { suffix_array[c] : c \in g[1] .. g[2] - 1 }

\* The anchor of si's segment lies to its right, in the common prefix.
Suitable(si) ==
  LET leftmost_suffix == get_leftmost_position(ad, si)
  IN  /\ HasAnchor(ad, si)
      /\ si < leftmost_suffix
      /\ leftmost_suffix < si + DeepSortDepth

\* Two suffixes are compared; a group without a suitable anchor is sorted with
\* a trie or by comparison, depending on its size.
SortGroup(g) ==
  /\ search = NoSearch
  /\ g[2] - g[1] = 2 \/ \A si \in Members(g) : ~Suitable(si)
  /\ suffix_array' = SortedIn(s, suffix_array, g[1] .. g[2] - 1)
  /\ groups' = groups \ { g }
  /\ UNCHANGED << s, left, current, ad, finished, search, tagged, phase >>

\* Found an anchor: its cell is marked first.
StartSearch(g, si) ==
  LET leftmost_suffix == get_leftmost_position(ad, si)
      sorted_bucket == ad[Segment(si)].position
      b == BucketOf(s, leftmost_suffix)
  IN  /\ search = NoSearch
      /\ g[2] - g[1] > 2
      /\ Suitable(si)
      /\ tagged' = { sorted_bucket }
      /\ search' = [ group |-> g,
                     relation |-> leftmost_suffix - si,
                     sorted_bucket |-> sorted_bucket,
                     left_bucket_bound |-> start_of_bucket(s, b),
                     right_bucket_bound |-> end_of_bucket(s, b),
                     leftmost |-> sorted_bucket,
                     dist |-> 0 ]
      /\ UNCHANGED << s, suffix_array, left, current, groups, ad, finished, phase >>

Contains(cell) ==
  suffix_array[cell] - search.relation \in Members(search.group)

GroupSize == search.group[2] - search.group[1]

\* Faulty variant: only looks to the right of the anchor.
look_at_RightOnly ==
  LET dist == search.dist + 1
      r == search.sorted_bucket + dist
      foundRight == r < search.right_bucket_bound /\ Contains(r)
  IN  /\ search # NoSearch
      /\ Cardinality(tagged) # GroupSize
      /\ search.dist < n
      /\ tagged' = tagged \cup (IF foundRight THEN { r } ELSE {})
      /\ search' = [ search EXCEPT !.dist = dist ]
      /\ UNCHANGED << s, suffix_array, left, current, groups, ad, finished, phase >>

\* look_at(dist + 1), while not all of the group is marked.
look_at ==
  LET dist == search.dist + 1
      l == search.sorted_bucket - dist
      r == search.sorted_bucket + dist
      foundLeft == l >= search.left_bucket_bound /\ Contains(l)
      foundRight == r < search.right_bucket_bound /\ Contains(r)
  IN  /\ search # NoSearch
      /\ Cardinality(tagged) # GroupSize
      /\ search.dist < n
      /\ tagged' = tagged \cup (IF foundLeft THEN { l } ELSE {})
                          \cup (IF foundRight THEN { r } ELSE {})
      /\ search' = [ search EXCEPT !.dist = dist,
                                   !.leftmost = IF foundLeft THEN l ELSE @ ]
      /\ UNCHANGED << s, suffix_array, left, current, groups, ad, finished, phase >>

\* Farther from the anchor than the text is long: the loop goes on, finds
\* nothing and changes nothing but the distance.
LookBeyondText ==
  /\ search # NoSearch
  /\ Cardinality(tagged) # GroupSize
  /\ search.dist = n
  /\ UNCHANGED vars

\* The marked cells in their order, from leftmost on.
Marked(k) ==
  CHOOSE c \in tagged :
    c >= search.leftmost /\ Cardinality({ d \in tagged : d < c }) = k

\* The array with the group in that order.
Induced(relation) ==
  [ c \in Positions(s) |->
      IF c \in search.group[1] .. search.group[2] - 1
        THEN suffix_array[Marked(c - search.group[1])] - relation
        ELSE suffix_array[c] ]

\* Faulty variant: the relation is not subtracted.
Traverse_NoRelation ==
  /\ search # NoSearch
  /\ Cardinality(tagged) = GroupSize
  /\ suffix_array' = Induced(0)
  /\ tagged' = {}
  /\ groups' = groups \ { search.group }
  /\ search' = NoSearch
  /\ UNCHANGED << s, left, current, ad, finished, phase >>

\* Faulty variant: the cells are taken in the order the search marked them,
\* the anchor's first.
Traverse_FromAnchor ==
  LET from(c) == (c - search.sorted_bucket) % n
      nth(k) == CHOOSE c \in tagged :
                  Cardinality({ d \in tagged : from(d) < from(c) }) = k
  IN  /\ search # NoSearch
      /\ Cardinality(tagged) = GroupSize
      /\ suffix_array' =
           [ c \in Positions(s) |->
               IF c \in search.group[1] .. search.group[2] - 1
                 THEN suffix_array[nth(c - search.group[1])] - search.relation
                 ELSE suffix_array[c] ]
      /\ tagged' = {}
      /\ groups' = groups \ { search.group }
      /\ search' = NoSearch
      /\ UNCHANGED << s, left, current, ad, finished, phase >>

\* All found: the marked cells from leftmost on, in their order, give the
\* order of the group; the marks are removed.
Traverse ==
  /\ search # NoSearch
  /\ Cardinality(tagged) = GroupSize
  /\ suffix_array' = Induced(search.relation)
  /\ tagged' = {}
  /\ groups' = groups \ { search.group }
  /\ search' = NoSearch
  /\ UNCHANGED << s, left, current, ad, finished, phase >>

-----------------------------------------------------------------------------
(* sort_all_buckets *)

\* Faulty variant: the bucket counts as sorted after shallow_sort.
FinishBucket_Early ==
  /\ current # NoBucket
  /\ search = NoSearch
  /\ ad' = update_anchors(s, ad, suffix_array, current)
  /\ finished' = finished \cup { current }
  /\ current' = NoBucket
  /\ UNCHANGED << s, suffix_array, left, groups, search, tagged, phase >>

FinishBucket ==
  /\ current # NoBucket
  /\ groups = {}
  /\ search = NoSearch
  /\ ad' = update_anchors(s, ad, suffix_array, current)
  /\ finished' = finished \cup { current }
  /\ current' = NoBucket
  /\ UNCHANGED << s, suffix_array, left, groups, search, tagged, phase >>

AllSorted ==
  /\ phase = "buckets"
  /\ left = {}
  /\ current = NoBucket
  /\ phase' = "done"
  /\ UNCHANGED << s, suffix_array, left, current, groups, ad, finished, search, tagged >>

Terminating == phase = "done" /\ UNCHANGED vars

DeepSort ==
  \/ \E g \in groups : SortGroup(g) \/ \E si \in Members(g) : StartSearch(g, si)
  \/ look_at \/ LookBeyondText \/ Traverse

Next ==
  \/ SortSmallText \/ bucket_sort
  \/ SkipSmallBuckets \/ SortPair \/ shallow_sort
  \/ DeepSort
  \/ FinishBucket \/ AllSorted \/ Terminating

Spec == Init /\ [][Next]_vars /\ WF_vars(Next)

-----------------------------------------------------------------------------
(* Properties *)

\* The constructor delivers the suffix array, by whatever mixture of direct
\* and induced sorting.
ResultIsSuffixArray == phase = "done" => suffix_array = SuffixArray(s)

\* Every suffix is in the array exactly once at any time: copying the order of
\* another bucket never duplicates or loses one.
EverySuffixOnce == { suffix_array[c] : c \in Positions(s) } = Positions(s)

\* The anchors lead to suffixes that are in their final place.
AnchorsLeadToSorted == AnchorsAreFinal(s, ad, finished)

\* A bucket that is sorted is never changed again, neither by an induced sort
\* that marks its cells nor by one of another bucket.
SortedBucketsStay ==
  [][\A c \in Positions(s) :
       BucketOf(s, suffix_array[c]) \in finished =>
         suffix_array'[c] = suffix_array[c]]_vars

\* A search from an anchor that leaves two characters of the common prefix, so
\* that all of the group's shifted suffixes are in the anchor's bucket, ends.
SearchEnds ==
  (search # NoSearch /\ search.relation + 2 <= DeepSortDepth) ~> (search = NoSearch)

\* "After construction, the suffix array construction is completed."
Completed == <>(phase = "done")

=============================================================================

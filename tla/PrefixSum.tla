------------------------------ MODULE PrefixSum ------------------------------
(***************************************************************************)
(* util/prefix_sum.hpp, par_prefix_sum: prefix sums on a binary tree kept  *)
(* in an array, node k with the children 2k and 2k + 1 and the input in    *)
(* the leaves.  An up pass adds the children, level by level; a down pass  *)
(* hands every node the sum of what is left of it.  The nodes of a level   *)
(* are the iterations of a parallel loop, whose end is a barrier.          *)
(*                                                                         *)
(* A sum is the sequence of its addends, so that an addend that is lost,   *)
(* doubled or out of order shows, as it would for an operation that is not *)
(* commutative.  An iteration loads its operands, then stores its results: *)
(* two steps, between which other iterations go on.                        *)
(***************************************************************************)
EXTENDS Integers, Sequences, FiniteSets

CONSTANTS
  Sizes,         \* the input sizes considered
  TeamSize       \* iterations in progress at a time

ASSUME SizesAssumption ==
  /\ Sizes \subseteq Nat \ {0}
  /\ TeamSize \in Nat \ {0}

VARIABLES
  size,          \* in.size()
  inclusive,
  tree,
  out,
  phase,         \* "up", "down", "copy" or "done"
  offset,
  todo,          \* iterations of the loop not started
  running        \* iterations that have loaded: the stores they will make

vars == << size, inclusive, tree, out, phase, offset, todo, running >>

identity == << >>
add(a, b) == a \o b
in == [ i \in 0 .. size - 1 |-> << i >> ]

\* A power of two has no odd divisor but 1.
is_power_of_two(p) == \A d \in 2 .. p : p % d = 0 => d % 2 = 0

next_power_of_two(v) == CHOOSE p \in v .. 2 * v - 1 : is_power_of_two(p)

corrected_len == size + (size % 2)
tree_size == next_power_of_two(size)
Nodes == 0 .. corrected_len + tree_size - 1

left_child(parent) == 2 * parent
right_child(parent) == 2 * parent + 1
parent_of_child(child) == child \div 2

AtMost(a, b) == IF a <= b THEN a ELSE b

\* Faulty variant: an iteration for every node instead of every pair.
UpIterations_EveryNode(off) == 0 .. AtMost(off, corrected_len) - 1

UpIterations(off) == { i \in 0 .. AtMost(off, corrected_len) - 1 : i % 2 = 0 }

layer_size(off) == IF off = tree_size \div 2 THEN corrected_len \div 2 ELSE off

\* The nodes an iteration writes in the up and in the down pass, and the nodes
\* it reads.
WritesOf(ph, off, i) ==
  IF ph = "up" THEN { parent_of_child(off + i) }
  ELSE LET j == off + layer_size(off) - i - 1 IN { left_child(j), right_child(j) }

ReadsOf(ph, off, i) ==
  IF ph = "up" THEN { off + i, off + i + 1 }
  ELSE LET j == off + layer_size(off) - i - 1 IN { j, left_child(j) }

Init ==
  /\ size \in Sizes
  /\ inclusive \in BOOLEAN
  /\ tree = [ k \in Nodes |->
                IF k - tree_size \in 0 .. size - 1 THEN in[k - tree_size] ELSE identity ]
  /\ out = [ i \in 0 .. size - 1 |-> identity ]
  /\ phase = "up"
  /\ offset = tree_size
  /\ todo = IF tree_size = 1 THEN {} ELSE UpIterations(tree_size)
  /\ running = {}

Start(i, stores) ==
  /\ Cardinality(running) < TeamSize
  /\ todo' = todo \ { i }
  /\ running' = running \cup { stores }
  /\ UNCHANGED << size, inclusive, tree, out, phase, offset >>

UpLoad ==
  \E i \in todo :
    LET j == offset + i
        k == offset + i + 1
    IN  /\ phase = "up"
        /\ Start(i, [ node \in { parent_of_child(j) } |-> add(tree[j], tree[k]) ])

\* Faulty variant: the operands are swapped.
DownLoad_Swapped ==
  \E i \in todo :
    LET j == layer_size(offset) - i - 1
        from_left == tree[offset + j]
        left_sum == tree[left_child(offset + j)]
    IN  /\ phase = "down"
        /\ Start(i, [ node \in { right_child(offset + j), left_child(offset + j) } |->
                        IF node = right_child(offset + j) THEN add(left_sum, from_left)
                        ELSE from_left ])

DownLoad ==
  \E i \in todo :
    LET j == layer_size(offset) - i - 1
        from_left == tree[offset + j]
        left_sum == tree[left_child(offset + j)]
    IN  /\ phase = "down"
        /\ Start(i, [ node \in { right_child(offset + j), left_child(offset + j) } |->
                        IF node = right_child(offset + j) THEN add(from_left, left_sum)
                        ELSE from_left ])

Store ==
  \E stores \in running :
    /\ tree' = [ k \in Nodes |-> IF k \in DOMAIN stores THEN stores[k] ELSE tree[k] ]
    /\ running' = running \ { stores }
    /\ UNCHANGED << size, inclusive, out, phase, offset, todo >>

LoopDone == todo = {} /\ running = {}

\* The next level of the up pass.
UpNext ==
  /\ phase = "up"
  /\ offset > 2
  /\ LoopDone
  /\ offset' = offset \div 2
  /\ todo' = UpIterations(offset \div 2)
  /\ UNCHANGED << size, inclusive, tree, out, phase, running >>

\* The root is set to the identity and the down pass begins; an input of one
\* element has no levels.
TurnAround ==
  /\ phase = "up"
  /\ offset <= 2
  /\ LoopDone
  /\ tree' = [ tree EXCEPT ![1] = identity ]
  /\ offset' = 1
  /\ phase' = IF tree_size = 1 THEN "copy" ELSE "down"
  /\ todo' = IF tree_size = 1 THEN {} ELSE 0 .. layer_size(1) - 1
  /\ UNCHANGED << size, inclusive, out, running >>

DownNext ==
  LET next == 2 * offset
  IN  /\ phase = "down"
      /\ LoopDone
      /\ offset' = next
      /\ phase' = IF next = tree_size THEN "copy" ELSE "down"
      /\ todo' = IF next = tree_size THEN {} ELSE 0 .. layer_size(next) - 1
      /\ UNCHANGED << size, inclusive, tree, out, running >>

\* The inclusive sums put an element's own addend first, so that they equal
\* the sequential ones only for a commutative operation.
CopyOut ==
  /\ phase = "copy"
  /\ out' = [ i \in 0 .. size - 1 |->
                IF inclusive THEN add(in[i], tree[tree_size + i])
                ELSE tree[tree_size + i] ]
  /\ phase' = "done"
  /\ UNCHANGED << size, inclusive, tree, offset, todo, running >>

Terminating == phase = "done" /\ UNCHANGED vars

Next ==
  UpLoad \/ DownLoad \/ Store \/ UpNext \/ TurnAround \/ DownNext \/ CopyOut
  \/ Terminating

Spec == Init /\ [][Next]_vars /\ WF_vars(Next)

-----------------------------------------------------------------------------
(* Properties *)

Addends(lo, hi) == [ k \in 1 .. hi - lo |-> lo + k - 1 ]

\* The result is that of seq_prefix_sum: the exclusive sums have the addends
\* before their place in order; the inclusive ones have each of them and their
\* own exactly once, in an order that only a commutative operation hides.
EqualsSequential ==
  phase = "done" =>
    \A i \in 0 .. size - 1 :
      IF inclusive
        THEN Len(out[i]) = i + 1 /\ \A k \in 0 .. i : \E j \in 1 .. i + 1 : out[i][j] = k
        ELSE out[i] = Addends(0, i)

\* Two iterations of the same loop never touch the same node unless both only
\* read it, and they stay in the array.
IterationsIndependent ==
  phase \in { "up", "down" } /\ todo # {} =>
    \A i \in todo :
      /\ WritesOf(phase, offset, i) \cup ReadsOf(phase, offset, i) \subseteq Nodes
      /\ \A j \in todo \ { i } :
           WritesOf(phase, offset, i) \cap
             (WritesOf(phase, offset, j) \cup ReadsOf(phase, offset, j)) = {}

=============================================================================

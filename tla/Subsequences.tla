----------------------------- MODULE Subsequences -----------------------------
(***************************************************************************)
(* What list comprehensions with a condition, sorted() and list.remove()   *)
(* leave of a list, written so that it can be reasoned about: the numbers  *)
(* of a finite set in ascending order, and the elements of a sequence that *)
(* stand at given positions, in their order.  SelectSeq and SortSeq of the *)
(* standard modules say the same.                                          *)
(***************************************************************************)
EXTENDS Integers, FiniteSets, Sequences

(* How many numbers of S are not above x. *)
Rank(S, x) == Cardinality({y \in S : y <= x})

Ascending(S) == [k \in 1 .. Cardinality(S) |-> CHOOSE x \in S : Rank(S, x) = k]

(* The elements of s at the positions of the set at. *)
Keep(s, at) ==
  LET position == Ascending(at)
  IN  [k \in DOMAIN position |-> s[position[k]]]

(* sorted(): the elements of s by ascending keys, where key[i] is that of  *)
(* s[i]; those with equal keys stay in their order.                        *)
Place(s, key) ==
  [i \in DOMAIN s |-> Cardinality({j \in DOMAIN s : \/ key[j] < key[i]
                                                    \/ key[j] = key[i] /\ j <= i})]

SortBy(s, key) ==
  LET place == Place(s, key)
  IN  [k \in DOMAIN s |-> s[CHOOSE i \in DOMAIN s : place[i] = k]]
=============================================================================

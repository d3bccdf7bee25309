------------------------------- MODULE LruOps -------------------------------
(* A list kept in order of use, most recent first, as QueryCache keeps it    *)
(* (cpp/src/QueryCache.cpp: lru_).                                           *)
EXTENDS Naturals, Sequences

Without(list, i) == SubSeq(list, 1, i - 1) \o SubSeq(list, i + 1, Len(list))

(* lru_.splice(lru_.begin(), lru_, it), with the entry it becomes. *)
MovedToFront(list, i, entry) == <<entry>> \o Without(list, i)

(* Mutant: the list is never full. *)
PushedNoPop(list, entry, cap) == <<entry>> \o list

(* pop_back when the list is full, then push_front. *)
PushedFront(list, entry, cap) ==
  <<entry>> \o (IF Len(list) >= cap THEN SubSeq(list, 1, Len(list) - 1) ELSE list)
=============================================================================

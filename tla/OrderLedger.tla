---------------------------- MODULE OrderLedger ----------------------------
(***************************************************************************)
(* What the order table promises its readers, whoever writes to it: a      *)
(* ledger of entries.  No two entries share a number or a source key, an   *)
(* entry is never removed, and its number and key never change; the other  *)
(* columns are free.                                                       *)
(***************************************************************************)
VARIABLE book

Distinct(S) == \A a, b \in S : a.id = b.id \/ a.key = b.key => a = b

\* Every entry of S is still in T, under the same number and key.
Kept(S, T) == \A a \in S : \E b \in T : b.id = a.id /\ b.key = a.key

Init == book = {}

\* Any set of entries is added or amended at once.
Amend == Distinct(book') /\ Kept(book, book')

Spec == Init /\ [][Amend]_book

============================================================================

------------------------------- MODULE Queues -------------------------------
(***************************************************************************)
(* Erasing from the ordered containers that the code keeps: a std::list, a *)
(* std::deque, or the entries of one key of a std::multimap.               *)
(***************************************************************************)
EXTENDS Integers, Sequences, Functions

\* The sequence s without its element e, if e is in s.
Without(s, e) ==
    IF e \in Range(s)
    THEN LET k == CHOOSE i \in DOMAIN s : s[i] = e
         IN  [i \in 1 .. (Len(s) - 1) |-> IF i < k THEN s[i] ELSE s[i + 1]]
    ELSE s
=============================================================================

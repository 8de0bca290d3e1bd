------------------------------- MODULE RtList -------------------------------
(***************************************************************************)
(* The doubly linked lists of src/rt-thread/include/rtservice.h as the     *)
(* kernel uses them: a list head is a sequence, in the order of ->next.    *)
(* A node is on one list at most, so a sequence repeats no element.        *)
(***************************************************************************)
EXTENDS Integers, Sequences, SequencesExt

\* rt_list_insert_after(&head, n): in front of every node.
Push(q, n) == <<n>> \o q

\* rt_list_insert_before(&head, n): behind every node.
Enqueue(q, n) == Append(q, n)

\* rt_list_remove(n): it takes n off the list it is on, q perhaps.
Unlink(q, n) ==
    IF n \in ToSet(q) THEN RemoveAt(q, CHOOSE i \in DOMAIN q : q[i] = n) ELSE q

=============================================================================

------------------------------- MODULE Queues -------------------------------
(***************************************************************************)
(* The linked lists of the kernel (TAILQ of sys/queue.h, CIRCQ of          *)
(* kern_timeout.c) as sequences: taking one element out, and taking a part *)
(* out, which keeps its order.                                             *)
(***************************************************************************)
EXTENDS Integers, Sequences, FiniteSets

Elements(s) == {s[i] : i \in 1 .. Len(s)}
\* Nobody is on the queue twice.
NoDup(s) == \A i, j \in 1 .. Len(s) : s[i] = s[j] => i = j

\* A queue without one of its elements.
Without(q, p) ==
    IF \E i \in 1 .. Len(q) : q[i] = p
    THEN LET i == CHOOSE i \in 1 .. Len(q) : q[i] = p
         IN  SubSeq(q, 1, i - 1) \o SubSeq(q, i + 1, Len(q))
    ELSE q

\* What queue q has at the indices K, in the order of the queue: the k-th of
\* them is at the index that is the k-th of K.
Rank(K, i) == Cardinality({j \in K : j <= i})
Part(q, K) == [k \in 1 .. Cardinality(K) |-> q[CHOOSE i \in K : Rank(K, i) = k]]
=============================================================================

----------------------------- MODULE LinkedLists -----------------------------
(***************************************************************************)
(* Singly linked lists the way C code keeps them (SLIST and STAILQ of the  *)
(* glue's sys/queue.h): a head, a next field in every node, `null' at the  *)
(* end.                                                                    *)
(***************************************************************************)
EXTENDS Naturals, Sequences

\* The list that starts at head spells out s.
Spells(s, head, next, null) ==
  /\ head = IF s = << >> THEN null ELSE s[1]
  /\ \A i \in 1..Len(s) : next[s[i]] = IF i = Len(s) THEN null ELSE s[i + 1]

\* No node is in s twice.
Distinct(s) == \A i, j \in 1..Len(s) : s[i] = s[j] => i = j

\* The nodes a walk from head along next meets: the members of every set
\* that has the head and is closed under next.
ClosedUnder(S, head, next, null) ==
  /\ head # null => head \in S
  /\ \A x \in S : next[x] # null => next[x] \in S

Walked(Nodes, head, next, null) ==
  {x \in Nodes : \A S \in SUBSET Nodes : ClosedUnder(S, head, next, null) => x \in S}
==============================================================================

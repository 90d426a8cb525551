------------------------------- MODULE MCBoards -------------------------------
(***************************************************************************)
(* Instances of Boards for TLC.                                            *)
(***************************************************************************)
EXTENDS Boards, FiniteSets, Functions, TLC

UsesWhiteboard ==
  board # {} \/ \E u \in Users : elements[u] # {} \/ up[u] # <<>>

UsesCanvas ==
  \/ holder # NoOne \/ saved # {} \/ following # {}
  \/ \E u \in Users : canvas[u] # {} \/ OnTheWay(u, OfCanvas)
  \/ \E r \in Requests : requests[r].at \in {"opening", "showing", "closing", "freeing",
                                 "clearing", "wiping", "fetching", "answering"}

UsesChat ==
  \/ stored # {} \/ unread # {}
  \/ \E u \in Users : chat[u] # {}
  \/ \E r \in Requests : requests[r].at \in {"saving", "posting"}

\* The three share the sockets and nothing else: one is used at a time.
OneAtATime ==
  /\ ~(UsesWhiteboard /\ UsesCanvas)
  /\ ~(UsesWhiteboard /\ UsesChat)
  /\ ~(UsesCanvas /\ UsesChat)

AtMostOne(steps) == Cardinality({r \in Requests : requests[r].at \in steps}) <= 1

Total(queues) == FoldFunction(LAMBDA queue, n : Len(queue) + n, 0, queues)

\* No more than two events are on their way to anybody, and of the whiteboard three in
\* all, of the canvas two; beside these two, one client is asking for what it missed.
Bound ==
  /\ OneAtATime
  /\ \A u \in Users : Len(down[u]) <= 2 /\ Len(up[u]) <= 2
  /\ UsesWhiteboard => Total(down) <= 3 /\ Total(up) <= 3
  /\ UsesCanvas => Total(down) <= 2
  /\ UsesWhiteboard \/ UsesCanvas =>
       AtMostOne({"recalling", "reciting", "fetching", "answering"})

Symmetry ==
  Permutations(Users) \cup Permutations(Requests) \cup Permutations(Edits)
    \cup Permutations(Strokes)
=============================================================================

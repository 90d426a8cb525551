--------------------------- MODULE MCConversations ---------------------------
(***************************************************************************)
(* Instances of Conversations for TLC.                                     *)
(***************************************************************************)
EXTENDS Conversations, FiniteSets, TLC

CONSTANTS ann, bob, eve

Direct(u, others) ==
  [user |-> u, others |-> others, group |-> FALSE, class |-> FALSE, owner |-> u]

\* Each writes to the other, and one means to write to two; a group; the class's.
AllCalls ==
  {Direct(ann, {bob}), Direct(bob, {ann}), Direct(ann, {bob, eve}),
   [user |-> ann, others |-> {}, group |-> TRUE, class |-> FALSE, owner |-> ann],
   [user |-> bob, others |-> {}, group |-> TRUE, class |-> TRUE, owner |-> bob]}

\* One conversation of any kind, with all that clients do, of two users ...
OneConversation ==
  /\ Cardinality({c \in Ids : conversations[c] # NoOne}) <= 1
  /\ \A c \in Ids : eve \notin seats[c]
  /\ \A r \in Requests : eve \notin {requests[r].user, requests[r].target}

\* ... or two direct ones of three users, and nothing else.
DirectsOnly ==
  /\ \A c \in Ids : conversations[c] # NoOne => ~Group(c)
  /\ \A c \in Ids : rooms[c] = {}
  /\ \A u \in Users, c \in Ids : views[u][c] = NoOne
  /\ \A m \in Msgs : messages[m] = NoOne
  /\ members = {} /\ lost = {}
  /\ \A r \in Requests : requests[r].at \notin {"admitting", "checking", "joining"}

Bound == OneConversation \/ DirectsOnly

Symmetry == Permutations(Ids) \cup Permutations(Requests)
=============================================================================

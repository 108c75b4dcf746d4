----------------------------- MODULE Membership -----------------------------
(***************************************************************************)
(* What nivasa-websocket promises of rooms and inboxes, as a relation: who *)
(* is in which room, and what each connected client has been sent.         *)
(***************************************************************************)
EXTENDS Naturals, Sequences, FiniteSets

CONSTANTS Namespaces, RoomNames, Clients, Events

VARIABLES
  members,    \* who is where: triples <<namespace, room, client>>
  received,   \* per client, "offline" or what it has been sent
  returned    \* what the last call returned

mvars == <<members, received, returned>>

Offline == [online |-> FALSE, events |-> <<>>]
Online(events) == [online |-> TRUE, events |-> events]
OnlineClients == {c \in Clients : received[c].online}

Init ==
  /\ members = {}
  /\ received = [c \in Clients |-> Offline]
  /\ returned = 0

Answer(n) == returned' = n
YesNo(b) == returned' = IF b THEN 1 ELSE 0

Enter(n, r, c) ==
  /\ members' = members \cup {<<n, r, c>>}
  /\ YesNo(<<n, r, c>> \notin members)
  /\ UNCHANGED received

Exit(n, r, c) ==
  /\ members' = members \ {<<n, r, c>>}
  /\ YesNo(<<n, r, c>> \in members)
  /\ UNCHANGED received

\* A client that goes is in no room of any namespace and keeps nothing it was sent.
Vanish(c) ==
  /\ members' = {m \in members : m[3] # c}
  /\ received' = [received EXCEPT ![c] = Offline]
  /\ YesNo(received[c].online \/ \E m \in members : m[3] = c)

Connect(c) ==
  /\ received' = [received EXCEPT ![c].online = TRUE]
  /\ UNCHANGED <<members, returned>>

\* Each client of the audience gets the event once, and the call tells how many there were.
Deliver(audience, e) ==
  /\ received' = [c \in Clients |-> IF c \in audience
                                    THEN Online(Append(received[c].events, e))
                                    ELSE received[c]]
  /\ Answer(Cardinality(audience))
  /\ UNCHANGED members

\* A private event makes its client known; the call tells how many events it has.
Post(c, e) ==
  /\ received' = [received EXCEPT ![c] = Online(Append(@.events, e))]
  /\ Answer(Len(received[c].events) + 1)
  /\ UNCHANGED members

Next ==
  \/ \E n \in Namespaces, r \in RoomNames, c \in Clients : Enter(n, r, c) \/ Exit(n, r, c)
  \/ \E c \in Clients : Vanish(c) \/ Connect(c) \/ (\E e \in Events : Post(c, e))
  \/ \E e \in Events : Deliver(OnlineClients, e)
  \/ \E e \in Events, n \in Namespaces, r \in RoomNames :
       Deliver({c \in OnlineClients : <<n, r, c>> \in members}, e)

Spec == Init /\ [][Next]_mvars
=============================================================================

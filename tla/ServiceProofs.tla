---------------------------- MODULE ServiceProofs ----------------------------
(* Proofs about what routes and handlers use: that the nested maps of the rooms implement the     *)
(* relation of Membership and keep nothing empty (Rooms), that the gets of a lazy value agree     *)
(* (Lazy), that an emit calls the listeners of its moment in order (Emitter), that a request gets *)
(* the route that fits it best, with the segments as its parameters (Routing), that events and    *)
(* content types arrive as they were made (Replies), and files as they were sent (Uploads); for   *)
(* any rooms, tasks, listeners, routes, responses and parts.                                      *)
EXTENDS Routing, Rooms, Emitter, Lazy, Replies, Uploads, FiniteSetTheorems, SequenceTheorems, TLAPS

-----------------------------------------------------------------------------
(* One map of rooms to members. *)

LEMMA JoinedMembers ==
  ASSUME NEW rooms, NEW room, NEW c, NEW r
  PROVE  Members(JoinRoom(rooms, room, c), r)
           = IF r = room THEN Members(rooms, room) \cup {c} ELSE Members(rooms, r)
BY DEF JoinRoom, Members, At, Put

LEMMA JoinedRooms ==
  ASSUME NEW rooms, NEW room, NEW c
  PROVE  DOMAIN JoinRoom(rooms, room, c) = DOMAIN rooms \cup {room}
BY DEF JoinRoom, Put

\* What is kept of a map says the same of every key, if what is dropped is the default.
LEMMA KeptValues ==
  ASSUME NEW map, NEW empty
  PROVE  /\ DOMAIN Kept(map, empty) \subseteq DOMAIN map
         /\ \A k \in DOMAIN Kept(map, empty) : Kept(map, empty)[k] = map[k] /\ map[k] # empty
         /\ \A k : At(Kept(map, empty), k, empty) = At(map, k, empty)
BY DEF Kept, Restrict, At

LEMMA LeftMembers ==
  ASSUME NEW rooms, NEW room, NEW c, NEW r
  PROVE  /\ Members(LeaveRoom(rooms, room, c), r)
              = IF r = room THEN Members(rooms, room) \ {c} ELSE Members(rooms, r)
         /\ DOMAIN LeaveRoom(rooms, room, c) \subseteq DOMAIN rooms
<1>1. CASE room \notin DOMAIN rooms
  BY <1>1 DEF LeaveRoom, Members, At
<1>2. CASE room \in DOMAIN rooms
  <2> DEFINE left == [rooms EXCEPT ![room] = @ \ {c}]
  <2>1. LeaveRoom(rooms, room, c) = Kept(left, {})
    BY <1>2 DEF LeaveRoom
  <2>2. DOMAIN left = DOMAIN rooms
        /\ At(left, r, {}) = IF r = room THEN At(rooms, room, {}) \ {c} ELSE At(rooms, r, {})
    BY <1>2 DEF At
  <2> HIDE DEF left
  <2> QED
    BY <2>1, <2>2, KeptValues DEF Members
<1> QED
  BY <1>1, <1>2

Purged(rooms, c) == Kept([room \in DOMAIN rooms |-> rooms[room] \ {c}], {})

LEMMA PurgedMembers ==
  ASSUME NEW rooms, NEW c
  PROVE  /\ \A r : Members(Purged(rooms, c), r) = Members(rooms, r) \ {c}
         /\ DOMAIN Purged(rooms, c) \subseteq DOMAIN rooms
         /\ \A r \in DOMAIN Purged(rooms, c) :
              Purged(rooms, c)[r] = rooms[r] \ {c} /\ Purged(rooms, c)[r] # {}
<1> DEFINE left == [room \in DOMAIN rooms |-> rooms[room] \ {c}]
<1>1. /\ \A r : At(left, r, {}) = At(rooms, r, {}) \ {c}
      /\ DOMAIN left = DOMAIN rooms /\ \A r \in DOMAIN rooms : left[r] = rooms[r] \ {c}
  BY DEF At
<1>2. Purged(rooms, c) = Kept(left, {})
  BY DEF Purged
<1> HIDE DEF left
<1> QED
  BY <1>1, <1>2, KeptValues DEF Members

-----------------------------------------------------------------------------
(* Types, and what a registry of one type never has. *)

MapTyped(map) ==
  /\ DOMAIN map \subseteq Namespaces
  /\ \A n \in DOMAIN map : DOMAIN map[n] \subseteq RoomNames /\ \A r \in DOMAIN map[n] : map[n][r] \subseteq Clients

RoomsTyped ==
  /\ registry \in {"namespace", "client", "server", "room"}
  /\ MapTyped(namespaces)
  /\ DOMAIN inboxes \subseteq Clients
  /\ \A c \in DOMAIN inboxes : inboxes[c] \in Seq(Events)
  /\ registry \in {"client", "server"} => namespaces = Nothing
  /\ registry = "namespace" => inboxes = Nothing

RoomsInv == RoomsTyped /\ NoEmptyRooms

LEMMA RoomsInitial == RoomsInit => RoomsInv
BY DEF RoomsInit, RoomsInv, RoomsTyped, MapTyped, NoEmptyRooms, Nothing

\* The members a join, a leave and a disconnect make, and that what they keep is not empty.
LEMMA JoinStep ==
  ASSUME RoomsInv, NEW n \in Namespaces, NEW room \in RoomNames, NEW c \in Clients,
         JoinNamespace(n, room, c)
  PROVE  /\ MapTyped(namespaces') /\ NoEmptyRooms'
         /\ \A k, r : MembersOf(k, r)' = IF k = n /\ r = room THEN MembersOf(n, room) \cup {c}
                                         ELSE MembersOf(k, r)
<1> DEFINE joined == JoinRoom(RoomsOf(n), room, c)
<1>1. /\ \A r : Members(joined, r) = IF r = room THEN MembersOf(n, room) \cup {c} ELSE MembersOf(n, r)
      /\ DOMAIN joined = DOMAIN RoomsOf(n) \cup {room}
  <2>1. \A r : Members(joined, r) = IF r = room THEN MembersOf(n, room) \cup {c} ELSE MembersOf(n, r)
    <3>1. \A r : Members(joined, r) = IF r = room THEN Members(RoomsOf(n), room) \cup {c}
                                      ELSE Members(RoomsOf(n), r)
      BY JoinedMembers
    <3> QED
      BY <3>1 DEF MembersOf
  <2>2. DOMAIN joined = DOMAIN RoomsOf(n) \cup {room}
    BY JoinedRooms
  <2> QED
    BY <2>1, <2>2
<1> HIDE DEF joined
<1>2. namespaces' = [k \in DOMAIN namespaces \cup {n} |-> IF k = n THEN joined ELSE namespaces[k]]
  BY DEF JoinNamespace, Put, joined
<1>3. \A k : RoomsOf(k)' = IF k = n THEN joined ELSE RoomsOf(k)
  BY <1>2 DEF RoomsOf, At
<1>4. \A k, r : MembersOf(k, r)' = IF k = n /\ r = room THEN MembersOf(n, room) \cup {c}
                                   ELSE MembersOf(k, r)
  BY <1>1, <1>3 DEF MembersOf
<1>5. DOMAIN RoomsOf(n) \subseteq RoomNames
  BY DEF RoomsOf, At, Nothing, RoomsInv, RoomsTyped, MapTyped
<1>6. \A r \in DOMAIN joined : joined[r] = Members(joined, r)
  BY DEF Members, At
<1>7. \A r \in DOMAIN RoomsOf(n) : RoomsOf(n)[r] = MembersOf(n, r) /\ MembersOf(n, r) \subseteq Clients
                                   /\ MembersOf(n, r) # {}
  BY DEF MembersOf, Members, RoomsOf, At, Nothing, RoomsInv, RoomsTyped, MapTyped, NoEmptyRooms
<1>8. MembersOf(n, room) \subseteq Clients
  BY <1>7 DEF MembersOf, Members, At
<1>9. \A r \in DOMAIN joined : joined[r] \subseteq Clients /\ joined[r] # {}
  BY <1>1, <1>6, <1>7, <1>8
<1>10. joined # Nothing
  BY <1>1 DEF Nothing
<1>11. MapTyped(namespaces')
  BY <1>1, <1>2, <1>5, <1>9 DEF RoomsInv, RoomsTyped, MapTyped
<1>12. NoEmptyRooms'
  BY <1>2, <1>9, <1>10 DEF RoomsInv, NoEmptyRooms
<1> QED
  BY <1>4, <1>11, <1>12

LEMMA LeaveStep ==
  ASSUME RoomsInv, NEW n \in Namespaces, NEW room \in RoomNames, NEW c \in Clients, Leave(n, room, c)
  PROVE  /\ MapTyped(namespaces') /\ NoEmptyRooms'
         /\ \A k, r : MembersOf(k, r)' = IF k = n /\ r = room THEN MembersOf(n, room) \ {c}
                                         ELSE MembersOf(k, r)
<1>1. CASE n \notin DOMAIN namespaces
  <2>1. namespaces' = namespaces
    BY <1>1 DEF Leave
  <2>2. MembersOf(n, room) = {}
    BY <1>1 DEF MembersOf, Members, RoomsOf, At, Nothing
  <2> QED
    BY <2>1, <2>2 DEF RoomsInv, RoomsTyped, NoEmptyRooms, MembersOf, RoomsOf
<1>2. CASE n \in DOMAIN namespaces
  <2> DEFINE left == LeaveRoom(namespaces[n], room, c)
             all == [namespaces EXCEPT ![n] = left]
  <2>1. RoomsOf(n) = namespaces[n]
    BY <1>2 DEF RoomsOf, At
  <2>2. /\ \A r : Members(left, r) = IF r = room THEN MembersOf(n, room) \ {c} ELSE MembersOf(n, r)
        /\ DOMAIN left \subseteq DOMAIN namespaces[n]
    BY <2>1, LeftMembers, SMTT(30) DEF MembersOf
  <2>3. \A r \in DOMAIN left : left[r] \subseteq Clients /\ left[r] # {}
    <3>1. \A r \in DOMAIN namespaces[n] : namespaces[n][r] \subseteq Clients /\ namespaces[n][r] # {}
      BY <1>2 DEF RoomsInv, RoomsTyped, MapTyped, NoEmptyRooms
    <3>2. CASE room \notin DOMAIN namespaces[n]
      BY <3>1, <3>2 DEF LeaveRoom
    <3>3. CASE room \in DOMAIN namespaces[n]
      <4>1. left = Kept([namespaces[n] EXCEPT ![room] = @ \ {c}], {})
        BY <3>3 DEF LeaveRoom
      <4> QED
        BY <3>1, <4>1, KeptValues
    <3> QED
      BY <3>2, <3>3
  <2> HIDE DEF left
  <2>4. namespaces' = Kept(all, Nothing)
    BY <1>2 DEF Leave, left
  <2>5. /\ DOMAIN all = DOMAIN namespaces
        /\ \A k : At(all, k, Nothing) = IF k = n THEN left ELSE At(namespaces, k, Nothing)
        /\ \A k \in DOMAIN all : all[k] = IF k = n THEN left ELSE namespaces[k]
    BY <1>2 DEF At
  <2> HIDE DEF all
  <2>6. /\ DOMAIN namespaces' \subseteq DOMAIN namespaces
        /\ \A k \in DOMAIN namespaces' : namespaces'[k] = all[k] /\ all[k] # Nothing
        /\ \A k : RoomsOf(k)' = At(all, k, Nothing)
    BY <2>4, <2>5, KeptValues DEF RoomsOf
  <2>7. \A k, r : MembersOf(k, r)' = IF k = n /\ r = room THEN MembersOf(n, room) \ {c}
                                     ELSE MembersOf(k, r)
    <3>1. \A k : RoomsOf(k)' = IF k = n THEN left ELSE RoomsOf(k)
      BY <2>5, <2>6 DEF RoomsOf
    <3> QED
      BY <2>2, <3>1 DEF MembersOf
  <2>8. MapTyped(namespaces') /\ NoEmptyRooms'
    BY <2>2, <2>3, <2>5, <2>6 DEF RoomsInv, RoomsTyped, MapTyped, NoEmptyRooms
  <2> QED
    BY <2>7, <2>8
<1> QED
  BY <1>1, <1>2

LEMMA WithoutStep ==
  ASSUME RoomsInv, NEW c, namespaces' = Without(c)
  PROVE  /\ MapTyped(namespaces') /\ NoEmptyRooms'
         /\ \A k, r : MembersOf(k, r)' = MembersOf(k, r) \ {c}
<1> DEFINE all == [n \in DOMAIN namespaces |-> Purged(namespaces[n], c)]
<1>3. namespaces' = Kept(all, Nothing)
  BY DEF Without, Purged
<1>4. /\ DOMAIN namespaces' \subseteq DOMAIN namespaces
      /\ \A k \in DOMAIN namespaces' : namespaces'[k] = Purged(namespaces[k], c) /\ Purged(namespaces[k], c) # Nothing
      /\ \A k : RoomsOf(k)' = At(all, k, Nothing)
  <2>1. DOMAIN all = DOMAIN namespaces /\ \A k \in DOMAIN all : all[k] = Purged(namespaces[k], c)
    OBVIOUS
  <2> HIDE DEF all
  <2> QED
    BY <1>3, <2>1, KeptValues DEF RoomsOf
<1>5. \A k, r : MembersOf(k, r)' = MembersOf(k, r) \ {c}
  <2>1. SUFFICES ASSUME NEW k, NEW r PROVE MembersOf(k, r)' = MembersOf(k, r) \ {c}
    OBVIOUS
  <2>2. CASE k \in DOMAIN namespaces
    <3>1. RoomsOf(k)' = Purged(namespaces[k], c) /\ RoomsOf(k) = namespaces[k]
      BY <1>4, <2>2 DEF RoomsOf, At
    <3> QED
      BY PurgedMembers, <3>1 DEF MembersOf
  <2>3. CASE k \notin DOMAIN namespaces
    <3>1. RoomsOf(k)' = Nothing /\ RoomsOf(k) = Nothing
      BY <1>4, <2>3 DEF RoomsOf, At
    <3>2. Members(Nothing, r) = {}
      BY DEF Members, At, Nothing
    <3> QED
      BY <3>1, <3>2 DEF MembersOf
  <2> QED
    BY <2>2, <2>3
<1>6. MapTyped(namespaces') /\ NoEmptyRooms'
  BY PurgedMembers, <1>4 DEF RoomsInv, RoomsTyped, MapTyped, NoEmptyRooms
<1> QED
  BY <1>5, <1>6

-----------------------------------------------------------------------------
(* The invariant, and each call as a step of Membership. *)

\* What Membership sees of the registries.
LEMMA Seen ==
  /\ \A n, room, c : <<n, room, c>> \in Relation <=>
       n \in Namespaces /\ room \in RoomNames /\ c \in Clients /\ c \in MembersOf(n, room)
  /\ Relation \subseteq Namespaces \X RoomNames \X Clients
  /\ \A c \in Clients : Sent[c] = [online |-> c \in DOMAIN inboxes, events |-> At(inboxes, c, <<>>)]
BY DEF Relation, Sent

\* Who is a member of some room is, and the other way round.
LEMMA SeenInSome ==
  ASSUME RoomsInv, NEW c \in Clients
  PROVE  InSomeRoom(c) <=> \E m \in Relation : m[3] = c
<1>1. ASSUME InSomeRoom(c) PROVE \E m \in Relation : m[3] = c
  <2>1. PICK n \in DOMAIN namespaces : \E r \in DOMAIN namespaces[n] : c \in namespaces[n][r]
    BY <1>1 DEF InSomeRoom
  <2> PICK room \in DOMAIN namespaces[n] : c \in namespaces[n][room]
    BY <2>1
  <2>2. n \in Namespaces /\ room \in RoomNames /\ c \in MembersOf(n, room)
    BY DEF RoomsInv, RoomsTyped, MapTyped, MembersOf, RoomsOf, Members, At
  <2>3. <<n, room, c>> \in Relation
    BY <2>2, Seen
  <2> QED
    BY <2>3
<1>2. ASSUME NEW m \in Relation, m[3] = c PROVE InSomeRoom(c)
  <2>1. c \in MembersOf(m[1], m[2])
    BY <1>2 DEF Relation
  <2>2. m[1] \in DOMAIN namespaces /\ m[2] \in DOMAIN namespaces[m[1]]
        /\ c \in namespaces[m[1]][m[2]]
    BY <2>1 DEF MembersOf, RoomsOf, Members, At, Nothing
  <2> QED
    BY <2>2 DEF InSomeRoom
<1> QED
  BY <1>1, <1>2

\* The steps that leave the inboxes, and those that leave the rooms, look the same to the other.
LEMMA SeenSame ==
  /\ UNCHANGED inboxes => UNCHANGED Sent
  /\ UNCHANGED namespaces => UNCHANGED Relation
BY DEF Sent, Relation, MembersOf, RoomsOf

LEMMA EnterRoom ==
  ASSUME RoomsInv, NEW n \in Namespaces, NEW room \in RoomNames, NEW c \in Clients,
         JoinNamespace(n, room, c), UNCHANGED inboxes
  PROVE  Abstract!Enter(n, room, c)
<1>1. Relation' = Relation \cup {<<n, room, c>>}
  <2>1. \A k, r, d : <<k, r, d>> \in Relation' <=> <<k, r, d>> \in Relation \cup {<<n, room, c>>}
    <3>1. SUFFICES ASSUME NEW k, NEW r, NEW d
                   PROVE  <<k, r, d>> \in Relation' <=> <<k, r, d>> \in Relation \cup {<<n, room, c>>}
      OBVIOUS
    <3>2. <<k, r, d>> \in Relation' <=>
            k \in Namespaces /\ r \in RoomNames /\ d \in Clients /\ d \in MembersOf(k, r)'
      BY DEF Relation
    <3> QED
      BY <3>2, Seen, JoinStep
  <2>2. Relation' \subseteq Namespaces \X RoomNames \X Clients
    BY DEF Relation
  <2> QED
    BY <2>1, <2>2, Seen
<1>2. c \notin MembersOf(n, room) <=> <<n, room, c>> \notin Relation
  BY Seen
<1> QED
  BY <1>1, <1>2, SeenSame DEF Abstract!Enter, Abstract!YesNo, JoinNamespace, Flag

LEMMA ExitRoom ==
  ASSUME RoomsInv, NEW n \in Namespaces, NEW room \in RoomNames, NEW c \in Clients, Leave(n, room, c)
  PROVE  Abstract!Exit(n, room, c)
<1>1. Relation' = Relation \ {<<n, room, c>>}
  <2>1. \A k, r, d : <<k, r, d>> \in Relation' <=> <<k, r, d>> \in Relation \ {<<n, room, c>>}
    <3>1. SUFFICES ASSUME NEW k, NEW r, NEW d
                   PROVE  <<k, r, d>> \in Relation' <=> <<k, r, d>> \in Relation \ {<<n, room, c>>}
      OBVIOUS
    <3>2. <<k, r, d>> \in Relation' <=>
            k \in Namespaces /\ r \in RoomNames /\ d \in Clients /\ d \in MembersOf(k, r)'
      BY DEF Relation
    <3> QED
      BY <3>2, Seen, LeaveStep
  <2>2. Relation' \subseteq Namespaces \X RoomNames \X Clients
    BY DEF Relation
  <2> QED
    BY <2>1, <2>2, Seen
<1>2. c \in MembersOf(n, room) <=> <<n, room, c>> \in Relation
  BY Seen
<1> QED
  BY <1>1, <1>2, SeenSame DEF Abstract!Exit, Abstract!YesNo, Leave, Flag

LEMMA LeaveAll ==
  ASSUME RoomsInv, NEW c \in Clients, namespaces' = Without(c)
  PROVE  Relation' = {m \in Relation : m[3] # c}
<1>1. \A k, r, d : <<k, r, d>> \in Relation' <=> <<k, r, d>> \in {m \in Relation : m[3] # c}
  <2>1. SUFFICES ASSUME NEW k, NEW r, NEW d
                 PROVE  <<k, r, d>> \in Relation' <=> <<k, r, d>> \in Relation /\ d # c
    OBVIOUS
  <2>2. <<k, r, d>> \in Relation' <=>
          k \in Namespaces /\ r \in RoomNames /\ d \in Clients /\ d \in MembersOf(k, r)'
    BY DEF Relation
  <2>3. MembersOf(k, r)' = MembersOf(k, r) \ {c}
    BY WithoutStep
  <2> QED
    BY <2>2, <2>3, Seen
<1>2. Relation' \subseteq Namespaces \X RoomNames \X Clients
  BY DEF Relation
<1> QED
  BY <1>1, <1>2, Seen

\* Without its inbox a client looks as one that never had any.
LEMMA InboxGone ==
  ASSUME RoomsInv, NEW c \in Clients, Drop(c)
  PROVE  Sent' = [Sent EXCEPT ![c] = Abstract!Offline]
<1>1. \A d \in Clients : Sent'[d] = IF d = c THEN Abstract!Offline ELSE Sent[d]
  <2>1. /\ DOMAIN inboxes' = DOMAIN inboxes \ {c}
        /\ \A d \in DOMAIN inboxes \ {c} : inboxes'[d] = inboxes[d]
    BY DEF Drop, Restrict
  <2>2. SUFFICES ASSUME NEW d \in Clients PROVE Sent'[d] = IF d = c THEN Abstract!Offline ELSE Sent[d]
    OBVIOUS
  <2>3. /\ Sent'[d] = [online |-> d \in DOMAIN inboxes', events |-> At(inboxes', d, <<>>)]
        /\ Sent[d] = [online |-> d \in DOMAIN inboxes, events |-> At(inboxes, d, <<>>)]
    BY DEF Sent
  <2>4. CASE d = c
    <3>1. (d \in DOMAIN inboxes') = FALSE
      BY <2>1, <2>4
    <3>2. At(inboxes', d, <<>>) = <<>>
      BY <3>1 DEF At
    <3> QED
      BY <2>3, <2>4, <3>1, <3>2 DEF Abstract!Offline
  <2>5. CASE d # c
    <3>1. (d \in DOMAIN inboxes') = (d \in DOMAIN inboxes)
      BY <2>1, <2>5
    <3>2. At(inboxes', d, <<>>) = At(inboxes, d, <<>>)
      BY <2>1, <2>5 DEF At
    <3> QED
      BY <2>3, <2>5, <3>1, <3>2
  <2> QED
    BY <2>4, <2>5
<1>2. DOMAIN Sent' = Clients /\ DOMAIN Sent = Clients
  BY DEF Sent
<1>3. Sent' = [d \in Clients |-> Sent'[d]]
  BY DEF Sent
<1> QED
  BY <1>1, <1>2, <1>3

LEMMA GoneFromAll ==
  ASSUME RoomsInv, NEW c \in Clients, Disconnect(c) \/ ServerDisconnect(c) \/ RoomDisconnect(c)
  PROVE  Abstract!Vanish(c)
<1>1. Relation' = {m \in Relation : m[3] # c}
  <2>1. CASE ServerDisconnect(c)
    <3>1. namespaces = Nothing /\ UNCHANGED Relation
      BY <2>1, SeenSame DEF ServerDisconnect, RoomsInv, RoomsTyped
    <3>2. Relation = {}
      BY <3>1 DEF Relation, MembersOf, RoomsOf, Members, At, Nothing
    <3> QED
      BY <3>1, <3>2
  <2> QED
    BY <2>1, LeaveAll DEF Disconnect, RoomDisconnect
<1>2. Sent' = [Sent EXCEPT ![c] = Abstract!Offline]
  <2>1. CASE Disconnect(c)
    <3>1. inboxes = Nothing /\ UNCHANGED Sent
      BY <2>1, SeenSame DEF Disconnect, RoomsInv, RoomsTyped
    <3>2. Sent[c] = Abstract!Offline
      <4>1. Sent[c] = [online |-> c \in DOMAIN inboxes, events |-> At(inboxes, c, <<>>)]
        BY DEF Sent
      <4>2. (c \in DOMAIN inboxes) = FALSE /\ At(inboxes, c, <<>>) = <<>>
        BY <3>1 DEF At, Nothing
      <4> QED
        BY <4>1, <4>2 DEF Abstract!Offline
    <3>3. Sent = [d \in Clients |-> Sent[d]]
      BY DEF Sent
    <3> QED
      BY <3>1, <3>2, <3>3
  <2> QED
    BY <2>1, InboxGone DEF ServerDisconnect, RoomDisconnect
<1>3. Sent[c].online <=> c \in DOMAIN inboxes
  BY DEF Sent
<1>4. returned' = IF Sent[c].online \/ \E m \in Relation : m[3] = c THEN 1 ELSE 0
  <2>1. CASE Disconnect(c)
    <3>1. c \notin DOMAIN inboxes
      BY <2>1 DEF Disconnect, RoomsInv, RoomsTyped, Nothing
    <3> QED
      BY <2>1, <3>1, <1>3, SeenInSome DEF Disconnect, Flag
  <2>2. CASE ServerDisconnect(c)
    <3>1. ~InSomeRoom(c)
      BY <2>2 DEF ServerDisconnect, RoomsInv, RoomsTyped, Nothing, InSomeRoom
    <3> QED
      BY <2>2, <3>1, <1>3, SeenInSome DEF ServerDisconnect, Flag
  <2>3. CASE RoomDisconnect(c)
    BY <2>3, <1>3, SeenInSome DEF RoomDisconnect, Flag
  <2> QED
    BY <2>1, <2>2, <2>3
<1> QED
  BY <1>1, <1>2, <1>4 DEF Abstract!Vanish, Abstract!YesNo

LEMMA OnlineSet ==
  ASSUME NEW b, NEW list, NEW t, NEW old, NEW new,
         old = [online |-> b, events |-> list], new = [online |-> t, events |-> list]
  PROVE  new = [old EXCEPT !.online = t]
OBVIOUS

\* An inbox more, and an event more in one.
LEMMA InboxOpens ==
  ASSUME RoomsInv, NEW c \in Clients, Connect(c)
  PROVE  Abstract!Connect(c)
<1>1. /\ DOMAIN inboxes' = DOMAIN inboxes \cup {c}
      /\ \A d \in Clients : At(inboxes', d, <<>>) = At(inboxes, d, <<>>)
  BY DEF Connect, Put, At
<1>2. \A d \in Clients : Sent'[d] = IF d = c THEN [Sent[c] EXCEPT !.online = TRUE] ELSE Sent[d]
  <2>1. SUFFICES ASSUME NEW d \in Clients
                 PROVE  Sent'[d] = IF d = c THEN [Sent[c] EXCEPT !.online = TRUE] ELSE Sent[d]
    OBVIOUS
  <2>2. /\ Sent'[d] = [online |-> d \in DOMAIN inboxes', events |-> At(inboxes, d, <<>>)]
        /\ Sent[d] = [online |-> d \in DOMAIN inboxes, events |-> At(inboxes, d, <<>>)]
    BY <1>1 DEF Sent
  <2>3. CASE d = c
    <3>1. (d \in DOMAIN inboxes') = TRUE
      BY <1>1, <2>3
    <3>2. /\ Sent'[c] = [online |-> TRUE, events |-> At(inboxes, c, <<>>)]
          /\ Sent[c] = [online |-> c \in DOMAIN inboxes, events |-> At(inboxes, c, <<>>)]
      BY <2>2, <2>3, <3>1
    <3>3. \A t, old, new : old = [online |-> c \in DOMAIN inboxes, events |-> At(inboxes, c, <<>>)]
                             /\ new = [online |-> t, events |-> At(inboxes, c, <<>>)]
            => new = [old EXCEPT !.online = t]
      BY OnlineSet
    <3>4. Sent'[c] = [Sent[c] EXCEPT !.online = TRUE]
      BY <3>2, <3>3
    <3> QED
      BY <2>3, <3>4
  <2>4. CASE d # c
    <3>1. (d \in DOMAIN inboxes') = (d \in DOMAIN inboxes)
      BY <1>1, <2>4
    <3> QED
      BY <2>2, <2>4, <3>1
  <2> QED
    BY <2>3, <2>4
<1>3. Sent' = [d \in Clients |-> Sent'[d]] /\ Sent = [d \in Clients |-> Sent[d]]
  BY DEF Sent
<1>4. Sent' = [Sent EXCEPT ![c].online = TRUE]
  BY <1>2, <1>3
<1> QED
  BY <1>4, SeenSame DEF Connect, Abstract!Connect

LEMMA EventDelivered ==
  ASSUME RoomsInv, NEW audience, NEW e \in Events, Push(audience, e),
         NEW reached, reached = audience \cap DOMAIN inboxes
  PROVE  Abstract!Deliver(reached, e)
<1>1. /\ DOMAIN inboxes' = DOMAIN inboxes
      /\ \A d \in DOMAIN inboxes : inboxes'[d] = IF d \in reached THEN Append(inboxes[d], e) ELSE inboxes[d]
      /\ returned' = Cardinality(reached)
      /\ UNCHANGED namespaces
  BY DEF Push
<1>2. \A d \in Clients : Sent'[d] = IF d \in reached THEN Abstract!Online(Append(Sent[d].events, e)) ELSE Sent[d]
  <2>1. SUFFICES ASSUME NEW d \in Clients
                 PROVE  Sent'[d] = IF d \in reached THEN Abstract!Online(Append(Sent[d].events, e)) ELSE Sent[d]
    OBVIOUS
  <2>2. /\ Sent'[d] = [online |-> d \in DOMAIN inboxes, events |-> At(inboxes', d, <<>>)]
        /\ Sent[d] = [online |-> d \in DOMAIN inboxes, events |-> At(inboxes, d, <<>>)]
    BY <1>1 DEF Sent
  <2>3. CASE d \in reached
    <3>1. (d \in DOMAIN inboxes) = TRUE
      BY <2>3
    <3>2. At(inboxes', d, <<>>) = Append(At(inboxes, d, <<>>), e)
      BY <1>1, <2>3, <3>1 DEF At
    <3>3. Sent'[d] = [online |-> TRUE, events |-> Append(At(inboxes, d, <<>>), e)]
      BY <2>2, <3>1, <3>2
    <3>4. Sent[d].events = At(inboxes, d, <<>>)
      BY <2>2
    <3> QED
      BY <2>3, <3>3, <3>4 DEF Abstract!Online
  <2>4. CASE d \notin reached
    <3>1. At(inboxes', d, <<>>) = At(inboxes, d, <<>>)
      BY <1>1, <2>4 DEF At
    <3> QED
      BY <2>2, <2>4, <3>1
  <2> QED
    BY <2>3, <2>4
<1>3. Sent' = [d \in Clients |-> IF d \in reached THEN Abstract!Online(Append(Sent[d].events, e)) ELSE Sent[d]]
  <2>1. Sent' = [d \in Clients |-> Sent'[d]]
    BY DEF Sent
  <2> QED
    BY <1>2, <2>1
<1> QED
  BY <1>1, <1>3, SeenSame DEF Abstract!Deliver, Abstract!Answer, Abstract!Cardinality, Cardinality,
     Abstract!IsFiniteSet, IsFiniteSet

LEMMA EventPosted ==
  ASSUME RoomsInv, NEW c \in Clients, NEW e \in Events, ClientEmit(c, e)
  PROVE  Abstract!Post(c, e)
<1> DEFINE q == At(inboxes, c, <<>>)
<1>1. q \in Seq(Events)
  BY DEF At, RoomsInv, RoomsTyped
<1>2. /\ DOMAIN inboxes' = DOMAIN inboxes \cup {c}
      /\ inboxes'[c] = Append(q, e)
      /\ \A d \in Clients : At(inboxes', d, <<>>) = IF d = c THEN Append(q, e) ELSE At(inboxes, d, <<>>)
  BY DEF ClientEmit, Put, At
<1>3. returned' = Len(q) + 1
  BY <1>1, <1>2 DEF ClientEmit
<1>4. \A d \in Clients : Sent'[d] = IF d = c THEN Abstract!Online(Append(Sent[c].events, e)) ELSE Sent[d]
  <2>1. SUFFICES ASSUME NEW d \in Clients
                 PROVE  Sent'[d] = IF d = c THEN Abstract!Online(Append(Sent[c].events, e)) ELSE Sent[d]
    OBVIOUS
  <2>2. /\ Sent'[d] = [online |-> d \in DOMAIN inboxes',
                       events |-> IF d = c THEN Append(q, e) ELSE At(inboxes, d, <<>>)]
        /\ Sent[d] = [online |-> d \in DOMAIN inboxes, events |-> At(inboxes, d, <<>>)]
    BY <1>2 DEF Sent
  <2>3. CASE d = c
    <3>1. (d \in DOMAIN inboxes') = TRUE
      BY <1>2, <2>3
    <3>2. Sent'[d] = [online |-> TRUE, events |-> Append(q, e)]
      BY <2>2, <2>3, <3>1
    <3>3. Sent[c].events = q
      BY DEF Sent
    <3> QED
      BY <2>3, <3>2, <3>3 DEF Abstract!Online
  <2>4. CASE d # c
    <3>1. (d \in DOMAIN inboxes') = (d \in DOMAIN inboxes)
      BY <1>2, <2>4
    <3> QED
      BY <2>2, <2>4, <3>1
  <2> QED
    BY <2>3, <2>4
<1>5. Sent[c].events = q
  BY DEF Sent
<1>6. Sent' = [Sent EXCEPT ![c] = Abstract!Online(Append(@.events, e))]
  <2>1. Sent' = [d \in Clients |-> Sent'[d]] /\ Sent = [d \in Clients |-> Sent[d]]
    BY DEF Sent
  <2> QED
    BY <1>4, <2>1
<1> QED
  BY <1>3, <1>5, <1>6, SeenSame DEF ClientEmit, Abstract!Post, Abstract!Answer

LEMMA RoomsStep == RoomsInv /\ [RoomsNext]_roomsVars => RoomsInv'
<1> SUFFICES ASSUME RoomsInv, [RoomsNext]_roomsVars PROVE RoomsInv'
  OBVIOUS
<1>1. ASSUME NEW n \in Namespaces, NEW room \in RoomNames, NEW c \in Clients,
             Join(n, room, c) \/ Leave(n, room, c)
      PROVE  RoomsInv'
  <2>1. MapTyped(namespaces') /\ NoEmptyRooms'
    BY <1>1, JoinStep, LeaveStep DEF Join
  <2> QED
    BY <1>1, <2>1 DEF Join, Leave, RoomsInv, RoomsTyped, MapTyped
<1>2. ASSUME NEW room \in RoomNames, NEW c \in Clients, RoomJoin(room, c) PROVE RoomsInv'
  <2>1. MapTyped(namespaces') /\ NoEmptyRooms'
    BY <1>2, JoinStep, RoomsAssumption DEF RoomJoin
  <2> QED
    BY <1>2, <2>1 DEF RoomJoin, RoomsInv, RoomsTyped, MapTyped
<1>3. ASSUME NEW c \in Clients, Disconnect(c) \/ RoomDisconnect(c) PROVE RoomsInv'
  <2>1. MapTyped(namespaces') /\ NoEmptyRooms'
    BY <1>3, WithoutStep DEF Disconnect, RoomDisconnect
  <2> QED
    BY <1>3, <2>1 DEF Disconnect, RoomDisconnect, Drop, Restrict, RoomsInv, RoomsTyped, MapTyped
<1>4. ASSUME NEW c \in Clients, Connect(c) \/ ServerDisconnect(c) PROVE RoomsInv'
  <2>1. DOMAIN inboxes' \subseteq Clients /\ \A d \in DOMAIN inboxes' : inboxes'[d] \in Seq(Events)
    <3>1. CASE Connect(c)
      <4>1. At(inboxes, c, <<>>) \in Seq(Events)
        BY DEF At, RoomsInv, RoomsTyped
      <4> QED
        BY <3>1, <4>1 DEF Connect, Put, RoomsInv, RoomsTyped
    <3>2. CASE ServerDisconnect(c)
      BY <3>2 DEF ServerDisconnect, Drop, Restrict, RoomsInv, RoomsTyped
    <3> QED
      BY <1>4, <3>1, <3>2
  <2> QED
    BY <1>4, <2>1 DEF Connect, ServerDisconnect, RoomsInv, RoomsTyped, MapTyped, NoEmptyRooms
<1>5. ASSUME NEW e \in Events, ServerEmit(e) \/ \E room \in RoomNames : RoomEmit(room, e) PROVE RoomsInv'
  <2>1. PICK audience : Push(audience, e) /\ registry \in {"server", "room"}
    BY <1>5 DEF ServerEmit, RoomEmit
  <2>2. DOMAIN inboxes' = DOMAIN inboxes /\ \A c \in DOMAIN inboxes : inboxes'[c] \in Seq(Events)
    BY <2>1 DEF Push, RoomsInv, RoomsTyped
  <2> QED
    BY <2>1, <2>2 DEF Push, RoomsInv, RoomsTyped, MapTyped, NoEmptyRooms
<1>6. ASSUME NEW c \in Clients, NEW e \in Events, ClientEmit(c, e) PROVE RoomsInv'
  <2>1. At(inboxes, c, <<>>) \in Seq(Events)
    BY DEF At, RoomsInv, RoomsTyped
  <2>2. DOMAIN inboxes' \subseteq Clients /\ \A d \in DOMAIN inboxes' : inboxes'[d] \in Seq(Events)
    BY <1>6, <2>1 DEF ClientEmit, Put, RoomsInv, RoomsTyped
  <2> QED
    BY <1>6, <2>2 DEF ClientEmit, RoomsInv, RoomsTyped, MapTyped, NoEmptyRooms
<1>7. CASE UNCHANGED roomsVars
  BY <1>7 DEF roomsVars, RoomsInv, RoomsTyped, MapTyped, NoEmptyRooms
<1> QED
  BY <1>1, <1>2, <1>3, <1>4, <1>5, <1>6, <1>7 DEF RoomsNext

LEMMA RoomsRefine == RoomsInv /\ [RoomsNext]_roomsVars => [Abstract!Next]_(Abstract!mvars)
<1> SUFFICES ASSUME RoomsInv, [RoomsNext]_roomsVars PROVE [Abstract!Next]_(Abstract!mvars)
  OBVIOUS
<1>1. ASSUME NEW n \in Namespaces, NEW room \in RoomNames, NEW c \in Clients,
             Join(n, room, c) \/ Leave(n, room, c)
      PROVE  Abstract!Next
  BY <1>1, EnterRoom, ExitRoom DEF Join, Abstract!Next
<1>2. ASSUME NEW room \in RoomNames, NEW c \in Clients, RoomJoin(room, c) PROVE Abstract!Next
  BY <1>2, EnterRoom, RoomsAssumption DEF RoomJoin, Abstract!Next
<1>3. ASSUME NEW c \in Clients, Disconnect(c) \/ ServerDisconnect(c) \/ RoomDisconnect(c)
      PROVE  Abstract!Next
  BY <1>3, GoneFromAll DEF Abstract!Next
<1>4. ASSUME NEW c \in Clients, Connect(c) PROVE Abstract!Next
  BY <1>4, InboxOpens DEF Abstract!Next
<1>5. Abstract!OnlineClients = DOMAIN inboxes
  BY DEF Abstract!OnlineClients, Sent, RoomsInv, RoomsTyped
<1>6. ASSUME NEW e \in Events, ServerEmit(e) PROVE Abstract!Next
  <2>1. Abstract!Deliver(DOMAIN inboxes, e)
    BY <1>6, EventDelivered DEF ServerEmit
  <2> QED
    BY <1>5, <2>1 DEF Abstract!Next
<1>7. ASSUME NEW room \in RoomNames, NEW e \in Events, RoomEmit(room, e) PROVE Abstract!Next
  <2> DEFINE reached == MembersOf(OwnNamespace, room) \cap DOMAIN inboxes
  <2>1. Abstract!Deliver(reached, e)
    BY <1>7, EventDelivered DEF RoomEmit
  <2>2. reached = {c \in Abstract!OnlineClients : <<OwnNamespace, room, c>> \in Relation}
    BY <1>5, Seen, RoomsAssumption DEF RoomsInv, RoomsTyped
  <2> QED
    BY <2>1, <2>2, RoomsAssumption DEF Abstract!Next
<1>8. ASSUME NEW c \in Clients, NEW e \in Events, ClientEmit(c, e) PROVE Abstract!Next
  BY <1>8, EventPosted DEF Abstract!Next
<1>9. CASE UNCHANGED roomsVars
  BY <1>9, SeenSame DEF roomsVars, Abstract!mvars
<1> QED
  BY <1>1, <1>2, <1>3, <1>4, <1>6, <1>7, <1>8, <1>9 DEF RoomsNext

\* No room without members and no namespace without rooms is kept, after any calls
\* (nivasa-websocket/src/lib.rs:178-191, 352-384).
THEOREM RoomsPruned == RoomsSpec => []NoEmptyRooms
<1>1. RoomsInv => NoEmptyRooms
  BY DEF RoomsInv
<1> QED
  BY RoomsInitial, RoomsStep, <1>1, PTL DEF RoomsSpec

\* Every call on the registries is the step of Membership it promises: the maps are the relation of
\* members, each event reaches each inbox of its audience once, and the answers are true.
THEOREM RoomsRefined == RoomsSpec => RoomsKept
<1>1. RoomsInit => Abstract!Init
  <2>1. ASSUME RoomsInit PROVE Relation = {} /\ Sent = [c \in Clients |-> Abstract!Offline]
    <3>1. Relation = {}
      BY <2>1 DEF RoomsInit, Relation, MembersOf, RoomsOf, Members, At, Nothing
    <3>2. \A c \in Clients : (c \in DOMAIN inboxes) = FALSE /\ At(inboxes, c, <<>>) = <<>>
      BY <2>1 DEF RoomsInit, At, Nothing
    <3>3. \A c \in Clients : Sent[c] = Abstract!Offline
      BY <3>2 DEF Sent, Abstract!Offline
    <3> QED
      BY <3>1, <3>3 DEF Sent
  <2> QED
    BY <2>1 DEF RoomsInit, Abstract!Init
<1>2. RoomsSpec => []RoomsInv
  BY RoomsInitial, RoomsStep, PTL DEF RoomsSpec
<1>3. RoomsSpec => RoomsImplement
  BY <1>1, <1>2, RoomsRefine, PTL DEF RoomsSpec, RoomsImplement, Abstract!Spec
<1> QED
  BY <1>3, RoomsPruned, PTL DEF RoomsKept

-----------------------------------------------------------------------------
(* Lazy values. *)

LazyTyped ==
  /\ DOMAIN cell \subseteq Handles
  /\ cell \in [DOMAIN cell -> Nat \cup {NoValue}]
  /\ initialiser \in [DOMAIN cell -> Getters \cup {NoValue}]
  /\ origin \in [DOMAIN cell -> DOMAIN cell \cup {NoValue}]
  /\ resolved \in Nat
  /\ getter \in [Getters -> [at : {"idle", "wait", "resolving", "returned"},
                             handle : DOMAIN cell \cup {NoValue}, result : Nat \cup {NoValue}]]
  /\ \A t \in Getters : getter[t].at # "idle" => getter[t].handle # NoValue

\* A resolver that runs has the permit of its cell, and the cell is empty until it is done.
Alone ==
  \A t \in Getters : getter[t].at = "resolving" =>
    initialiser[getter[t].handle] = t /\ cell[getter[t].handle] = NoValue

\* A copy with an origin was made when there was a value.
Copied == \A h \in DOMAIN cell : origin[h] # NoValue => cell[origin[h]] # NoValue

LazyInv == LazyTyped /\ Alone /\ Copied /\ LazyOnce

LEMMA LazyInitial == LazyInit => LazyInv
BY LazyAssumption DEF LazyInit, LazyInv, LazyTyped, Alone, Copied, LazyOnce, IdleGetter

\* A step of one get that leaves the cells alone keeps what is said of the others.
LEMMA GetterMoves ==
  ASSUME LazyInv, NEW t \in Getters, UNCHANGED <<cell, origin>>, resolved' \in Nat,
         initialiser' \in [DOMAIN cell -> Getters \cup {NoValue}],
         NEW g \in [at : {"idle", "wait", "resolving", "returned"},
                    handle : DOMAIN cell \cup {NoValue}, result : Nat \cup {NoValue}],
         getter' = [getter EXCEPT ![t] = g],
         g.at # "idle" => g.handle # NoValue,
         g.at = "resolving" => initialiser'[g.handle] = t /\ cell[g.handle] = NoValue,
         g.at = "returned" /\ g.result # NoValue => g.result = cell[g.handle],
         \A u \in Getters \ {t} : getter[u].at = "resolving" =>
           initialiser'[getter[u].handle] = initialiser[getter[u].handle]
  PROVE  LazyInv'
<1> USE DEF LazyInv
<1>1. LazyTyped'
  BY DEF LazyTyped
<1>2. Alone'
  BY DEF Alone, LazyTyped
<1>3. Copied'
  BY DEF Copied
<1>4. LazyOnce'
  BY DEF LazyOnce, LazyTyped
<1> QED
  BY <1>1, <1>2, <1>3, <1>4

\* No other resolver runs for the cell of one that runs.
LEMMA Exclusive ==
  ASSUME LazyInv, NEW t \in Getters, getter[t].at = "resolving"
  PROVE  /\ \A u \in Getters \ {t} : getter[u].at = "resolving" => getter[u].handle # getter[t].handle
         /\ getter[t].handle \in DOMAIN cell
BY DEF LazyInv, Alone, LazyTyped

LEMMA LazyStep == LazyInv /\ [LazyNext]_lazyVars => LazyInv'
<1> SUFFICES ASSUME LazyInv, [LazyNext]_lazyVars PROVE LazyInv'
  OBVIOUS
<1>0. LazyTyped
  BY DEF LazyInv
<1>1. ASSUME NEW t \in Getters, NEW h \in DOMAIN cell, Get(t, h) PROVE LazyInv'
  <2>1. h # NoValue
    BY <1>0, LazyAssumption DEF LazyTyped
  <2> QED
    BY <1>0, <1>1, <2>1, GetterMoves DEF Get, LazyTyped
<1>2. ASSUME NEW t \in Getters, Resolve(t) PROVE LazyInv'
  <2>1. getter[t].handle \in DOMAIN cell
    BY <1>0, <1>2 DEF Resolve, LazyTyped
  <2>2. \A u \in Getters \ {t} : getter[u].at = "resolving" => getter[u].handle # getter[t].handle
    BY <1>0, <1>2, LazyAssumption DEF Resolve, LazyInv, Alone
  <2> QED
    BY <1>0, <1>2, <2>1, <2>2, GetterMoves DEF Resolve, LazyTyped
<1>3. ASSUME NEW t \in Getters, ResolverOk(t) PROVE LazyInv'
  <2> DEFINE h == getter[t].handle
  <2>1. /\ \A u \in Getters \ {t} : getter[u].at = "resolving" => getter[u].handle # h
        /\ h \in DOMAIN cell
        /\ cell[h] = NoValue
    BY <1>3, Exclusive DEF ResolverOk, LazyInv, Alone
  <2>2. resolved' \in Nat /\ resolved' # NoValue
    BY <1>0, <1>3, LazyAssumption DEF ResolverOk, LazyTyped
  <2> DEFINE Typed(d) == [at : {"idle", "wait", "resolving", "returned"}, handle : d \cup {NoValue},
                          result : Nat \cup {NoValue}]
  <2>3. LazyTyped'
    <3>1. DOMAIN cell' = DOMAIN cell
      BY <1>3 DEF ResolverOk
    <3>2. /\ cell' \in [DOMAIN cell -> Nat \cup {NoValue}]
          /\ initialiser' \in [DOMAIN cell -> Getters \cup {NoValue}]
          /\ origin' = origin
      BY <1>0, <1>3, <2>2 DEF ResolverOk, LazyTyped
    <3>3. [getter[t] EXCEPT !.at = "returned", !.result = resolved'] \in Typed(DOMAIN cell)
      BY <1>0, <2>2 DEF LazyTyped
    <3>4. getter' = [getter EXCEPT ![t] = [getter[t] EXCEPT !.at = "returned", !.result = resolved']]
      BY <1>0, <1>3 DEF ResolverOk, LazyTyped
    <3>5. getter' \in [Getters -> Typed(DOMAIN cell)]
      BY <1>0, <3>3, <3>4 DEF LazyTyped
    <3>6. \A u \in Getters : getter'[u].at # "idle" => getter'[u].handle # NoValue
      BY <1>0, <1>3 DEF ResolverOk, LazyTyped
    <3> QED
      BY <1>0, <2>2, <3>1, <3>2, <3>5, <3>6 DEF LazyTyped
  <2>4. Alone'
    BY <1>0, <1>3, <2>1, LazyInv DEF ResolverOk, LazyInv, Alone, LazyTyped
  <2>5. \A x \in DOMAIN cell : origin[x] # NoValue => origin[x] # h /\ x # h
    BY <1>0, <2>1 DEF LazyInv, Copied, LazyOnce, LazyTyped
  <2>6. Copied'
    BY <1>0, <1>3, <2>1, <2>2, <2>5 DEF ResolverOk, LazyInv, Copied, LazyTyped
  <2>7. LazyOnce'
    BY <1>0, <1>3, <2>1, <2>2, <2>5 DEF ResolverOk, LazyInv, LazyOnce, LazyTyped
  <2> QED
    BY <2>3, <2>4, <2>6, <2>7 DEF LazyInv
<1>4. ASSUME NEW t \in Getters, ResolverErr(t) PROVE LazyInv'
  <2> DEFINE g == [getter[t] EXCEPT !.at = "returned", !.result = NoValue]
  <2>1. /\ g.at = "returned" /\ g.result = NoValue /\ g.handle = getter[t].handle
        /\ g.handle # NoValue
        /\ g \in [at : {"idle", "wait", "resolving", "returned"}, handle : DOMAIN cell \cup {NoValue},
                  result : Nat \cup {NoValue}]
    BY <1>0, <1>4 DEF ResolverErr, LazyTyped
  <2>2. getter' = [getter EXCEPT ![t] = g]
    BY <1>0, <1>4 DEF ResolverErr, LazyTyped
  <2>3. /\ resolved' \in Nat
        /\ initialiser' \in [DOMAIN cell -> Getters \cup {NoValue}]
        /\ \A u \in Getters \ {t} : getter[u].at = "resolving" =>
             initialiser'[getter[u].handle] = initialiser[getter[u].handle]
        /\ UNCHANGED <<cell, origin>>
    BY <1>0, <1>4, Exclusive DEF ResolverErr, LazyTyped
  <2> HIDE DEF g
  <2> QED
    BY <2>1, <2>2, <2>3, GetterMoves
<1>5. ASSUME NEW t \in Getters, GetDropped(t) PROVE LazyInv'
  <2>1. /\ initialiser' \in [DOMAIN cell -> Getters \cup {NoValue}]
        /\ \A u \in Getters \ {t} : getter[u].at = "resolving" =>
             initialiser'[getter[u].handle] = initialiser[getter[u].handle]
        /\ UNCHANGED <<cell, origin>>
    <3>1. CASE getter[t].at = "resolving"
      BY <1>0, <1>5, <3>1, Exclusive DEF GetDropped, LazyTyped
    <3>2. CASE getter[t].at # "resolving"
      BY <1>0, <1>5, <3>2 DEF GetDropped, LazyTyped
    <3> QED
      BY <3>1, <3>2
  <2> QED
    BY <1>0, <1>5, <2>1, GetterMoves DEF GetDropped, LazyTyped, IdleGetter
<1>6. ASSUME NEW t \in Getters, GetHit(t) PROVE LazyInv'
  <2> DEFINE g == [getter[t] EXCEPT !.at = "returned", !.result = cell[getter[t].handle]]
  <2>1. /\ g.at = "returned" /\ g.result = cell[g.handle] /\ g.handle # NoValue
        /\ g \in [at : {"idle", "wait", "resolving", "returned"}, handle : DOMAIN cell \cup {NoValue},
                  result : Nat \cup {NoValue}]
    BY <1>0, <1>6 DEF GetHit, LazyTyped
  <2>2. getter' = [getter EXCEPT ![t] = g]
    BY <1>0, <1>6 DEF GetHit, LazyTyped
  <2>3. resolved' \in Nat /\ UNCHANGED <<cell, origin, initialiser>>
    BY <1>0, <1>6 DEF GetHit, LazyTyped
  <2>4. initialiser' \in [DOMAIN cell -> Getters \cup {NoValue}]
    BY <1>0, <2>3 DEF LazyTyped
  <2> HIDE DEF g
  <2> QED
    BY <2>1, <2>2, <2>3, <2>4, GetterMoves
<1>7. ASSUME NEW t \in Getters, GetDone(t) PROVE LazyInv'
  BY <1>0, <1>7, GetterMoves DEF GetDone, LazyTyped, IdleGetter
<1>8. ASSUME NEW h \in DOMAIN cell, NEW copy \in Handles, CloneLazy(h, copy) PROVE LazyInv'
  <2>1. LazyTyped'
    BY <1>0, <1>8 DEF CloneLazy, Extended, LazyTyped
  <2>2. Alone' /\ Copied' /\ LazyOnce'
    BY <1>0, <1>8, LazyAssumption DEF CloneLazy, Extended, LazyTyped, LazyInv, Alone, Copied, LazyOnce
  <2> QED
    BY <2>1, <2>2 DEF LazyInv
<1>9. CASE UNCHANGED lazyVars
  BY <1>9 DEF lazyVars, LazyInv, LazyTyped, Alone, Copied, LazyOnce
<1> QED
  BY <1>1, <1>2, <1>3, <1>4, <1>5, <1>6, <1>7, <1>8, <1>9 DEF LazyNext

\* Gets that wait for one another, fail and are dropped agree on the value, and so do clones made
\* when there was one (lazy.rs:44-59).
THEOREM LazyAgrees == LazySpec => []LazyOnce
<1>1. LazyInv => LazyOnce
  BY DEF LazyInv
<1> QED
  BY <1>1, LazyInitial, LazyStep, PTL DEF LazySpec

\* The value of a cell is never replaced.
CellKept == [][\A h \in DOMAIN cell : cell[h] # NoValue => cell'[h] = cell[h]]_lazyVars

\* Once a get has succeeded no resolver runs over its value, and no clone or dropped get takes it away
\* (lazy.rs:44-59).
THEOREM LazyKept == LazySpec => CellKept
<1> DEFINE Keeps == \A h \in DOMAIN cell : cell[h] # NoValue => cell'[h] = cell[h]
<1>1. LazyInv /\ [LazyNext]_lazyVars => [Keeps]_lazyVars
  <2> SUFFICES ASSUME LazyInv, LazyNext PROVE Keeps
    BY DEF lazyVars
  <2>1. ASSUME NEW t \in Getters, ResolverOk(t) PROVE Keeps
    BY <2>1 DEF ResolverOk, LazyInv, Alone, LazyTyped
  <2>2. ASSUME NEW h \in DOMAIN cell, NEW copy \in Handles, CloneLazy(h, copy) PROVE Keeps
    BY <2>2 DEF CloneLazy, Extended
  <2>3. ASSUME UNCHANGED cell PROVE Keeps
    BY <2>3
  <2> QED
    BY <2>1, <2>2, <2>3 DEF LazyNext, Get, Resolve, ResolverErr, GetDropped, GetHit, GetDone
<1>2. LazySpec => []LazyInv
  BY LazyInitial, LazyStep, PTL DEF LazySpec
<1> QED
  BY <1>1, <1>2, PTL DEF LazySpec, CellKept

-----------------------------------------------------------------------------
(* Sets of numbers in ascending order. *)

\* Every set of natural numbers that is not empty has a least one.
LEMMA LeastNumber ==
  ASSUME NEW S \in SUBSET Nat, S # {}
  PROVE  \E n \in S : \A m \in S : n <= m
<1> DEFINE Less == {p \in Nat \X Nat : p[1] < p[2]}
<1>1. OpToRel(<, Nat) = Less
  BY DEF OpToRel
<1>2. PICK n \in S : \A m \in S : <<m, n>> \notin Less
  BY <1>1, NatLessThanWellFounded, WFMin
<1>3. SUFFICES ASSUME NEW m \in S PROVE n <= m
  BY <1>2
<1>4. ~(m < n)
  BY <1>2
<1>5. m \in Nat /\ n \in Nat
  OBVIOUS
<1> QED
  BY <1>4, <1>5

Enumerates(q, S) ==
  q \in [1..Cardinality(S) -> S] /\ \A i, j \in DOMAIN q : i < j => q[i] < q[j]

\* A finite set of positive numbers has an enumeration in ascending order: that of the numbers
\* below its greatest one, and then that one.
LEMMA AscendingExists ==
  ASSUME NEW n \in Nat, NEW S \in SUBSET (1..n)
  PROVE  \E q : Enumerates(q, S)
<1> DEFINE Holds(k) == \A T \in SUBSET (1..k) : \E q : Enumerates(q, T)
           Bad == {k \in Nat : ~Holds(k)}
<1>1. SUFFICES Bad = {}
  OBVIOUS
<1>2. SUFFICES ASSUME Bad # {} PROVE FALSE
  OBVIOUS
<1>3. PICK k \in Bad : \A m \in Bad : k <= m
  BY <1>2, LeastNumber
<1>4. PICK T \in SUBSET (1..k) : ~ \E q : Enumerates(q, T)
  BY <1>3
<1>5. k \in Nat /\ T \subseteq 1..k
  BY <1>3, <1>4
<1> HIDE DEF Bad, Holds
<1>6. IsFiniteSet(T) /\ Cardinality(T) \in Nat
  <2>1. IsFiniteSet(1..k)
    BY <1>5, FS_Interval
  <2> QED
    BY <1>5, <2>1, FS_Subset, FS_CardinalityType
<1>7. CASE k = 0
  <2>1. T = {} /\ Cardinality(T) = 0
    <3>1. 1..k = {}
      BY <1>7
    <3> QED
      BY <1>5, <3>1, FS_EmptySet
  <2>2. Enumerates([i \in {} |-> 0], T)
    BY <2>1 DEF Enumerates
  <2> QED
    BY <1>4, <2>2
<1>8. CASE k # 0
  <2>1. k - 1 \in Nat /\ ~(k <= k - 1)
    BY <1>5, <1>8
  <2>2. Holds(k - 1)
    BY <1>3, <2>1 DEF Bad
  <2>3. CASE k \notin T
    <3>1. T \in SUBSET (1..k - 1)
      BY <1>5, <2>3
    <3> QED
      BY <1>4, <2>2, <3>1 DEF Holds
  <2>4. CASE k \in T
    <3> DEFINE c == Cardinality(T)
               R == T \ {k}
    <3>1. R \in SUBSET (1..k - 1) /\ Cardinality(R) = c - 1 /\ c \in Nat /\ c - 1 \in Nat
      <4>1. R \in SUBSET (1..k - 1)
        BY <1>5
      <4>2. IsFiniteSet(R) /\ Cardinality(R) = c - 1
        BY <1>6, <2>4, FS_RemoveElement
      <4>3. Cardinality(R) \in Nat
        BY <4>2, FS_CardinalityType
      <4> QED
        BY <1>6, <4>1, <4>2, <4>3
    <3>2. PICK q : Enumerates(q, R)
      BY <2>2, <3>1 DEF Holds
    <3> HIDE DEF R, c
    <3>3. q \in [1..c - 1 -> R] /\ \A i, j \in 1..c - 1 : i < j => q[i] < q[j]
      BY <3>1, <3>2 DEF Enumerates
    <3>4. \A x \in R : x \in T /\ x < k /\ x \in Int
      BY <3>1, <1>5 DEF R
    <3> DEFINE p == [i \in 1..c |-> IF i = c THEN k ELSE q[i]]
    <3>5. p \in [1..c -> T]
      <4>1. \A i \in 1..c : i # c => i \in 1..c - 1
        BY <3>1
      <4> QED
        BY <2>4, <3>3, <3>4, <4>1
    <3>6. \A i, j \in 1..c : i < j => p[i] < p[j]
      <4>1. SUFFICES ASSUME NEW i \in 1..c, NEW j \in 1..c, i < j PROVE p[i] < p[j]
        OBVIOUS
      <4>2. i \in 1..c - 1 /\ p[i] = q[i]
        BY <3>1, <4>1
      <4>3. CASE j = c
        BY <3>3, <3>4, <4>2, <4>3
      <4>4. CASE j # c
        <5>1. j \in 1..c - 1 /\ p[j] = q[j]
          BY <3>1, <4>4
        <5> QED
          BY <3>3, <4>1, <4>2, <5>1
      <4> QED
        BY <4>3, <4>4
    <3>7. Enumerates(p, T)
      BY <3>5, <3>6 DEF Enumerates, c
    <3> QED
      BY <1>4, <3>7
  <2> QED
    BY <2>3, <2>4
<1> QED
  BY <1>7, <1>8

\* Ascending lists exactly the elements of the set, each once.
LEMMA AscendingLists ==
  ASSUME NEW n \in Nat, NEW S \in SUBSET (1..n)
  PROVE  /\ Cardinality(S) \in Nat
         /\ Ascending(S) \in [1..Cardinality(S) -> S]
         /\ \A i, j \in 1..Cardinality(S) : i < j => Ascending(S)[i] < Ascending(S)[j]
         /\ \A x \in S : \E i \in 1..Cardinality(S) : Ascending(S)[i] = x
<1> DEFINE c == Cardinality(S)
           q == Ascending(S)
<1>1. IsFiniteSet(S) /\ c \in Nat
  <2>1. IsFiniteSet(1..n)
    BY FS_Interval
  <2> QED
    BY <2>1, FS_Subset, FS_CardinalityType
<1>2. q \in [1..c -> S] /\ \A i, j \in 1..c : i < j => q[i] < q[j]
  <2>1. PICK r : Enumerates(r, S)
    BY AscendingExists
  <2>2. r \in [1..c -> S] /\ \A i, j \in DOMAIN r : i < j => r[i] < r[j]
    BY <2>1 DEF Enumerates
  <2>3. q \in [1..c -> S] /\ \A i, j \in DOMAIN q : i < j => q[i] < q[j]
    BY <2>2 DEF Ascending
  <2> QED
    BY <2>3
<1> HIDE DEF q, c
<1>3. q \in Injection(1..c, S)
  <2>1. \A i, j \in 1..c : q[i] = q[j] => i = j
    <3>1. SUFFICES ASSUME NEW i \in 1..c, NEW j \in 1..c, i # j PROVE q[i] # q[j]
      OBVIOUS
    <3>2. q[i] \in S /\ q[j] \in S /\ i \in Int /\ j \in Int
      BY <1>2
    <3>3. q[i] \in Int /\ q[j] \in Int
      <4>1. \A x \in S : x \in Int
        OBVIOUS
      <4> QED
        BY <3>2, <4>1
    <3>4. CASE i < j
      BY <1>2, <3>3, <3>4
    <3>5. CASE j < i
      BY <1>2, <3>3, <3>5
    <3> QED
      BY <3>1, <3>2, <3>4, <3>5
  <2> QED
    BY <1>2, <2>1 DEF Injection, IsInjective
<1>4. q \in Surjection(1..c, S)
  <2>1. Cardinality(1..c) = c
    BY <1>1, FS_Interval
  <2> QED
    BY <1>1, <1>3, <2>1, FS_Injection DEF c
<1>5. \A x \in S : \E i \in 1..c : q[i] = x
  BY <1>4 DEF Surjection
<1> QED
  BY <1>1, <1>2, <1>5 DEF q, c

-----------------------------------------------------------------------------
(* The emitter. *)

\* The listeners an emit of t owes a call: those that matched when it began, in their order.
Owed(t) == {i \in 1..emission[t].before : MatchesEvent(emission[t].event, listeners[i])}
Snapshot(t) == Ascending(Owed(t))

Emission ==
  [at : {"idle", "turn", "handler", "returned", "cut"}, event : EventNames \cup {<<>>}, queue : Seq(Nat),
   before : Nat, delivered : Nat]

EmitterTyped ==
  /\ listeners \in Seq(Patterns)
  /\ emission \in [Emitters -> Emission]
  /\ heard \in [Emitters -> Seq(Nat)]
  /\ \A t \in Emitters : emission[t].before <= Len(listeners)

\* What was called and what is still in the queue make up the snapshot.
Divided(t) ==
  /\ Len(heard[t]) + Len(emission[t].queue) = Cardinality(Owed(t))
  /\ \A k \in 1..Len(heard[t]) : heard[t][k] = Snapshot(t)[k]
  /\ \A k \in 1..Len(emission[t].queue) : emission[t].queue[k] = Snapshot(t)[Len(heard[t]) + k]

Counted(t) ==
  /\ emission[t].at \in {"turn", "returned"} => emission[t].delivered = Len(heard[t])
  /\ emission[t].at \in {"handler", "cut"} => emission[t].delivered + 1 = Len(heard[t])
  /\ emission[t].at = "returned" => emission[t].queue = <<>>

EmitterInv ==
  /\ EmitterTyped
  /\ \A t \in Emitters : emission[t].at # "idle" => Divided(t) /\ Counted(t)

LEMMA EmitterInitial == EmitterInit => EmitterInv
BY DEF EmitterInit, EmitterInv, EmitterTyped, Emission, NoEmission

\* The snapshot of a set of listeners, which are the positions 1 to `before`.
LEMMA SnapshotLists ==
  ASSUME EmitterTyped, NEW t \in Emitters
  PROVE  /\ Cardinality(Owed(t)) \in Nat
         /\ Snapshot(t) \in [1..Cardinality(Owed(t)) -> Owed(t)]
         /\ \A i, j \in 1..Cardinality(Owed(t)) : i < j => Snapshot(t)[i] < Snapshot(t)[j]
         /\ \A x \in Owed(t) : \E i \in 1..Cardinality(Owed(t)) : Snapshot(t)[i] = x
         /\ Owed(t) \subseteq Nat
<1>1. emission[t].before \in Nat /\ Owed(t) \in SUBSET (1..emission[t].before)
  BY DEF EmitterTyped, Emission, Owed
<1>2. Owed(t) \subseteq Nat
  BY <1>1
<1> QED
  BY <1>1, <1>2, AscendingLists DEF Snapshot

\* A listener more, and the steps of other emits, change nothing for an emit under way.
LEMMA OwedStays ==
  ASSUME EmitterTyped, NEW t \in Emitters,
         emission'[t].before = emission[t].before, emission'[t].event = emission[t].event,
         listeners' = listeners \/ \E p \in Patterns : listeners' = Append(listeners, p)
  PROVE  Owed(t)' = Owed(t) /\ Snapshot(t)' = Snapshot(t)
<1>1. \A i \in 1..emission[t].before : listeners'[i] = listeners[i]
  BY DEF EmitterTyped, Emission
<1>2. Owed(t)' = Owed(t)
  BY <1>1 DEF Owed, MatchesEvent
<1> QED
  BY <1>2 DEF Snapshot

LEMMA OthersStay ==
  ASSUME EmitterInv, EmitterTyped', NEW t \in Emitters,
         listeners' = listeners \/ \E p \in Patterns : listeners' = Append(listeners, p),
         \A u \in Emitters \ {t} : emission'[u] = emission[u] /\ heard'[u] = heard[u],
         emission'[t].at # "idle" => Divided(t)' /\ Counted(t)'
  PROVE  EmitterInv'
<1>1. SUFFICES ASSUME NEW u \in Emitters, u # t, emission'[u].at # "idle"
               PROVE  Divided(u)' /\ Counted(u)'
  BY DEF EmitterInv
<1>2. /\ emission'[u] = emission[u] /\ heard'[u] = heard[u]
      /\ Divided(u) /\ Counted(u)
  BY <1>1 DEF EmitterInv
<1>3. Owed(u)' = Owed(u) /\ Snapshot(u)' = Snapshot(u)
  BY <1>2, OwedStays DEF EmitterInv
<1> QED
  BY <1>2, <1>3 DEF Divided, Counted

LEMMA CalledInTurn ==
  ASSUME EmitterInv, NEW t \in Emitters, CallListener(t)
  PROVE  EmitterInv'
<1> USE DEF EmitterInv
<1> DEFINE q == emission[t].queue
           h == heard[t]
<1>1. /\ q \in Seq(Nat) /\ h \in Seq(Nat) /\ q # <<>>
      /\ emission[t] \in Emission /\ emission[t].at = "turn"
  BY DEF EmitterTyped, CallListener, Emission
<1>2. /\ Tail(q) \in Seq(Nat) /\ Head(q) \in Nat /\ Head(q) = q[1]
      /\ Len(q) \in Nat \ {0} /\ Len(Tail(q)) = Len(q) - 1
      /\ \A k \in 1..Len(Tail(q)) : Tail(q)[k] = q[k + 1]
  BY <1>1
<1>3. /\ Append(h, Head(q)) \in Seq(Nat)
      /\ Len(h) \in Nat /\ Len(Append(h, Head(q))) = Len(h) + 1
      /\ Append(h, Head(q))[Len(h) + 1] = Head(q)
      /\ \A k \in 1..Len(h) : Append(h, Head(q))[k] = h[k]
  BY <1>1, <1>2
<1>4. /\ emission'[t] = [emission[t] EXCEPT !.at = "handler", !.queue = Tail(q)]
      /\ heard'[t] = Append(h, Head(q))
      /\ \A u \in Emitters \ {t} : emission'[u] = emission[u] /\ heard'[u] = heard[u]
      /\ listeners' = listeners
  BY DEF CallListener, EmitterTyped
<1>5. /\ emission'[t].at = "handler" /\ emission'[t].queue = Tail(q)
      /\ emission'[t].before = emission[t].before /\ emission'[t].event = emission[t].event
      /\ emission'[t].delivered = emission[t].delivered
      /\ emission'[t] \in Emission
  BY <1>1, <1>2, <1>4 DEF Emission
<1>6. EmitterTyped'
  <2>1. emission' \in [Emitters -> Emission] /\ heard' \in [Emitters -> Seq(Nat)]
    BY <1>3, <1>4, <1>5 DEF CallListener, EmitterTyped
  <2> QED
    BY <1>4, <1>5, <2>1 DEF EmitterTyped
<1>7. Owed(t)' = Owed(t) /\ Snapshot(t)' = Snapshot(t)
  BY <1>4, <1>5, OwedStays
<1> HIDE DEF q, h
<1>8. Divided(t)'
  <2>1. /\ Len(h) + Len(q) = Cardinality(Owed(t))
        /\ \A k \in 1..Len(h) : h[k] = Snapshot(t)[k]
        /\ \A k \in 1..Len(q) : q[k] = Snapshot(t)[Len(h) + k]
    BY <1>1 DEF Divided, q, h
  <2>2. Len(Append(h, Head(q))) + Len(Tail(q)) = Cardinality(Owed(t))
    BY <1>2, <1>3, <2>1
  <2>3. \A k \in 1..Len(h) + 1 : Append(h, Head(q))[k] = Snapshot(t)[k]
    BY <1>2, <1>3, <2>1
  <2>4. \A k \in 1..Len(q) - 1 : Tail(q)[k] = Snapshot(t)[Len(h) + 1 + k]
    <3>1. SUFFICES ASSUME NEW k \in 1..Len(q) - 1 PROVE Tail(q)[k] = Snapshot(t)[Len(h) + 1 + k]
      OBVIOUS
    <3> DEFINE lq == Len(q)
               lh == Len(h)
    <3>2. lq \in Nat \ {0} /\ lh \in Nat /\ k \in 1..lq - 1
      BY <1>2, <1>3
    <3> HIDE DEF lq, lh
    <3>3. k + 1 \in 1..lq /\ lh + (k + 1) = lh + 1 + k
      BY <3>2
    <3>4. Tail(q)[k] = q[k + 1]
      BY <1>2, <3>2 DEF lq
    <3> QED
      BY <2>1, <3>3, <3>4 DEF lq, lh
  <2> QED
    BY <1>2, <1>3, <1>4, <1>5, <1>7, <2>2, <2>3, <2>4 DEF Divided
<1>9. Counted(t)'
  BY <1>1, <1>3, <1>4, <1>5 DEF Counted, h
<1> QED
  BY <1>4, <1>6, <1>8, <1>9, OthersStay

LEMMA EmitBegins ==
  ASSUME EmitterInv, NEW t \in Emitters, NEW e \in EventNames, Emit(t, e)
  PROVE  EmitterInv'
<1> USE DEF EmitterInv
<1> DEFINE S == {i \in DOMAIN listeners : MatchesEvent(e, listeners[i])}
<1>1. S \in SUBSET (1..Len(listeners)) /\ Len(listeners) \in Nat
  BY DEF EmitterTyped
<1>2. Cardinality(S) \in Nat /\ Ascending(S) \in [1..Cardinality(S) -> S]
  BY <1>1, AscendingLists
<1>3. Ascending(S) \in Seq(Nat) /\ Len(Ascending(S)) = Cardinality(S)
  <2>1. S \subseteq Nat
    BY <1>1
  <2> DEFINE n == Cardinality(S)
             q == Ascending(S)
  <2>2. n \in Nat /\ q \in [1..n -> S]
    BY <1>2
  <2> HIDE DEF S, n, q
  <2>3. q \in [1..n -> Nat]
    BY <2>1, <2>2
  <2>4. q \in Seq(Nat) /\ Len(q) = n
    BY <2>2, <2>3
  <2> QED
    BY <2>4 DEF n, q
<1>4. /\ emission'[t] = [at |-> "turn", event |-> e, queue |-> Ascending(S), before |-> Len(listeners),
                         delivered |-> 0]
      /\ heard'[t] = <<>>
      /\ \A u \in Emitters \ {t} : emission'[u] = emission[u] /\ heard'[u] = heard[u]
      /\ listeners' = listeners
  BY DEF Emit, EmitterTyped, ListenersFor
<1>5. EmitterTyped'
  <2>1. emission'[t] \in Emission
    BY <1>1, <1>3, <1>4 DEF Emission
  <2>2. emission' \in [Emitters -> Emission] /\ heard' \in [Emitters -> Seq(Nat)]
    BY <1>4, <2>1 DEF Emit, EmitterTyped
  <2> QED
    <3>1. emission'[t].before = Len(listeners)
      BY <1>4
    <3>2. \A u \in Emitters \ {t} : emission'[u].before <= Len(listeners)
      BY <1>1, <1>4 DEF EmitterTyped
    <3>3. Len(listeners) \in Nat
      BY <1>1 DEF EmitterTyped
    <3>4. \A u \in Emitters : emission'[u].before <= Len(listeners)
      BY <3>1, <3>2, <3>3
    <3> QED
      BY <1>4, <2>2, <3>4 DEF EmitterTyped
<1>6. Owed(t)' = S
  BY <1>1, <1>4 DEF Owed, EmitterTyped
<1> HIDE DEF S
<1>7. Divided(t)' /\ Counted(t)'
  BY <1>2, <1>3, <1>4, <1>6 DEF Divided, Counted, Snapshot
<1> QED
  BY <1>4, <1>5, <1>7, OthersStay

LEMMA EmitterStep == EmitterInv /\ [EmitterNext]_emitterVars => EmitterInv'
<1> SUFFICES ASSUME EmitterInv, [EmitterNext]_emitterVars PROVE EmitterInv'
  OBVIOUS
<1> USE DEF EmitterInv
<1>1. ASSUME NEW p \in Patterns, On(p) PROVE EmitterInv'
  <2>1. EmitterTyped'
    <3>1. /\ listeners' \in Seq(Patterns) /\ Len(listeners') = Len(listeners) + 1 /\ Len(listeners) \in Nat
          /\ UNCHANGED <<emission, heard>>
      BY <1>1 DEF On, EmitterTyped
    <3>2. \A t \in Emitters : emission[t].before \in Nat /\ emission[t].before <= Len(listeners)
      BY DEF EmitterTyped, Emission
    <3> QED
      BY <3>1, <3>2 DEF EmitterTyped
  <2>2. ASSUME NEW t \in Emitters PROVE Owed(t)' = Owed(t) /\ Snapshot(t)' = Snapshot(t)
    BY <1>1, OwedStays DEF On
  <2> QED
    BY <1>1, <2>1, <2>2 DEF On, Divided, Counted
<1>2. ASSUME NEW t \in Emitters, HandlerDone(t) \/ EmitCut(t) \/ EmitReturns(t) PROVE EmitterInv'
  <2>1. /\ emission[t] \in Emission /\ heard[t] \in Seq(Nat) /\ emission[t].at \in {"turn", "handler"}
        /\ UNCHANGED <<listeners, heard>>
        /\ \A u \in Emitters \ {t} : emission'[u] = emission[u]
    BY <1>2 DEF EmitterTyped, HandlerDone, EmitCut, EmitReturns
  <2>2. /\ emission'[t] \in Emission
        /\ emission'[t].queue = emission[t].queue /\ emission'[t].before = emission[t].before
        /\ emission'[t].event = emission[t].event
    <3> DEFINE g == emission[t]
    <3>1. \/ emission'[t] = [g EXCEPT !.at = "turn", !.delivered = @ + 1]
          \/ emission'[t] = [g EXCEPT !.at = "cut"]
          \/ emission'[t] = [g EXCEPT !.at = "returned"]
      BY <1>2 DEF EmitterTyped, HandlerDone, EmitCut, EmitReturns
    <3>2. g \in Emission
      BY <2>1
    <3> HIDE DEF g
    <3>3. /\ emission'[t] \in Emission
          /\ emission'[t].queue = g.queue /\ emission'[t].before = g.before /\ emission'[t].event = g.event
      <4>1. CASE emission'[t] = [g EXCEPT !.at = "turn", !.delivered = @ + 1]
        <5>1. g.delivered + 1 \in Nat
          BY <3>2 DEF Emission
        <5> QED
          BY <3>2, <4>1, <5>1 DEF Emission
      <4>2. CASE emission'[t] = [g EXCEPT !.at = "cut"]
        BY <3>2, <4>2 DEF Emission
      <4>3. CASE emission'[t] = [g EXCEPT !.at = "returned"]
        BY <3>2, <4>3 DEF Emission
      <4> QED
        BY <3>1, <4>1, <4>2, <4>3
    <3> QED
      BY <3>3 DEF g
  <2>3. Counted(t)'
    <3>1. emission[t].at # "idle" /\ Counted(t) /\ heard'[t] = heard[t] /\ emission[t].delivered \in Nat
      BY <2>1 DEF Emission
    <3>2. CASE HandlerDone(t)
      <4>1. /\ emission[t].at = "handler" /\ emission'[t].at = "turn"
            /\ emission'[t].delivered = emission[t].delivered + 1
        BY <2>1, <3>2 DEF EmitterTyped, Emission, HandlerDone
      <4> QED
        BY <3>1, <4>1 DEF Counted
    <3>3. CASE EmitCut(t)
      <4>1. /\ emission[t].at = "handler" /\ emission'[t].at = "cut"
            /\ emission'[t].delivered = emission[t].delivered
        BY <2>1, <3>3 DEF EmitterTyped, Emission, EmitCut
      <4> QED
        BY <3>1, <4>1 DEF Counted
    <3>4. CASE EmitReturns(t)
      <4>1. /\ emission[t].at = "turn" /\ emission'[t].at = "returned"
            /\ emission[t].queue = <<>> /\ emission'[t].queue = <<>>
            /\ emission'[t].delivered = emission[t].delivered
        BY <2>1, <3>4 DEF EmitterTyped, Emission, EmitReturns
      <4> QED
        BY <3>1, <4>1 DEF Counted
    <3> QED
      BY <1>2, <3>2, <3>3, <3>4
  <2>4. EmitterTyped'
    <3>1. emission' \in [Emitters -> Emission]
      BY <1>2, <2>2 DEF EmitterTyped, HandlerDone, EmitCut, EmitReturns
    <3> QED
      BY <2>1, <2>2, <3>1 DEF EmitterTyped
  <2>5. Owed(t)' = Owed(t) /\ Snapshot(t)' = Snapshot(t)
    BY <2>1, <2>2, OwedStays
  <2>6. Divided(t)'
    BY <2>1, <2>2, <2>5 DEF Divided
  <2> QED
    BY <2>1, <2>3, <2>4, <2>6, OthersStay
<1>3. ASSUME NEW t \in Emitters, NextEmit(t) PROVE EmitterInv'
  <2>1. EmitterTyped'
    BY <1>3 DEF NextEmit, NoEmission, EmitterTyped, Emission
  <2>2. /\ UNCHANGED listeners /\ emission'[t].at = "idle"
        /\ \A u \in Emitters \ {t} : emission'[u] = emission[u] /\ heard'[u] = heard[u]
    BY <1>3 DEF NextEmit, NoEmission, EmitterTyped
  <2> QED
    BY <2>1, <2>2, OthersStay
<1>4. CASE UNCHANGED emitterVars
  <2>1. EmitterTyped' /\ UNCHANGED <<listeners, emission, heard>>
    BY <1>4 DEF emitterVars, EmitterTyped
  <2>2. ASSUME NEW t \in Emitters PROVE Owed(t)' = Owed(t) /\ Snapshot(t)' = Snapshot(t)
    BY <2>1, OwedStays
  <2> QED
    BY <2>1, <2>2 DEF Divided, Counted
<1> QED
  BY <1>1, <1>2, <1>3, <1>4, CalledInTurn, EmitBegins DEF EmitterNext

\* What an emit has called is the beginning of its snapshot, and the whole of it when it returns.
LEMMA DividedIsInOrder == EmitterInv => HeardInOrder
<1> SUFFICES ASSUME EmitterInv, NEW t \in Emitters, emission[t].at # "idle"
             PROVE  LET called == {heard[t][k] : k \in DOMAIN heard[t]}
                    IN  /\ \A k \in 2..Len(heard[t]) : heard[t][k - 1] < heard[t][k]
                        /\ called \subseteq Owed(t)
                        /\ \A i \in called, j \in Owed(t) : j < i => j \in called
                        /\ emission[t].at = "returned" =>
                             called = Owed(t) /\ emission[t].delivered = Cardinality(Owed(t))
  BY DEF HeardInOrder, Owed
<1> DEFINE n == Len(heard[t])
           c == Cardinality(Owed(t))
           called == {heard[t][k] : k \in DOMAIN heard[t]}
<1>1. /\ heard[t] \in Seq(Nat) /\ emission[t].queue \in Seq(Nat)
      /\ Divided(t) /\ Counted(t)
  BY DEF EmitterInv, EmitterTyped, Emission
<1>2. /\ c \in Nat
      /\ Snapshot(t) \in [1..c -> Owed(t)]
      /\ \A i, j \in 1..c : i < j => Snapshot(t)[i] < Snapshot(t)[j]
      /\ \A x \in Owed(t) : \E i \in 1..c : Snapshot(t)[i] = x
      /\ Owed(t) \subseteq Nat
  BY SnapshotLists DEF EmitterInv
<1>3. /\ n \in Nat /\ DOMAIN heard[t] = 1..n /\ n <= c
      /\ \A k \in 1..n : heard[t][k] = Snapshot(t)[k]
  <2>1. /\ n \in Nat /\ DOMAIN heard[t] = 1..n /\ Len(emission[t].queue) \in Nat
        /\ n + Len(emission[t].queue) = c
        /\ \A k \in 1..n : heard[t][k] = Snapshot(t)[k]
    <3>1. n \in Nat /\ DOMAIN heard[t] = 1..n /\ Len(emission[t].queue) \in Nat
      BY <1>1
    <3> QED
      BY <1>1, <3>1 DEF Divided
  <2> HIDE DEF n, c
  <2> QED
    BY <1>2, <2>1
<1> HIDE DEF n, c
<1>4. \A k \in 2..n : heard[t][k - 1] < heard[t][k]
  <2>1. SUFFICES ASSUME NEW k \in 2..n PROVE heard[t][k - 1] < heard[t][k]
    OBVIOUS
  <2>2. k - 1 \in 1..n /\ k \in 1..n /\ k - 1 \in 1..c /\ k \in 1..c /\ k - 1 < k
    BY <1>2, <1>3
  <2> QED
    BY <1>2, <1>3, <2>2
<1>5. called \subseteq Owed(t)
  BY <1>2, <1>3
<1>6. ASSUME NEW i \in called, NEW j \in Owed(t), j < i PROVE j \in called
  <2>1. PICK k \in 1..n : i = Snapshot(t)[k]
    BY <1>3
  <2>2. PICK m \in 1..c : j = Snapshot(t)[m]
    BY <1>2
  <2>3. k \in 1..c /\ i \in Nat /\ j \in Nat
    BY <1>2, <1>3, <2>1
  <2>4. ~(k < m)
    BY <1>2, <1>6, <2>1, <2>2, <2>3
  <2>5. m \in 1..n
    BY <1>2, <1>3, <2>3, <2>4
  <2> QED
    BY <1>3, <2>2, <2>5
<1>7. ASSUME emission[t].at = "returned" PROVE called = Owed(t) /\ emission[t].delivered = c
  <2>1. n = c /\ emission[t].delivered = c
    <3>1. emission[t].queue = <<>> /\ emission[t].delivered = n
      BY <1>1, <1>7 DEF Counted, n
    <3>2. n + 0 = c
      BY <1>1, <3>1 DEF Divided, n, c
    <3> QED
      BY <1>3, <3>1, <3>2
  <2>2. called = Owed(t)
    BY <1>2, <1>3, <1>5, <2>1, SMTT(30)
  <2> QED
    BY <2>1, <2>2
<1> QED
  BY <1>4, <1>5, <1>6, <1>7 DEF n, c

\* Whatever is registered or emitted while its handlers run, an emit calls the listeners that
\* matched when it began, each once, in their order (event_emitter.rs:66-94).
THEOREM EmitterOrder == EmitterSpec => []HeardInOrder
BY EmitterInitial, EmitterStep, DividedIsInOrder, PTL DEF EmitterSpec

-----------------------------------------------------------------------------
(* Lists. *)

\* What holds at zero and at the successor of every number it holds at holds of all of them.
LEMMA EveryNumber ==
  ASSUME NEW S \in SUBSET Nat, 0 \in S, \A n \in S : n + 1 \in S
  PROVE  S = Nat
<1>1. SUFFICES ASSUME Nat \ S # {} PROVE FALSE
  OBVIOUS
<1>2. PICK n \in Nat \ S : \A m \in Nat \ S : n <= m
  BY <1>1, LeastNumber
<1>3. n # 0 /\ n - 1 \in Nat /\ ~(n <= n - 1)
  BY <1>2
<1>4. n - 1 \in S
  BY <1>2, <1>3
<1>5. (n - 1) + 1 = n
  BY <1>2
<1> QED
  BY <1>2, <1>4, <1>5

\* A loop over 1..n whose turns are functions on D runs: there is a function with the value before
\* each turn.
LoopRuns(D, start, N, Turn) ==
  \E f \in [0..N -> D] : f[0] = start /\ \A n \in 1..N : f[n] = Turn[n][f[n - 1]]

LEMMA LoopExists ==
  ASSUME NEW D, NEW start \in D, NEW N \in Nat, NEW Turn \in [1..N -> [D -> D]]
  PROVE  LoopRuns(D, start, N, Turn)
<1> DEFINE IsRun(f, k) == /\ f \in [0..k -> D] /\ f[0] = start
                          /\ \A n \in 1..k : f[n] = Turn[n][f[n - 1]]
           S == {k \in Nat : k <= N => \E f : IsRun(f, k)}
<1>1. 0 \in S
  <2>1. IsRun([n \in 0..0 |-> start], 0)
    OBVIOUS
  <2> QED
    BY <2>1
<1>2. ASSUME NEW k \in S PROVE k + 1 \in S
  <2>1. k \in Nat /\ k + 1 \in Nat
    OBVIOUS
  <2>2. SUFFICES ASSUME k + 1 <= N PROVE \E f : IsRun(f, k + 1)
    BY <2>1
  <2>3. PICK f : IsRun(f, k)
    BY <2>1, <2>2
  <2> DEFINE g == [n \in 0..k + 1 |-> IF n = k + 1 THEN Turn[k + 1][f[k]] ELSE f[n]]
  <2>4. k + 1 \in 1..N /\ f[k] \in D
    BY <2>1, <2>2, <2>3
  <2>5. Turn[k + 1][f[k]] \in D
    BY <2>4
  <2>6. \A n \in 0..k + 1 : n # k + 1 => n \in 0..k
    BY <2>1
  <2>7. g \in [0..k + 1 -> D]
    BY <2>3, <2>5, <2>6
  <2>8. g[0] = start /\ g[k] = f[k]
    BY <2>1, <2>3
  <2>9. ASSUME NEW n \in 1..k + 1 PROVE g[n] = Turn[n][g[n - 1]]
    <3>1. CASE n = k + 1
      BY <2>1, <2>8, <3>1
    <3>2. CASE n # k + 1
      <4>1. n \in 1..k /\ n - 1 \in 0..k /\ n - 1 # k + 1 /\ n \in 0..k + 1 /\ n - 1 \in 0..k + 1
        BY <2>1, <2>9, <3>2
      <4>2. g[n] = f[n] /\ g[n - 1] = f[n - 1]
        BY <3>2, <4>1
      <4> QED
        BY <2>3, <4>1, <4>2
    <3> QED
      BY <3>1, <3>2
  <2> QED
    BY <2>7, <2>8, <2>9
<1>3. S = Nat
  <2> HIDE DEF S
  <2>1. S \subseteq Nat
    BY DEF S
  <2> QED
    BY <1>1, <1>2, <2>1, EveryNumber
<1> QED
  BY <1>3 DEF LoopRuns

\* An enumeration in ascending order is the only one.
LEMMA EnumerationLists ==
  ASSUME NEW n \in Nat, NEW S \in SUBSET (1..n), NEW q, Enumerates(q, S)
  PROVE  q = Ascending(S)
<1> DEFINE c == Cardinality(S)
           r == Ascending(S)
<1>1. /\ c \in Nat /\ r \in [1..c -> S]
      /\ \A i, j \in 1..c : i < j => r[i] < r[j]
      /\ \A x \in S : \E i \in 1..c : r[i] = x
  BY AscendingLists
<1>2. q \in [1..c -> S] /\ \A i, j \in 1..c : i < j => q[i] < q[j]
  BY DEF Enumerates
<1> HIDE DEF c, r
<1>4. \A x \in S : x \in Int
  OBVIOUS
<1>f. IsFiniteSet(S) /\ Cardinality(1..c) = c /\ c = Cardinality(S)
  <2>1. IsFiniteSet(1..n)
    BY FS_Interval
  <2>2. Cardinality(1..c) = c
    BY <1>1, FS_Interval
  <2> QED
    BY <2>1, <2>2, FS_Subset DEF c
<1>3. \A x \in S : \E i \in 1..c : q[i] = x
  <2>1. q \in Injection(1..c, S)
    <3>1. \A i, j \in 1..c : q[i] = q[j] => i = j
      <4> SUFFICES ASSUME NEW i \in 1..c, NEW j \in 1..c, i # j PROVE q[i] # q[j]
        OBVIOUS
      <4>0. q[i] \in S /\ q[j] \in S
        BY <1>2
      <4>1. c \in Nat
        BY <1>1
      <4>2. q[i] \in Int /\ q[j] \in Int
        BY <1>4, <4>0
      <4>5. i \in Int /\ j \in Int
        BY <4>1
      <4>3. CASE i < j
        BY <1>2, <4>2, <4>3
      <4>4. CASE j < i
        BY <1>2, <4>2, <4>4
      <4> QED
        BY <4>3, <4>4, <4>5
    <3> QED
      BY <1>2, <3>1 DEF Injection, IsInjective
  <2>3. q \in Surjection(1..c, S)
    BY <1>f, <2>1, FS_Injection
  <2> QED
    BY <2>3 DEF Surjection
<1>5. SUFFICES ASSUME {i \in 1..c : q[i] # r[i]} # {} PROVE FALSE
  BY <1>1, <1>2 DEF r
<1>6. PICK i \in {i \in 1..c : q[i] # r[i]} : \A k \in {k \in 1..c : q[k] # r[k]} : i <= k
  <2>1. {k \in 1..c : q[k] # r[k]} \in SUBSET Nat
    BY <1>1
  <2> QED
    BY <1>5, <2>1, LeastNumber
<1>7. /\ i \in 1..c /\ q[i] # r[i] /\ q[i] \in S /\ r[i] \in S
      /\ \A k \in 1..c : k < i => q[k] = r[k]
  <2>1. \A k \in 1..c : k < i => ~(i <= k)
    BY <1>1, <1>6
  <2> QED
    BY <1>1, <1>2, <1>6, <2>1
<1>t. q[i] \in Int /\ r[i] \in Int
  BY <1>4, <1>7
<1>8. CASE q[i] < r[i]
  <2>1. PICK k \in 1..c : r[k] = q[i]
    BY <1>1, <1>7
  <2>2. CASE k < i
    <3>1. q[k] = q[i] /\ q[k] < q[i]
      BY <1>2, <1>7, <2>1, <2>2
    <3> QED
      BY <1>t, <3>1
  <2>3. CASE k = i
    BY <1>7, <2>1, <2>3
  <2>4. CASE i < k
    <3>1. r[i] < r[k]
      BY <1>1, <1>7, <2>4
    <3> QED
      BY <1>t, <1>8, <2>1, <3>1
  <2> QED
    BY <1>1, <1>7, <2>2, <2>3, <2>4
<1>9. CASE r[i] < q[i]
  <2>1. PICK k \in 1..c : q[k] = r[i]
    BY <1>3, <1>7
  <2>2. CASE k < i
    <3>1. r[k] = r[i] /\ r[k] < r[i]
      BY <1>1, <1>7, <2>1, <2>2
    <3> QED
      BY <1>t, <3>1
  <2>3. CASE k = i
    BY <1>7, <2>1, <2>3
  <2>4. CASE i < k
    <3>1. q[i] < q[k]
      BY <1>2, <1>7, <2>4
    <3> QED
      BY <1>t, <1>9, <2>1, <3>1
  <2> QED
    BY <1>1, <1>7, <2>2, <2>3, <2>4
<1> QED
  BY <1>t, <1>7, <1>8, <1>9

\* The elements picked are those of the positions, in their order.
LEMMA PickedElements ==
  ASSUME NEW X, NEW s \in Seq(X), NEW S \in SUBSET DOMAIN s
  PROVE  /\ Cardinality(S) \in Nat /\ Picked(s, S) \in Seq(X) /\ Len(Picked(s, S)) = Cardinality(S)
         /\ Ascending(S) \in [1..Cardinality(S) -> S]
         /\ \A k \in 1..Cardinality(S) : Picked(s, S)[k] = s[Ascending(S)[k]]
         /\ \A i, j \in 1..Cardinality(S) : i < j => Ascending(S)[i] < Ascending(S)[j]
         /\ \A x \in S : \E k \in 1..Cardinality(S) : Ascending(S)[k] = x /\ Picked(s, S)[k] = s[x]
         /\ S # {} => Picked(s, S) # <<>>
<1> DEFINE c == Cardinality(S)
<1>1. Len(s) \in Nat /\ S \in SUBSET (1..Len(s)) /\ \A x \in S : s[x] \in X
  OBVIOUS
<1>2. /\ c \in Nat /\ Ascending(S) \in [1..c -> S]
      /\ \A i, j \in 1..c : i < j => Ascending(S)[i] < Ascending(S)[j]
      /\ \A x \in S : \E k \in 1..c : Ascending(S)[k] = x
  BY <1>1, AscendingLists
<1> HIDE DEF c
<1>3. Picked(s, S) = [k \in 1..c |-> s[Ascending(S)[k]]]
  BY DEF Picked, c
<1>4. \A k \in 1..c : s[Ascending(S)[k]] \in X
  BY <1>1, <1>2
<1>5. Picked(s, S) \in Seq(X) /\ Len(Picked(s, S)) = c
  BY <1>2, <1>3, <1>4
<1>6. S # {} => Picked(s, S) # <<>>
  BY <1>2, <1>5
<1> QED
  BY <1>2, <1>3, <1>5, <1>6 DEF c

LEMMA PickedNone ==
  ASSUME NEW s
  PROVE  Picked(s, {}) = <<>>
<1>1. Cardinality({}) = 0
  BY FS_EmptySet
<1> QED
  BY <1>1 DEF Picked

LEMMA PickedAll ==
  ASSUME NEW X, NEW s \in Seq(X)
  PROVE  Picked(s, DOMAIN s) = s
<1> DEFINE n == Len(s)
           id == [i \in 1..n |-> i]
<1>1. n \in Nat /\ DOMAIN s = 1..n
  OBVIOUS
<1>2. Cardinality(1..n) = n
  BY <1>1, FS_Interval
<1> HIDE DEF n
<1>3. Enumerates(id, 1..n)
  BY <1>1, <1>2 DEF Enumerates
<1>4. id = Ascending(1..n)
  BY <1>1, <1>3, EnumerationLists
<1>5. Picked(s, DOMAIN s) = [k \in 1..n |-> s[id[k]]]
  BY <1>1, <1>2, <1>4 DEF Picked
<1> QED
  BY <1>1, <1>5 DEF n

-----------------------------------------------------------------------------
(* The order of specificity. *)

\* The rank of a segment; what is behind the end of a pattern ranks before any segment.
Weight(p, i) == IF i \in 1..Len(p) THEN Rank[p[i][1]] ELSE 4

Lower(p, q, i) == Weight(p, i) > Weight(q, i) /\ \A k \in 1..i - 1 : Weight(p, k) = Weight(q, k)

LEMMA WeightIsNumber ==
  ASSUME NEW p \in Seq(Segments), NEW i \in Nat
  PROVE  Weight(p, i) \in 0..4 /\ (i \in 1..Len(p) => Weight(p, i) < 4)
<1>1. CASE i \in 1..Len(p)
  <2>1. p[i] \in Segments
    BY <1>1
  <2>2. p[i][1] \in {"lit", "param", "opt", "wild"}
    BY <2>1 DEF Segments
  <2> QED
    BY <1>1, <2>2 DEF Weight, Rank
<1>2. CASE i \notin 1..Len(p)
  BY <1>2 DEF Weight
<1> QED
  BY <1>1, <1>2

\* cmp_specificity compares two patterns at the first place where they weigh differently.
LEMMA BeforeIsLexicographic ==
  ASSUME NEW p \in Seq(Segments), NEW q \in Seq(Segments)
  PROVE  Before(p, q) <=> \E i \in Nat \ {0} : Lower(p, q, i)
<1> DEFINE n == IF Len(p) < Len(q) THEN Len(p) ELSE Len(q)
           differ == {i \in 1..n : Rank[p[i][1]] # Rank[q[i][1]]}
<1>0. n \in Nat /\ n <= Len(p) /\ n <= Len(q) /\ Len(p) \in Nat /\ Len(q) \in Nat
      /\ (n = Len(p) \/ n = Len(q))
  OBVIOUS
<1>1. \A i \in 1..n : Weight(p, i) = Rank[p[i][1]] /\ Weight(q, i) = Rank[q[i][1]]
  BY <1>0 DEF Weight
<1>2. CASE differ = {}
  <2>1. Before(p, q) <=> Len(p) < Len(q)
    BY <1>2 DEF Before
  <2> HIDE DEF n, differ
  <2>2. \A i \in 1..n : Weight(p, i) = Weight(q, i)
    BY <1>1, <1>2 DEF differ
  <2>3. ASSUME Len(p) < Len(q) PROVE \E i \in Nat \ {0} : Lower(p, q, i)
    <3>1. n = Len(p) /\ n + 1 \in 1..Len(q) /\ n + 1 \notin 1..Len(p) /\ (n + 1) - 1 = n /\ n + 1 \in Nat \ {0}
      BY <1>0, <2>3
    <3>2. Weight(p, n + 1) = 4 /\ Weight(q, n + 1) < 4 /\ Weight(q, n + 1) \in 0..4
      BY <3>1, WeightIsNumber DEF Weight
    <3> QED
      BY <2>2, <3>1, <3>2 DEF Lower
  <2>4. ASSUME NEW i \in Nat \ {0}, Lower(p, q, i) PROVE Len(p) < Len(q)
    <3>1. Weight(p, i) > Weight(q, i) /\ Weight(p, i) \in 0..4 /\ Weight(q, i) \in 0..4
      BY <2>4, WeightIsNumber DEF Lower
    <3>2. i \notin 1..n
      BY <2>2, <3>1
    <3>3. i \in 1..Len(q)
      BY <3>1 DEF Weight
    <3> QED
      BY <1>0, <3>2, <3>3
  <2> QED
    BY <2>1, <2>3, <2>4
<1>3. CASE differ # {}
  <2> DEFINE d == CHOOSE i \in differ : \A k \in differ : i <= k
  <2>1. \E i \in differ : \A k \in differ : i <= k
    <3>1. differ \in SUBSET Nat
      BY <1>0
    <3> HIDE DEF differ
    <3> QED
      BY <1>3, <3>1, LeastNumber
  <2>2. d \in differ /\ \A k \in differ : d <= k
    BY <2>1
  <2>3. Before(p, q) <=> Rank[p[d][1]] > Rank[q[d][1]]
    BY <1>3 DEF Before
  <2> HIDE DEF n, d
  <2>4. d \in 1..n /\ Weight(p, d) # Weight(q, d) /\ d \in Nat \ {0}
        /\ (Before(p, q) <=> Weight(p, d) > Weight(q, d))
    BY <1>0, <1>1, <2>2, <2>3
  <2>5. \A k \in 1..d - 1 : Weight(p, k) = Weight(q, k)
    <3>1. SUFFICES ASSUME NEW k \in 1..d - 1 PROVE Weight(p, k) = Weight(q, k)
      OBVIOUS
    <3>2. k \in 1..n /\ ~(d <= k)
      BY <1>0, <2>4
    <3> QED
      BY <1>1, <2>2, <3>2
  <2> HIDE DEF differ
  <2>6. ASSUME NEW i \in Nat \ {0}, Lower(p, q, i) PROVE Weight(p, d) > Weight(q, d)
    <3>0. Weight(p, i) > Weight(q, i) /\ Weight(p, i) \in 0..4 /\ Weight(q, i) \in 0..4
      BY <2>6, WeightIsNumber DEF Lower
    <3>1. CASE i < d
      <4>1. i \in 1..d - 1
        BY <2>4, <3>1
      <4> QED
        BY <2>5, <3>0, <4>1
    <3>2. CASE d < i
      <4>1. d \in 1..i - 1
        BY <2>4, <3>2
      <4> QED
        BY <2>4, <2>6, <4>1 DEF Lower
    <3>3. CASE i = d
      BY <3>0, <3>3
    <3> QED
      BY <2>4, <3>1, <3>2, <3>3
  <2> QED
    BY <2>4, <2>5, <2>6 DEF Lower
<1> QED
  BY <1>2, <1>3

\* Of two patterns at most one is before the other, and what is before a pattern is before all
\* that this pattern is before: the order a sort keeps.
LEMMA BeforeIsOrder ==
  ASSUME NEW p \in Seq(Segments), NEW q \in Seq(Segments), NEW r \in Seq(Segments), Before(p, q)
  PROVE  ~Before(q, p) /\ (Before(q, r) => Before(p, r))
<1>w. \A i \in Nat : Weight(p, i) \in Int /\ Weight(q, i) \in Int /\ Weight(r, i) \in Int
  BY WeightIsNumber
<1>1. PICK i \in Nat \ {0} : Lower(p, q, i)
  BY BeforeIsLexicographic
<1>2. ASSUME NEW j \in Nat \ {0}, Lower(q, p, j) PROVE FALSE
  <2>1. CASE i < j
    <3>1. i \in 1..j - 1
      BY <2>1
    <3> QED
      BY <1>1, <1>2, <1>w, <3>1 DEF Lower
  <2>2. CASE j < i
    <3>1. j \in 1..i - 1
      BY <2>2
    <3> QED
      BY <1>1, <1>2, <1>w, <3>1 DEF Lower
  <2>3. CASE i = j
    BY <1>1, <1>2, <1>w, <2>3 DEF Lower
  <2> QED
    BY <2>1, <2>2, <2>3
<1>3. ASSUME NEW j \in Nat \ {0}, Lower(q, r, j) PROVE \E k \in Nat \ {0} : Lower(p, r, k)
  <2>1. CASE i < j
    <3>1. i \in 1..j - 1 /\ \A k \in 1..i - 1 : k \in 1..j - 1
      BY <2>1
    <3>2. Lower(p, r, i)
      BY <1>1, <1>3, <1>w, <3>1 DEF Lower
    <3> QED
      BY <3>2
  <2>2. CASE j < i
    <3>1. j \in 1..i - 1 /\ \A k \in 1..j - 1 : k \in 1..i - 1
      BY <2>2
    <3>2. Lower(p, r, j)
      BY <1>1, <1>3, <1>w, <3>1 DEF Lower
    <3> QED
      BY <3>2
  <2>3. CASE i = j
    <3>1. Weight(p, i) > Weight(q, i) /\ \A k \in 1..i - 1 : Weight(p, k) = Weight(q, k)
      BY <1>1 DEF Lower
    <3>2. Weight(q, i) > Weight(r, i) /\ \A k \in 1..i - 1 : Weight(q, k) = Weight(r, k)
      BY <1>3, <2>3 DEF Lower
    <3>3. Weight(p, i) \in Int /\ Weight(q, i) \in Int /\ Weight(r, i) \in Int
      BY <1>w
    <3>4. Weight(p, i) > Weight(r, i)
      BY <3>1, <3>2, <3>3
    <3>5. Lower(p, r, i)
      BY <3>1, <3>2, <3>4 DEF Lower
    <3> QED
      BY <3>5
  <2> QED
    BY <2>1, <2>2, <2>3
<1> QED
  BY <1>2, <1>3, BeforeIsLexicographic

-----------------------------------------------------------------------------
(* The matcher. *)

Captured == Seq((Letters \cup Variables) \X Seq(Letters))

LEMMA CapturesTyped ==
  ASSUME NEW s \in Segments, NEW last \in BOOLEAN, NEW path \in Seq(Letters),
         NEW rest \in [1..Len(path) + 1 -> SUBSET Captured]
  PROVE  CapturesFrom(s, last, path, rest) \in [1..Len(path) + 1 -> SUBSET Captured]
<1> DEFINE L == Len(path)
           bound(j) == IF j > L THEN {} ELSE {<<<<s[2], <<path[j]>>>>>> \o c : c \in rest[j + 1]}
           value(j) == CASE s[1] = "lit" -> IF j > L THEN {} ELSE IF path[j] # s[2] THEN {} ELSE rest[j + 1]
                         [] s[1] = "param" -> bound(j)
                         [] s[1] = "opt" -> IF rest[j] # {} THEN rest[j] ELSE bound(j)
                         [] s[1] = "wild" -> IF last THEN {<<<<s[2], SubSeq(path, j, L)>>>>} ELSE {}
<1>1. L \in Nat /\ path \in [1..L -> Letters]
  OBVIOUS
<1>2. s[1] \in {"lit", "param", "opt", "wild"} /\ s[2] \in Letters \cup Variables
  BY DEF Segments
<1>3. SUFFICES ASSUME NEW j \in 1..L + 1 PROVE value(j) \in SUBSET Captured
  BY DEF CapturesFrom
<1>4. bound(j) \in SUBSET Captured
  <2>1. CASE j > L
    BY <2>1
  <2>2. CASE ~(j > L)
    <3>1. j \in 1..L /\ j + 1 \in 1..L + 1
      BY <1>1, <1>3, <2>2
    <3>2. SUFFICES ASSUME NEW c \in rest[j + 1] PROVE <<<<s[2], <<path[j]>>>>>> \o c \in Captured
      BY <2>2
    <3>3. c \in Captured
      BY <3>1
    <3>4. path[j] \in Letters
      BY <1>1, <3>1
    <3>5. <<path[j]>> \in Seq(Letters)
      BY <3>4
    <3>6. <<s[2], <<path[j]>>>> \in (Letters \cup Variables) \X Seq(Letters)
      BY <1>2, <3>5
    <3> QED
      BY <3>3, <3>6 DEF Captured
  <2> QED
    BY <2>1, <2>2
<1>5. j <= L => rest[j + 1] \in SUBSET Captured
  BY <1>1
<1>6. {<<<<s[2], SubSeq(path, j, L)>>>>} \in SUBSET Captured
  <2>1. SubSeq(path, j, L) \in Seq(Letters)
    BY <1>1
  <2>2. <<s[2], SubSeq(path, j, L)>> \in (Letters \cup Variables) \X Seq(Letters)
    BY <1>2, <2>1
  <2> QED
    BY <2>2 DEF Captured
<1> HIDE DEF bound, Captured
<1>7. rest[j] \in SUBSET Captured
  OBVIOUS
<1>8. CASE s[1] = "lit"
  BY <1>1, <1>5, <1>8
<1>9. CASE s[1] = "param"
  BY <1>4, <1>9
<1>10. CASE s[1] = "opt"
  BY <1>4, <1>7, <1>10
<1>11. CASE s[1] = "wild"
  BY <1>6, <1>11
<1> QED
  BY <1>2, <1>8, <1>9, <1>10, <1>11

\* What the matcher captures with the last n segments of a pattern, from each place of the path.
IsMatcher(by, p, path) ==
  /\ by \in [0..Len(p) -> [1..Len(path) + 1 -> SUBSET Captured]]
  /\ \A j \in 1..Len(path) + 1 : by[0][j] = IF j = Len(path) + 1 THEN {<<>>} ELSE {}
  /\ \A n \in 1..Len(p) : by[n] = CapturesFrom(p[Len(p) + 1 - n], n = 1, path, by[n - 1])
  /\ Captures(p, path) = by[Len(p)][1]

LEMMA MatcherRuns ==
  ASSUME NEW p \in Seq(Segments), NEW path \in Seq(Letters)
  PROVE  \E by : IsMatcher(by, p, path)
<1> DEFINE N == Len(p)
           D == [1..Len(path) + 1 -> SUBSET Captured]
           start == [j \in 1..Len(path) + 1 |-> IF j = Len(path) + 1 THEN {<<>>} ELSE {}]
           Turn == [n \in 1..N |-> [g \in D |-> CapturesFrom(p[N + 1 - n], n = 1, path, g)]]
           IsRun(f) == f = [n \in 0..N |-> IF n = 0 THEN start
                                           ELSE CapturesFrom(p[N + 1 - n], n = 1, path, f[n - 1])]
<1>1. N \in Nat
  OBVIOUS
<1>2. start \in D
  <2>1. <<>> \in Captured
    BY DEF Captured
  <2> QED
    BY <2>1
<1>3. ASSUME NEW n \in 1..N, NEW g \in D PROVE CapturesFrom(p[N + 1 - n], n = 1, path, g) \in D
  <2>1. p[N + 1 - n] \in Segments
    BY <1>1
  <2> QED
    BY <2>1, CapturesTyped
<1> HIDE DEF D, N, start
<1>4. Turn \in [1..N -> [D -> D]]
  BY <1>3
<1>5. PICK f \in [0..N -> D] : f[0] = start /\ \A n \in 1..N : f[n] = Turn[n][f[n - 1]]
  <2> HIDE DEF Turn
  <2>1. LoopRuns(D, start, N, Turn)
    BY <1>1, <1>2, <1>4, LoopExists
  <2> QED
    BY <2>1 DEF LoopRuns
<1>6. \A n \in 1..N : n - 1 \in 0..N /\ n # 0 /\ n \in 0..N
  BY <1>1
<1>7. IsRun(f)
  <2>1. \A n \in 1..N : Turn[n][f[n - 1]] = CapturesFrom(p[N + 1 - n], n = 1, path, f[n - 1])
    BY <1>5, <1>6
  <2> DEFINE g == [n \in 0..N |-> IF n = 0 THEN start ELSE CapturesFrom(p[N + 1 - n], n = 1, path, f[n - 1])]
  <2>2. \A n \in 0..N : n # 0 => n \in 1..N
    BY <1>1
  <2> HIDE DEF Turn
  <2>3. \A n \in 0..N : f[n] = g[n]
    BY <1>5, <2>1, <2>2
  <2> QED
    BY <1>5, <2>3
<1> DEFINE by == CHOOSE g : IsRun(g)
<1>8. IsRun(by)
  <2> HIDE DEF IsRun
  <2> QED
    BY <1>7
<1>9. Captures(p, path) = by[N][1]
  BY DEF Captures, start, N
<1> HIDE DEF by
<1>10. /\ by[0] = start
       /\ \A n \in 1..N : by[n] = CapturesFrom(p[N + 1 - n], n = 1, path, by[n - 1])
  BY <1>1, <1>6, <1>8
<1>11. \A n \in 0..N : by[n] \in D
  <2> DEFINE S == {n \in Nat : n <= N => by[n] \in D}
  <2>1. 0 \in S
    BY <1>2, <1>10
  <2>2. ASSUME NEW n \in S PROVE n + 1 \in S
    <3>1. n \in Nat /\ n + 1 \in Nat /\ (n + 1) - 1 = n
      OBVIOUS
    <3>2. SUFFICES ASSUME n + 1 <= N PROVE by[n + 1] \in D
      BY <3>1
    <3>3. n + 1 \in 1..N /\ by[n] \in D
      BY <1>1, <3>1, <3>2
    <3>4. by[n + 1] = CapturesFrom(p[N + 1 - (n + 1)], n + 1 = 1, path, by[n])
      BY <1>10, <3>1, <3>3
    <3> QED
      BY <1>3, <3>3, <3>4
  <2>3. S = Nat
    <3> HIDE DEF S
    <3>1. S \in SUBSET Nat
      BY DEF S
    <3> QED
      BY <2>1, <2>2, <3>1, EveryNumber
  <2> QED
    BY <1>1, <2>3
<1>12. by = [n \in 0..N |-> by[n]]
  BY <1>8
<1>13. by \in [0..N -> D]
  BY <1>11, <1>12
<1>14. \A j \in 1..Len(path) + 1 : by[0][j] = IF j = Len(path) + 1 THEN {<<>>} ELSE {}
  BY <1>10 DEF start
<1>15. IsMatcher(by, p, path)
  BY <1>9, <1>10, <1>13, <1>14 DEF IsMatcher, N, D
<1> QED
  BY <1>15

\* An optional parameter or a wildcard closes the pattern.
Open(p) == p # <<>> /\ p[Len(p)][1] \in {"opt", "wild"}
Fixed(p, n) == IF n # 0 /\ Open(p) THEN n - 1 ELSE n

\* The rest of the path from j is one for the last n segments: as many segments as are fixed, no
\* more than all of them unless there is a wildcard, and the literals where they are written.
Fits(p, path, n, j) ==
  LET m == Len(path) + 1 - j
  IN  /\ Fixed(p, n) <= m
      /\ m <= n \/ (Open(p) /\ p[Len(p)][1] = "wild")
      /\ \A i \in 1..Fixed(p, n) :
           p[Len(p) - n + i][1] = "lit" => path[j + i - 1] = p[Len(p) - n + i][2]

\* Where the matcher finds captures, in the terms of its next segment.
AfterTurn(by, path, n, j, s) ==
  /\ s[1] \in {"lit", "param", "opt", "wild"}
  /\ s[1] = "lit" => (by[n][j] # {} <=> j <= Len(path) /\ path[j] = s[2] /\ by[n - 1][j + 1] # {})
  /\ s[1] = "param" => (by[n][j] # {} <=> j <= Len(path) /\ by[n - 1][j + 1] # {})
  /\ s[1] = "opt" => (by[n][j] # {} <=> by[n - 1][j] # {} \/ (j <= Len(path) /\ by[n - 1][j + 1] # {}))
  /\ s[1] = "wild" => (by[n][j] # {} <=> n = 1)

LEMMA MatcherTurn ==
  ASSUME NEW p \in Seq(Segments), NEW path \in Seq(Letters), NEW by, IsMatcher(by, p, path),
         NEW n \in 1..Len(p), NEW j \in 1..Len(path) + 1, NEW s, s = p[Len(p) + 1 - n]
  PROVE  AfterTurn(by, path, n, j, s)
<1> DEFINE L == Len(path)
           rest == by[n - 1]
           bound == IF j > L THEN {} ELSE {<<<<s[2], <<path[j]>>>>>> \o c : c \in rest[j + 1]}
<1>1. L \in Nat /\ Len(p) \in Nat
  OBVIOUS
<1>2. s[1] \in {"lit", "param", "opt", "wild"}
  <2>1. s \in Segments
    BY <1>1
  <2> QED
    BY <2>1 DEF Segments
<1>3. by[n] = CapturesFrom(s, n = 1, path, rest)
  BY DEF IsMatcher
<1> HIDE DEF rest
<1>4. by[n][j] = CASE s[1] = "lit" -> IF j > L THEN {} ELSE IF path[j] # s[2] THEN {} ELSE rest[j + 1]
                   [] s[1] = "param" -> bound
                   [] s[1] = "opt" -> IF rest[j] # {} THEN rest[j] ELSE bound
                   [] s[1] = "wild" -> IF n = 1 THEN {<<<<s[2], SubSeq(path, j, L)>>>>} ELSE {}
  BY <1>3 DEF CapturesFrom
<1>5. bound # {} <=> j <= L /\ rest[j + 1] # {}
  <2>1. j \in Nat /\ (j > L <=> ~(j <= L))
    BY <1>1
  <2>2. CASE j <= L
    <3>1. bound = {<<<<s[2], <<path[j]>>>>>> \o c : c \in rest[j + 1]}
      BY <2>1, <2>2
    <3> QED
      BY <2>2, <3>1
  <2>3. CASE ~(j <= L)
    BY <2>1, <2>3
  <2> QED
    BY <2>2, <2>3
<1> HIDE DEF bound
<1>6. s[1] = "lit" => (by[n][j] # {} <=> j <= L /\ path[j] = s[2] /\ rest[j + 1] # {})
  BY <1>1, <1>4
<1>7. s[1] = "param" => (by[n][j] # {} <=> j <= L /\ rest[j + 1] # {})
  BY <1>4, <1>5
<1>8. s[1] = "opt" => (by[n][j] # {} <=> rest[j] # {} \/ (j <= L /\ rest[j + 1] # {}))
  BY <1>4, <1>5
<1>9. s[1] = "wild" => (by[n][j] # {} <=> n = 1)
  BY <1>4
<1> QED
  BY <1>2, <1>6, <1>7, <1>8, <1>9 DEF rest, AfterTurn

\* With the last segment alone, and with one segment more.
LEMMA FitsLast ==
  ASSUME NEW p \in Seq(Segments), NEW path \in Seq(Letters), NEW by, IsMatcher(by, p, path),
         p # <<>>, NEW j \in 1..Len(path) + 1
  PROVE  by[1][j] # {} <=> Fits(p, path, 1, j)
<1> DEFINE L == Len(path)
           N == Len(p)
           s == p[N]
<1>1. L \in Nat /\ N \in Nat /\ N # 0 /\ 1 \in 1..N /\ j \in Nat /\ j <= L + 1
  OBVIOUS
<1>2. s = p[Len(p) + 1 - 1]
  BY <1>1
<1>3. by[0][j] # {} <=> j = L + 1
  BY DEF IsMatcher
<1>4. j <= L => (by[0][j + 1] # {} <=> j = L)
  <2>1. SUFFICES ASSUME j <= L PROVE by[0][j + 1] # {} <=> j = L
    OBVIOUS
  <2>2. j + 1 \in 1..Len(path) + 1
    BY <1>1, <2>1
  <2>3. by[0][j + 1] = IF j + 1 = L + 1 THEN {<<>>} ELSE {}
    BY <2>2 DEF IsMatcher
  <2> QED
    BY <1>1, <2>3
<1>5. /\ s[1] \in {"lit", "param", "opt", "wild"}
      /\ s[1] = "lit" => (by[1][j] # {} <=> j <= L /\ path[j] = s[2] /\ by[0][j + 1] # {})
      /\ s[1] = "param" => (by[1][j] # {} <=> j <= L /\ by[0][j + 1] # {})
      /\ s[1] = "opt" => (by[1][j] # {} <=> by[0][j] # {} \/ (j <= L /\ by[0][j + 1] # {}))
      /\ s[1] = "wild" => by[1][j] # {}
  <2>1. 1 - 1 = 0
    OBVIOUS
  <2> HIDE DEF s
  <2> QED
    BY <1>1, <1>2, <2>1, MatcherTurn DEF AfterTurn
<1> DEFINE f == Fixed(p, 1)
           m == L + 1 - j
<1>6. Fits(p, path, 1, j) <=>
        /\ f <= m /\ (m <= 1 \/ (Open(p) /\ s[1] = "wild"))
        /\ \A i \in 1..f : p[N - 1 + i][1] = "lit" => path[j + i - 1] = p[N - 1 + i][2]
  BY DEF Fits
<1>7. Open(p) <=> s[1] \in {"opt", "wild"}
  BY DEF Open
<1>8. f = IF s[1] \in {"opt", "wild"} THEN 0 ELSE 1
  BY <1>7 DEF Fixed
<1>9. m \in Nat
  BY <1>1
<1> HIDE DEF s, f
<1>10. CASE s[1] \in {"lit", "param"}
  <2>1. f = 1 /\ ~Open(p)
    BY <1>7, <1>8, <1>10
  <2>2. \A i \in 1..f : i = 1
    BY <2>1
  <2>3. N - 1 + 1 = N /\ j + 1 - 1 = j /\ 1 \in 1..f
    BY <1>1, <2>1
  <2>4. Fits(p, path, 1, j) <=> m = 1 /\ (s[1] = "lit" => path[j] = s[2])
    <3>1. (\A i \in 1..f : p[N - 1 + i][1] = "lit" => path[j + i - 1] = p[N - 1 + i][2])
            <=> (s[1] = "lit" => path[j] = s[2])
      BY <2>2, <2>3 DEF s
    <3> QED
      BY <1>6, <1>9, <2>1, <3>1
  <2>5. m = 1 <=> j = L
    BY <1>1
  <2>6. CASE s[1] = "lit"
    BY <1>1, <1>4, <1>5, <2>4, <2>5, <2>6
  <2>7. CASE s[1] = "param"
    BY <1>1, <1>4, <1>5, <2>4, <2>5, <2>7
  <2> QED
    BY <1>10, <2>6, <2>7
<1>11. CASE s[1] = "opt"
  <2>1. Fits(p, path, 1, j) <=> m <= 1
    BY <1>6, <1>8, <1>9, <1>11
  <2>2. m <= 1 <=> j = L + 1 \/ j = L
    BY <1>1
  <2> QED
    BY <1>1, <1>3, <1>4, <1>5, <1>11, <2>1, <2>2
<1>12. CASE s[1] = "wild"
  BY <1>5, <1>6, <1>7, <1>8, <1>9, <1>12
<1> QED
  BY <1>5, <1>10, <1>11, <1>12

LEMMA FitsMore ==
  ASSUME NEW p \in Seq(Segments), NEW path \in Seq(Letters), NEW by, IsMatcher(by, p, path),
         Parses(p), NEW n \in Nat \ {0}, n + 1 <= Len(p),
         \A j \in 1..Len(path) + 1 : by[n][j] # {} <=> Fits(p, path, n, j),
         NEW j \in 1..Len(path) + 1
  PROVE  by[n + 1][j] # {} <=> Fits(p, path, n + 1, j)
<1> DEFINE L == Len(path)
           N == Len(p)
           s == p[N - n]
           f == Fixed(p, n)
           m == L + 1 - j
           wild == Open(p) /\ p[N][1] = "wild"
           Rest(k, g, i) == \A x \in 1..g : p[N - k + x][1] = "lit" => path[i + x - 1] = p[N - k + x][2]
<1>1. /\ L \in Nat /\ N \in Nat /\ n \in Nat /\ n + 1 \in 1..N /\ j \in Nat /\ j >= 1 /\ j <= L + 1 /\ m \in Nat
      /\ N + 1 - (n + 1) = N - n /\ (n + 1) - 1 = n /\ N - n \in 1..N /\ N - n # N
  OBVIOUS
<1>2. s[1] \notin {"opt", "wild"}
  BY <1>1 DEF Parses
<1>3. /\ s[1] \in {"lit", "param"}
      /\ by[n + 1][j] # {} <=> j <= L /\ (s[1] = "lit" => path[j] = s[2]) /\ by[n][j + 1] # {}
  <2>1. s = p[Len(p) + 1 - (n + 1)]
    BY <1>1
  <2> HIDE DEF s
  <2>2. AfterTurn(by, path, n + 1, j, s)
    BY <1>1, <2>1, MatcherTurn
  <2> QED
    BY <1>1, <1>2, <2>2 DEF AfterTurn
<1>4. f \in Nat /\ Fixed(p, n + 1) = f + 1
  BY <1>1 DEF Fixed
<1> HIDE DEF f, s, wild
<1>5. Fits(p, path, n + 1, j) <=> f + 1 <= m /\ (m <= n + 1 \/ wild) /\ Rest(n + 1, f + 1, j)
  BY <1>4 DEF Fits, wild
<1>6. CASE j = L + 1
  <2>1. ~(j <= L) /\ m = 0
    BY <1>1, <1>6
  <2> QED
    BY <1>3, <1>4, <1>5, <2>1
<1>7. CASE j # L + 1
  <2>1. j <= L /\ j + 1 \in 1..L + 1 /\ L + 1 - (j + 1) = m - 1
    BY <1>1, <1>7
  <2>2. by[n][j + 1] # {} <=> f <= m - 1 /\ (m - 1 <= n \/ wild) /\ Rest(n, f, j + 1)
    <3>1. by[n][j + 1] # {} <=> Fits(p, path, n, j + 1)
      BY <2>1
    <3>2. Fits(p, path, n, j + 1) <=> f <= m - 1 /\ (m - 1 <= n \/ wild) /\ Rest(n, f, j + 1)
      BY <2>1 DEF Fits, wild, f
    <3> QED
      BY <3>1, <3>2
  <2>3. Rest(n + 1, f + 1, j) <=> (s[1] = "lit" => path[j] = s[2]) /\ Rest(n, f, j + 1)
    <3>1. N - (n + 1) + 1 = N - n /\ j + 1 - 1 = j /\ 1 \in 1..f + 1
      BY <1>1, <1>4, SMTT(30)
    <3>2. ASSUME Rest(n + 1, f + 1, j), NEW x \in 1..f, p[N - n + x][1] = "lit"
          PROVE  path[(j + 1) + x - 1] = p[N - n + x][2]
      <4>1. x + 1 \in 1..f + 1 /\ N - (n + 1) + (x + 1) = N - n + x /\ j + (x + 1) - 1 = (j + 1) + x - 1
        BY <1>1, <1>4
      <4> QED
        BY <3>2, <4>1
    <3>3. ASSUME Rest(n, f, j + 1), s[1] = "lit" => path[j] = s[2], NEW x \in 1..f + 1,
                 p[N - (n + 1) + x][1] = "lit"
          PROVE  path[j + x - 1] = p[N - (n + 1) + x][2]
      <4>1. CASE x = 1
        BY <3>1, <3>3, <4>1 DEF s
      <4>2. CASE x # 1
        <5>1. x - 1 \in 1..f /\ N - n + (x - 1) = N - (n + 1) + x /\ (j + 1) + (x - 1) - 1 = j + x - 1
          BY <1>1, <1>4, <4>2
        <5> QED
          BY <3>3, <5>1
      <4> QED
        BY <4>1, <4>2
    <3>4. Rest(n + 1, f + 1, j) => (s[1] = "lit" => path[j] = s[2])
      BY <3>1 DEF s
    <3> QED
      BY <3>2, <3>3, <3>4
  <2>4. (f + 1 <= m <=> f <= m - 1) /\ (m <= n + 1 <=> m - 1 <= n)
    BY <1>1, <1>4
  <2> HIDE DEF Rest
  <2> QED
    BY <1>3, <1>5, <2>1, <2>2, <2>3, <2>4
<1> QED
  BY <1>6, <1>7

LEMMA PathIsList ==
  ASSUME NEW path \in RequestPaths
  PROVE  path \in Seq(Letters) /\ Len(path) \in 0..MaxPath
<1>1. PICK n \in 0..MaxPath : path \in [1..n -> Letters]
  BY DEF RequestPaths
<1>2. n \in Nat
  BY RoutingAssumption
<1> QED
  BY <1>1, <1>2

\* What it takes to be a path of a pattern.
LEMMA LanguageIs ==
  ASSUME NEW p \in Seq(Segments), NEW path \in RequestPaths
  PROVE  path \in Language(p) <=>
           /\ Fixed(p, Len(p)) <= Len(path)
           /\ Len(path) <= Len(p) \/ (Open(p) /\ p[Len(p)][1] = "wild")
           /\ \A i \in 1..Fixed(p, Len(p)) : p[i][1] = "lit" => path[i] = p[i][2]
<1> DEFINE L == Len(path)
           N == Len(p)
<1>0. path \in Seq(Letters) /\ L \in Nat /\ N \in Nat
  BY PathIsList
<1> DEFINE open == IF p = <<>> THEN FALSE ELSE p[Len(p)][1] \in {"opt", "wild"}
           fixed == IF open THEN Len(p) - 1 ELSE Len(p)
           most == CASE open /\ p[Len(p)][1] = "opt" -> {fixed, fixed + 1}
                     [] open /\ p[Len(p)][1] = "wild" -> {k \in {Len(q) : q \in RequestPaths} : k >= fixed}
                     [] OTHER -> {fixed}
<1>1. path \in Language(p) <=> L \in most /\ \A i \in 1..fixed : p[i][1] = "lit" => path[i] = p[i][2]
  BY DEF Language
<1>2. open <=> Open(p)
  BY DEF Open
<1>3. fixed = Fixed(p, N) /\ fixed \in Nat /\ (open => N = fixed + 1) /\ (~open => N = fixed)
  BY <1>0, <1>2 DEF Fixed, Open
<1>4. L \in {Len(q) : q \in RequestPaths}
  OBVIOUS
<1>5. L \in most <=> fixed <= L /\ (L <= N \/ (open /\ p[N][1] = "wild"))
  <2> HIDE DEF fixed, L, N
  <2>1. CASE ~open
    <3>1. most = {fixed}
      BY <2>1
    <3> QED
      BY <1>0, <1>3, <2>1, <3>1
  <2>2. CASE open /\ p[Len(p)][1] = "opt"
    <3>1. most = {fixed, fixed + 1} /\ p[N][1] # "wild"
      BY <2>2 DEF N
    <3> QED
      BY <1>0, <1>3, <2>2, <3>1
  <2>3. CASE open /\ p[Len(p)][1] = "wild"
    <3>1. most = {k \in {Len(q) : q \in RequestPaths} : k >= fixed} /\ p[N][1] = "wild"
      BY <2>3 DEF N
    <3> QED
      BY <1>0, <1>3, <1>4, <2>3, <3>1
  <2> QED
    BY <2>1, <2>2, <2>3
<1> HIDE DEF open, fixed, most
<1> QED
  BY <1>1, <1>2, <1>3, <1>5

\* The matcher accepts exactly the paths a pattern stands for.
LEMMA MatchesLanguage ==
  ASSUME NEW p \in Seq(Segments), Parses(p), NEW path \in RequestPaths
  PROVE  Matches(p, path) <=> path \in Language(p)
<1> DEFINE L == Len(path)
           N == Len(p)
<1>1. path \in Seq(Letters) /\ L \in Nat /\ N \in Nat /\ 1 \in 1..L + 1
  BY PathIsList
<1>2. PICK by : IsMatcher(by, p, path)
  BY <1>1, MatcherRuns
<1>3. Matches(p, path) <=> by[N][1] # {}
  BY <1>2 DEF IsMatcher, Matches
<1>4. by[N][1] # {} <=> Fits(p, path, N, 1)
  <2>1. CASE N = 0
    <3>1. Fits(p, path, 0, 1) <=> L <= 0
      BY <1>1, <2>1 DEF Fits, Fixed, Open
    <3>2. by[0][1] # {} <=> 1 = L + 1
      BY <1>1, <1>2 DEF IsMatcher
    <3> QED
      BY <1>1, <2>1, <3>1, <3>2
  <2>2. CASE N # 0
    <3> DEFINE S == {n \in Nat : n + 1 <= N => \A j \in 1..L + 1 : by[n + 1][j] # {} <=> Fits(p, path, n + 1, j)}
    <3>1. 0 \in S
      <4>1. p # <<>>
        BY <2>2
      <4> QED
        BY <1>1, <1>2, <4>1, FitsLast
    <3>2. ASSUME NEW n \in S PROVE n + 1 \in S
      <4>1. n \in Nat /\ n + 1 \in Nat \ {0} /\ (n + 1) + 1 \in Nat
        OBVIOUS
      <4>2. SUFFICES ASSUME (n + 1) + 1 <= N, NEW j \in 1..L + 1
                     PROVE  by[(n + 1) + 1][j] # {} <=> Fits(p, path, (n + 1) + 1, j)
        BY <4>1
      <4>3. \A k \in 1..L + 1 : by[n + 1][k] # {} <=> Fits(p, path, n + 1, k)
        BY <1>1, <4>1, <4>2
      <4> QED
        BY <1>1, <1>2, <4>1, <4>2, <4>3, FitsMore
    <3>3. S = Nat
      <4> HIDE DEF S
      <4>1. S \in SUBSET Nat
        BY DEF S
      <4> QED
        BY <3>1, <3>2, <4>1, EveryNumber
    <3>4. N - 1 \in S /\ (N - 1) + 1 = N /\ N - 1 \in Nat
      <4>1. N - 1 \in Nat /\ (N - 1) + 1 = N
        BY <1>1, <2>2
      <4> HIDE DEF S
      <4> QED
        BY <3>3, <4>1
    <3> QED
      BY <1>1, <3>4
  <2> QED
    BY <2>1, <2>2
<1>5. Fits(p, path, N, 1) <=>
        /\ Fixed(p, N) <= L /\ (L <= N \/ (Open(p) /\ p[N][1] = "wild"))
        /\ \A i \in 1..Fixed(p, N) : p[i][1] = "lit" => path[i] = p[i][2]
  <2>1. L + 1 - 1 = L /\ Fixed(p, N) \in Nat
    BY <1>1 DEF Fixed, Open
  <2>2. \A i \in 1..Fixed(p, N) : N - N + i = i /\ 1 + i - 1 = i
    BY <1>1, <2>1
  <2> HIDE DEF N
  <2> QED
    BY <2>1, <2>2 DEF Fits, N
<1>6. path \in Language(p) <=>
        /\ Fixed(p, N) <= L /\ (L <= N \/ (Open(p) /\ p[N][1] = "wild"))
        /\ \A i \in 1..Fixed(p, N) : p[i][1] = "lit" => path[i] = p[i][2]
  BY LanguageIs
<1> QED
  BY <1>3, <1>4, <1>5, <1>6

-----------------------------------------------------------------------------
(* Registration. *)

\* Where the routes of the new list come from: a position of the old one, or 0 for the new route.
Placing(at, rs, r) ==
  LET behind == {i \in DOMAIN rs : Before(r.pattern, rs[i].pattern)}
      q == Insert(rs, r)
  IN  /\ at \in [DOMAIN q -> 0..Len(rs)]
      /\ \A k \in DOMAIN q : q[k] = IF at[k] = 0 THEN r ELSE rs[at[k]]
      /\ \A j, k \in DOMAIN q : j < k =>
           \/ at[j] # 0 /\ at[k] # 0 /\ at[j] < at[k]
           \/ at[j] # 0 /\ at[j] \notin behind /\ at[k] \in {0} \cup behind
           \/ at[j] = 0 /\ at[k] \in behind

Joins(q, a, b) ==
  /\ Len(q) = Len(a) + Len(b)
  /\ \A k \in 1..Len(a) : q[k] = a[k]
  /\ \A k \in 1..Len(b) : q[Len(a) + k] = b[k]

LEMMA ConcatJoins ==
  ASSUME NEW X, NEW a \in Seq(X), NEW b \in Seq(X)
  PROVE  a \o b \in Seq(X) /\ Joins(a \o b, a, b)
<1>1. a \o b \in Seq(X) /\ Len(a \o b) = Len(a) + Len(b) /\ \A k \in 1..Len(a) : (a \o b)[k] = a[k]
  OBVIOUS
<1>2. ASSUME NEW k \in 1..Len(b) PROVE (a \o b)[Len(a) + k] = b[k]
  <2>1. Len(a) + k \in 1..Len(a) + Len(b) /\ Len(a) + k > Len(a) /\ (Len(a) + k) - Len(a) = k
    OBVIOUS
  <2> QED
    BY <2>1
<1> QED
  BY <1>1, <1>2 DEF Joins

\* A registration puts the new route between those it is not before and those it is before, and
\* leaves these in their order.
LEMMA Inserted ==
  ASSUME NEW X, NEW rs \in Seq(X), NEW r \in X
  PROVE  /\ Insert(rs, r) \in Seq(X) /\ Len(Insert(rs, r)) = Len(rs) + 1
         /\ \E at : Placing(at, rs, r)
<1> DEFINE behind == {i \in DOMAIN rs : Before(r.pattern, rs[i].pattern)}
           front == DOMAIN rs \ behind
           F == Cardinality(front)
           B == Cardinality(behind)
           x == Picked(rs, front)
           y == Picked(rs, behind)
           u == Ascending(front)
           v == Ascending(behind)
           q == Insert(rs, r)
           n == Len(rs)
<1>0. n \in Nat /\ DOMAIN rs = 1..n /\ behind \subseteq DOMAIN rs
  OBVIOUS
<1>1. q = x \o <<r>> \o y
  BY DEF Insert
<1>2. /\ F \in Nat /\ x \in Seq(X) /\ Len(x) = F /\ u \in [1..F -> front]
      /\ \A k \in 1..F : x[k] = rs[u[k]]
      /\ \A i, j \in 1..F : i < j => u[i] < u[j]
  <2> HIDE DEF behind
  <2>1. front \in SUBSET DOMAIN rs
    OBVIOUS
  <2> HIDE DEF front
  <2> QED
    BY <2>1, PickedElements
<1>3. /\ B \in Nat /\ y \in Seq(X) /\ Len(y) = B /\ v \in [1..B -> behind]
      /\ \A k \in 1..B : y[k] = rs[v[k]]
      /\ \A i, j \in 1..B : i < j => v[i] < v[j]
  <2> HIDE DEF behind
  <2> QED
    BY <1>0, PickedElements
<1>4. F + B = n
  <2>1. IsFiniteSet(1..n) /\ Cardinality(1..n) = n
    BY <1>0, FS_Interval
  <2>2. behind \cap (1..n) = behind /\ (1..n) \cap behind = behind
    BY <1>0
  <2> HIDE DEF behind
  <2>3. Cardinality((1..n) \ behind) = n - B
    <3>1. Cardinality((1..n) \ behind) = Cardinality(1..n) - Cardinality((1..n) \cap behind)
      BY <2>1, FS_Difference
    <3> QED
      BY <2>1, <2>2, <3>1
  <2>4. front = (1..n) \ behind
    BY <1>0
  <2> QED
    BY <1>0, <1>3, <2>3, <2>4
<1> HIDE DEF behind, front, F, B, x, y, u, v, q, n
<1>5. /\ q \in Seq(X) /\ Len(q) = F + 1 + B /\ DOMAIN q = 1..F + 1 + B
      /\ \A k \in 1..F : q[k] = x[k]
      /\ q[F + 1] = r
      /\ \A k \in 1..B : q[F + 1 + k] = y[k]
  <2> DEFINE z == x \o <<r>>
  <2>1. z \in Seq(X) /\ Len(z) = F + 1 /\ z[F + 1] = r /\ \A k \in 1..F : z[k] = x[k]
    BY <1>2
  <2>2. q = z \o y
    BY <1>1
  <2> HIDE DEF z
  <2>3. /\ q \in Seq(X) /\ Len(q) = F + 1 + B
        /\ \A k \in 1..F + 1 : q[k] = z[k]
        /\ \A k \in 1..B : q[F + 1 + k] = y[k]
    <3>1. z \o y \in Seq(X) /\ Joins(z \o y, z, y)
      BY <1>3, <2>1, ConcatJoins
    <3> QED
      BY <1>3, <2>1, <2>2, <3>1 DEF Joins
  <2>4. F + 1 \in 1..F + 1 /\ \A k \in 1..F : k \in 1..F + 1
    BY <1>2
  <2> QED
    BY <2>1, <2>3, <2>4
<1> DEFINE at == [k \in 1..F + 1 + B |-> IF k <= F THEN u[k] ELSE IF k = F + 1 THEN 0 ELSE v[k - (F + 1)]]
<1>6. /\ \A k \in 1..F : at[k] = u[k] /\ u[k] \in front
      /\ at[F + 1] = 0
      /\ \A k \in F + 2..F + 1 + B : k - (F + 1) \in 1..B /\ at[k] = v[k - (F + 1)] /\ v[k - (F + 1)] \in behind
  <2>1. ASSUME NEW k \in 1..F PROVE at[k] = u[k] /\ u[k] \in front
    <3>1. k \in 1..F + 1 + B /\ k <= F
      BY <1>2, <1>3
    <3> QED
      BY <1>2, <3>1
  <2>2. F + 1 \in 1..F + 1 + B /\ ~(F + 1 <= F)
    BY <1>2, <1>3
  <2>3. ASSUME NEW k \in F + 2..F + 1 + B
        PROVE  k - (F + 1) \in 1..B /\ at[k] = v[k - (F + 1)] /\ v[k - (F + 1)] \in behind
    <3>1. k \in 1..F + 1 + B /\ ~(k <= F) /\ k # F + 1 /\ k - (F + 1) \in 1..B
      BY <1>2, <1>3
    <3> QED
      BY <1>3, <3>1
  <2> QED
    BY <2>1, <2>2, <2>3
<1>7. \A k \in 1..F + 1 + B : k \in 1..F \/ k = F + 1 \/ k \in F + 2..F + 1 + B
  BY <1>2, <1>3
<1>8. /\ \A i \in front : i \in 1..n /\ i # 0 /\ i \notin behind
      /\ \A i \in behind : i \in 1..n /\ i # 0
  BY <1>0 DEF front
<1> HIDE DEF at
<1>9. \A k \in 1..F + 1 + B : at[k] \in 0..n
  BY <1>0, <1>6, <1>7, <1>8
<1>10. ASSUME NEW k \in 1..F + 1 + B PROVE q[k] = IF at[k] = 0 THEN r ELSE rs[at[k]]
  <2>1. CASE k \in 1..F
    <3>1. at[k] = u[k] /\ u[k] # 0
      BY <1>6, <1>8, <2>1
    <3>2. q[k] = x[k] /\ x[k] = rs[u[k]]
      BY <1>2, <1>5, <2>1
    <3> QED
      BY <3>1, <3>2
  <2>2. CASE k = F + 1
    BY <1>5, <1>6, <2>2
  <2>3. CASE k \in F + 2..F + 1 + B
    <3>1. k - (F + 1) \in 1..B /\ F + 1 + (k - (F + 1)) = k
      BY <1>2, <1>3, <2>3
    <3>2. q[k] = y[k - (F + 1)]
      BY <1>5, <3>1
    <3> QED
      BY <1>3, <1>6, <1>8, <2>3, <3>1, <3>2
  <2> QED
    BY <1>7, <2>1, <2>2, <2>3
<1>11. ASSUME NEW j \in 1..F + 1 + B, NEW k \in 1..F + 1 + B, j < k
       PROVE  \/ at[j] # 0 /\ at[k] # 0 /\ at[j] < at[k]
              \/ at[j] # 0 /\ at[j] \notin behind /\ at[k] \in {0} \cup behind
              \/ at[j] = 0 /\ at[k] \in behind
  <2>0. j \in Int /\ k \in Int /\ F \in Int /\ B \in Int
    BY <1>2, <1>3
  <2>1. CASE j \in 1..F
    <3>1. at[j] # 0 /\ at[j] \notin behind /\ at[j] = u[j]
      BY <1>6, <1>8, <2>1
    <3>2. CASE k \in 1..F
      BY <1>2, <1>6, <1>8, <1>11, <2>1, <3>1, <3>2
    <3>3. CASE k \notin 1..F
      BY <1>6, <1>7, <3>1, <3>3
    <3> QED
      BY <3>2, <3>3
  <2>2. CASE j = F + 1
    <3>1. k \in F + 2..F + 1 + B
      BY <1>11, <2>0, <2>2
    <3> QED
      BY <1>6, <2>2, <3>1
  <2>3. CASE j \in F + 2..F + 1 + B
    <3>1. k \in F + 2..F + 1 + B /\ j - (F + 1) < k - (F + 1)
      BY <1>11, <2>0, <2>3
    <3>2. v[j - (F + 1)] < v[k - (F + 1)]
      BY <1>3, <1>6, <2>3, <3>1
    <3> QED
      BY <1>6, <1>8, <2>3, <3>1, <3>2
  <2> QED
    BY <1>7, <2>1, <2>2, <2>3
<1>12. at \in [1..F + 1 + B -> 0..n]
  BY <1>9 DEF at
<1>13. Placing(at, rs, r)
  <2>1. DOMAIN Insert(rs, r) = 1..F + 1 + B
    BY <1>5 DEF q
  <2> QED
    BY <1>10, <1>11, <1>12, <2>1 DEF Placing, behind, q, n
<1>14. F + 1 + B = n + 1
  BY <1>2, <1>3, <1>4
<1> QED
  BY <1>5, <1>13, <1>14 DEF q, n

-----------------------------------------------------------------------------
(* The registry: sorted, without duplicates, and indexed. *)

Entries == {Entry(d) : d \in Routes}

Sorted(rs) ==
  \A i, j \in DOMAIN rs : i < j => ~Same(rs[i], rs[j]) /\ ~Before(rs[j].pattern, rs[i].pattern)

Indexed ==
  /\ anchored = [s \in {FirstSegment(routes[i].pattern) : i \in DOMAIN routes} \ {None} |-> Indices(routes, s)]
  /\ fallback = Indices(routes, None)

RoutingInv ==
  /\ routes \in Seq(Entries) /\ Len(routes) <= MaxRoutes
  /\ \A i \in DOMAIN routes : Parses(routes[i].pattern)
  /\ Sorted(routes)
  /\ Indexed

LEMMA EntryTyped ==
  ASSUME NEW e \in Entries
  PROVE  e.pattern \in Seq(Segments) /\ e.version \in Versions \cup {None}
<1>1. PICK d \in Routes : e = Entry(d)
  BY DEF Entries
<1>2. /\ d.prefix \in Seq(Segments) /\ d.pattern \in Seq(Segments)
      /\ d.version \in {None} \cup IF d.how = "uri" THEN Letters ELSE Versions
  BY RoutingAssumption
<1>3. d.prefix \o d.pattern \in Seq(Segments)
  BY <1>2
<1>4. CASE d.how = "uri" /\ d.version # None
  <2>1. e.pattern = <<<<"lit", d.version>>>> \o (d.prefix \o d.pattern) /\ e.version = None
    BY <1>1, <1>4 DEF Entry
  <2>2. <<"lit", d.version>> \in Segments
    BY <1>2, <1>4 DEF Segments
  <2>3. <<<<"lit", d.version>>>> \in Seq(Segments)
    BY <2>2
  <2> QED
    BY <1>3, <2>1, <2>3
<1>5. CASE ~(d.how = "uri" /\ d.version # None)
  <2>1. e.pattern = d.prefix \o d.pattern /\ e.version = IF d.how = "tag" THEN d.version ELSE None
    BY <1>1, <1>5 DEF Entry
  <2> QED
    BY <1>2, <1>3, <2>1
<1> QED
  BY <1>4, <1>5

\* A new route that no route is the same as goes to its place in the order.
LEMMA InsertSorts ==
  ASSUME NEW rs \in Seq(Entries), Sorted(rs), NEW r \in Entries, \A i \in DOMAIN rs : ~Same(rs[i], r)
  PROVE  Sorted(Insert(rs, r))
<1> DEFINE q == Insert(rs, r)
           behind == {i \in DOMAIN rs : Before(r.pattern, rs[i].pattern)}
<1>1. q \in Seq(Entries) /\ \E at : Placing(at, rs, r)
  BY Inserted
<1>2. PICK at : Placing(at, rs, r)
  BY <1>1
<1>3. /\ at \in [DOMAIN q -> 0..Len(rs)]
      /\ \A k \in DOMAIN q : q[k] = IF at[k] = 0 THEN r ELSE rs[at[k]]
      /\ \A j, k \in DOMAIN q : j < k =>
           \/ at[j] # 0 /\ at[k] # 0 /\ at[j] < at[k]
           \/ at[j] # 0 /\ at[j] \notin behind /\ at[k] \in {0} \cup behind
           \/ at[j] = 0 /\ at[k] \in behind
  BY <1>2 DEF Placing
<1>4. \A k \in DOMAIN q : at[k] # 0 => at[k] \in DOMAIN rs
  BY <1>3
<1>5. \A i \in DOMAIN rs : rs[i] \in Entries /\ rs[i].pattern \in Seq(Segments)
  BY EntryTyped
<1>6. r.pattern \in Seq(Segments)
  BY EntryTyped
<1>7. \A i \in DOMAIN rs : i # 0
  OBVIOUS
<1> HIDE DEF q
<1>8. SUFFICES ASSUME NEW j \in DOMAIN q, NEW k \in DOMAIN q, j < k
               PROVE  ~Same(q[j], q[k]) /\ ~Before(q[k].pattern, q[j].pattern)
  BY DEF Sorted, q
<1>9. CASE at[j] # 0 /\ at[k] # 0 /\ at[j] < at[k]
  BY <1>3, <1>4, <1>9 DEF Sorted
<1>10. CASE at[j] # 0 /\ at[j] \notin behind /\ at[k] = 0
  <2>1. q[j] = rs[at[j]] /\ q[k] = r /\ at[j] \in DOMAIN rs
    BY <1>3, <1>4, <1>10
  <2> QED
    BY <1>10, <2>1
<1>11. CASE at[j] # 0 /\ at[j] \notin behind /\ at[k] \in behind
  <2> DEFINE x == rs[at[j]]
             y == rs[at[k]]
  <2>1. at[j] \in DOMAIN rs /\ at[k] \in DOMAIN rs /\ q[j] = x /\ q[k] = y
    BY <1>3, <1>4, <1>7, <1>11
  <2>2. x.pattern \in Seq(Segments) /\ y.pattern \in Seq(Segments)
    BY <1>5, <2>1
  <2>3. Before(r.pattern, y.pattern) /\ ~Before(r.pattern, x.pattern)
    BY <1>11, <2>1
  <2>4. ~Before(y.pattern, x.pattern)
    <3> HIDE DEF x, y
    <3> QED
      BY <1>6, <2>2, <2>3, BeforeIsOrder
  <2>5. at[j] # at[k]
    BY <1>11
  <2>6. ~Same(x, y)
    <3>1. CASE at[j] < at[k]
      BY <2>1, <3>1 DEF Sorted
    <3>2. CASE at[k] < at[j]
      <4>1. ~Same(y, x)
        BY <2>1, <3>2 DEF Sorted
      <4> QED
        BY <4>1 DEF Same
    <3> QED
      BY <2>1, <2>5, <3>1, <3>2
  <2> QED
    BY <2>1, <2>4, <2>6
<1>12. CASE at[j] = 0 /\ at[k] \in behind
  <2> DEFINE y == rs[at[k]]
  <2>1. at[k] \in DOMAIN rs /\ q[j] = r /\ q[k] = y
    BY <1>3, <1>7, <1>12
  <2>2. Before(r.pattern, y.pattern) /\ y.pattern \in Seq(Segments)
    BY <1>5, <1>12, <2>1
  <2>3. ~Before(y.pattern, r.pattern)
    <3> HIDE DEF y
    <3> QED
      BY <1>6, <2>2, BeforeIsOrder
  <2>4. ~Same(y, r)
    BY <2>1
  <2> QED
    BY <2>1, <2>3, <2>4 DEF Same
<1> HIDE DEF behind
<1>13. \/ at[j] # 0 /\ at[k] # 0 /\ at[j] < at[k]
       \/ at[j] # 0 /\ at[j] \notin behind /\ (at[k] = 0 \/ at[k] \in behind)
       \/ at[j] = 0 /\ at[k] \in behind
  BY <1>3, <1>8
<1> QED
  BY <1>9, <1>10, <1>11, <1>12, <1>13

LEMMA RoutingInitial == RoutingInit => RoutingInv
<1> SUFFICES ASSUME RoutingInit PROVE RoutingInv
  OBVIOUS
<1>1. routes = <<>> /\ anchored = <<>> /\ fallback = <<>>
  BY DEF RoutingInit
<1>2. DOMAIN routes = {} /\ Len(routes) = 0 /\ routes \in Seq(Entries)
  BY <1>1
<1>3. \A f : Indices(routes, f) = <<>>
  <2>1. SUFFICES ASSUME NEW f PROVE Indices(routes, f) = <<>>
    OBVIOUS
  <2>2. {i \in DOMAIN routes : FirstSegment(routes[i].pattern) = f} = {}
    BY <1>2
  <2>3. Cardinality({}) = 0
    BY FS_EmptySet
  <2>4. Enumerates(<<>>, {})
    BY <2>3 DEF Enumerates
  <2>5. Ascending({}) = <<>>
    <3>1. 0 \in Nat /\ {} \in SUBSET (1..0)
      OBVIOUS
    <3> QED
      BY <2>4, <3>1, EnumerationLists
  <2> QED
    BY <2>2, <2>5 DEF Indices
<1>4. Indexed
  <2>1. {FirstSegment(routes[i].pattern) : i \in DOMAIN routes} \ {None} = {}
    BY <1>2
  <2> QED
    BY <1>1, <1>3, <2>1 DEF Indexed
<1> QED
  BY <1>2, <1>4, RoutingAssumption DEF RoutingInv, Sorted

LEMMA AcceptedParses ==
  ASSUME NEW d \in Routes, Accepted(d)
  PROVE  Entry(d) \in Entries /\ Parses(Entry(d).pattern)
BY DEF Accepted, Entries

LEMMA RoutingStep == RoutingInv /\ [RoutingNext]_routingVars => RoutingInv'
<1> SUFFICES ASSUME RoutingInv, [RoutingNext]_routingVars PROVE RoutingInv'
  OBVIOUS
<1>1. ASSUME NEW d \in Routes, Register(d) PROVE RoutingInv'
  <2> DEFINE r == Entry(d)
  <2>1. r \in Entries /\ Parses(r.pattern) /\ Len(routes) < MaxRoutes /\ routes' = Added(routes, r)
    BY <1>1, AcceptedParses DEF Register
  <2>2. Indexed'
    BY <1>1 DEF Register, Rebuild, Indexed
  <2> HIDE DEF r
  <2>3. CASE \E i \in DOMAIN routes : Same(routes[i], r)
    <3>1. routes' = routes
      BY <2>1, <2>3 DEF Added
    <3> QED
      BY <2>2, <3>1 DEF RoutingInv, Sorted
  <2>4. CASE ~ \E i \in DOMAIN routes : Same(routes[i], r)
    <3>1. routes' = Insert(routes, r)
      BY <2>1, <2>4 DEF Added
    <3>2. routes \in Seq(Entries) /\ Sorted(routes)
      BY DEF RoutingInv
    <3>3. Sorted(Insert(routes, r))
      BY <2>1, <2>4, <3>2, InsertSorts
    <3>4. /\ Insert(routes, r) \in Seq(Entries) /\ Len(Insert(routes, r)) = Len(routes) + 1
          /\ \E at : Placing(at, routes, r)
      BY <2>1, <3>2, Inserted
    <3>5. Len(routes)' <= MaxRoutes
      BY <2>1, <3>1, <3>2, <3>4, RoutingAssumption
    <3>6. \A k \in DOMAIN routes' : Parses(routes'[k].pattern)
      <4>1. PICK at : Placing(at, routes, r)
        BY <3>4
      <4>2. \A k \in DOMAIN routes' : /\ at[k] \in 0..Len(routes)
                                      /\ routes'[k] = IF at[k] = 0 THEN r ELSE routes[at[k]]
        BY <3>1, <4>1 DEF Placing
      <4>3. \A k \in DOMAIN routes' : at[k] # 0 => at[k] \in DOMAIN routes
        BY <3>2, <4>2
      <4> QED
        BY <2>1, <4>2, <4>3 DEF RoutingInv
    <3> QED
      BY <2>2, <3>1, <3>3, <3>4, <3>5, <3>6 DEF RoutingInv
  <2> QED
    BY <2>3, <2>4
<1>2. ASSUME UNCHANGED routingVars PROVE RoutingInv'
  BY <1>2 DEF routingVars, RoutingInv, Sorted, Indexed
<1> QED
  BY <1>1, <1>2 DEF RoutingNext, Refuse

\* The indices of the routes with a first segment: these and no other, in ascending order.
LEMMA IndicesListed ==
  ASSUME RoutingInv, NEW f
  PROVE  /\ Range(Indices(routes, f)) = {i \in DOMAIN routes : FirstSegment(routes[i].pattern) = f}
         /\ \A j, k \in DOMAIN Indices(routes, f) : j < k => Indices(routes, f)[j] < Indices(routes, f)[k]
<1> DEFINE S == {i \in DOMAIN routes : FirstSegment(routes[i].pattern) = f}
           q == Ascending(S)
<1>1. Len(routes) \in Nat /\ S \in SUBSET (1..Len(routes))
  BY DEF RoutingInv
<1>2. Indices(routes, f) = q
  BY DEF Indices
<1> HIDE DEF S
<1>3. /\ q \in [1..Cardinality(S) -> S]
      /\ \A i, j \in 1..Cardinality(S) : i < j => q[i] < q[j]
      /\ \A x \in S : \E i \in 1..Cardinality(S) : q[i] = x
  BY <1>1, AscendingLists
<1> HIDE DEF q
<1>4. Range(q) = S
  BY <1>3 DEF Range
<1> QED
  BY <1>2, <1>3, <1>4 DEF S

LEMMA RoutingTyped == RoutingInv => RoutesTyped
<1> SUFFICES ASSUME RoutingInv PROVE RoutesTyped
  OBVIOUS
<1>1. \A i \in DOMAIN routes : routes[i] \in {Entry(d) : d \in Routes}
  BY DEF RoutingInv, Entries
<1>2. \A s \in DOMAIN anchored : Range(anchored[s]) \subseteq DOMAIN routes
  BY IndicesListed DEF RoutingInv, Indexed
<1>3. Range(fallback) \subseteq DOMAIN routes
  BY IndicesListed DEF RoutingInv, Indexed
<1> QED
  BY <1>1, <1>2, <1>3 DEF RoutingInv, RoutesTyped, Sorted

\* The registry is in order, without duplicates, and its index stays inside the list (register_versioned,
\* lib.rs:585, and the rebuilding of the index), for any registrations in any order.
THEOREM RoutesSorted == RoutingSpec => []RoutesTyped
<1>1. RoutingSpec => []RoutingInv
  BY RoutingInitial, RoutingStep, PTL DEF RoutingSpec
<1> QED
  BY <1>1, RoutingTyped, PTL

-----------------------------------------------------------------------------
(* The index. *)

LEMMA FirstMatches ==
  ASSUME NEW p \in Seq(Segments), NEW path \in RequestPaths, path \in Language(p), FirstSegment(p) # None
  PROVE  path # <<>> /\ path[1] = FirstSegment(p)
<1>1. p # <<>> /\ p[1][1] = "lit" /\ FirstSegment(p) = p[1][2]
  BY DEF FirstSegment
<1> DEFINE open == p[Len(p)][1] \in {"opt", "wild"}
           fixed == IF open THEN Len(p) - 1 ELSE Len(p)
<1>2. Len(p) \in Nat /\ Len(p) # 0
  BY <1>1
<1>3. fixed \in Nat /\ 1 \in 1..fixed
  BY <1>1, <1>2
<1>4. Len(path) >= fixed /\ \A i \in 1..fixed : p[i][1] = "lit" => path[i] = p[i][2]
  <2>1. Len(path) \in Nat
    BY PathIsList
  <2> DEFINE most == CASE open /\ p[Len(p)][1] = "opt" -> {fixed, fixed + 1}
                       [] open /\ p[Len(p)][1] = "wild" -> {k \in {Len(q) : q \in RequestPaths} : k >= fixed}
                       [] OTHER -> {fixed}
  <2>2. Len(path) \in most /\ \A i \in 1..fixed : p[i][1] = "lit" => path[i] = p[i][2]
    BY <1>1 DEF Language
  <2> HIDE DEF fixed
  <2>3. \A k \in most : k >= fixed
    <3>1. CASE open /\ p[Len(p)][1] = "opt"
      BY <1>3, <3>1
    <3>2. CASE open /\ p[Len(p)][1] = "wild"
      <4>1. p[Len(p)][1] # "opt"
        BY <3>2
      <4>2. most = {k \in {Len(q) : q \in RequestPaths} : k >= fixed}
        BY <3>2, <4>1
      <4> QED
        BY <4>2
    <3>3. CASE ~open
      BY <1>3, <3>3
    <3> QED
      BY <3>1, <3>2, <3>3
  <2> QED
    BY <2>2, <2>3
<1> HIDE DEF fixed
<1> QED
  BY <1>1, <1>3, <1>4

\* Through the index a path sees exactly what it could see in the list.
LEMMA CandidatesComplete ==
  ASSUME RoutingInv, NEW path \in RequestPaths
  PROVE  /\ Range(Candidates(path)) \subseteq DOMAIN routes
         /\ \A i \in DOMAIN routes : Matches(routes[i].pattern, path) => i \in Range(Candidates(path))
         /\ \A j, k \in DOMAIN Candidates(path) : j < k => Candidates(path)[j] < Candidates(path)[k]
<1> DEFINE c == Candidates(path)
           Of(f) == {i \in DOMAIN routes : FirstSegment(routes[i].pattern) = f}
           Rising(q) == \A j, k \in DOMAIN q : j < k => q[j] < q[k]
<1>1. \A f : Range(Indices(routes, f)) = Of(f) /\ Rising(Indices(routes, f))
  BY IndicesListed
<1>2. Indexed /\ routes \in Seq(Entries) /\ \A i \in DOMAIN routes : Parses(routes[i].pattern)
  BY DEF RoutingInv
<1>3. fallback = Indices(routes, None)
  BY <1>2 DEF Indexed
<1>4. ASSUME NEW i \in DOMAIN routes, Matches(routes[i].pattern, path)
      PROVE  i \in Of(None) \/ (path # <<>> /\ i \in Of(path[1]))
  <2>1. routes[i].pattern \in Seq(Segments) /\ Parses(routes[i].pattern)
    BY <1>2, EntryTyped
  <2>2. path \in Language(routes[i].pattern)
    BY <1>4, <2>1, MatchesLanguage
  <2> QED
    BY <2>1, <2>2, FirstMatches
<1>5. CASE path = <<>> \/ path[1] \notin DOMAIN anchored
  <2>1. c = Indices(routes, None)
    BY <1>3, <1>5 DEF Candidates
  <2>2. \A i \in DOMAIN routes : path # <<>> /\ i \in Of(path[1]) => i \in Of(None)
    <3>1. SUFFICES ASSUME NEW i \in DOMAIN routes, path # <<>>, i \in Of(path[1]), i \notin Of(None) PROVE FALSE
      OBVIOUS
    <3>2. FirstSegment(routes[i].pattern) = path[1] /\ path[1] # None
      BY <3>1
    <3>3. path[1] \in DOMAIN anchored
      BY <1>2, <3>2 DEF Indexed
    <3> QED
      BY <1>5, <3>1, <3>3
  <2>3. Range(c) = Of(None) /\ Rising(c)
    BY <1>1, <2>1
  <2> QED
    BY <1>4, <2>2, <2>3
<1>6. CASE path # <<>> /\ path[1] \in DOMAIN anchored
  <2> DEFINE S == Range(anchored[path[1]]) \cup Range(fallback)
  <2>1. anchored[path[1]] = Indices(routes, path[1])
    BY <1>2, <1>6 DEF Indexed
  <2>2. S = Of(path[1]) \cup Of(None)
    BY <1>1, <1>3, <2>1
  <2>3. c = Ascending(S)
    BY <1>6 DEF Candidates
  <2>4. Len(routes) \in Nat /\ S \in SUBSET (1..Len(routes))
    BY <1>2, <2>2
  <2> HIDE DEF S, c
  <2>5. /\ c \in [1..Cardinality(S) -> S]
        /\ \A i, j \in 1..Cardinality(S) : i < j => c[i] < c[j]
        /\ \A x \in S : \E i \in 1..Cardinality(S) : c[i] = x
    BY <2>3, <2>4, AscendingLists
  <2>6. Range(c) = S /\ Rising(c)
    BY <2>5 DEF Range
  <2>7. S \subseteq DOMAIN routes
    BY <2>2
  <2> QED
    BY <1>4, <1>6, <2>2, <2>6, <2>7 DEF c
<1> QED
  BY <1>5, <1>6

-----------------------------------------------------------------------------
(* Selection. *)

\* The routes that match a path and have a version.
Tagged(path, v) == {i \in DOMAIN routes : Matches(routes[i].pattern, path) /\ routes[i].version = v}

\* The version whose routes answer: that of the request if a route of it matches.
Answering(path, v) == IF v # None /\ Tagged(path, v) # {} THEN v ELSE None

LEMMA SelectPicks ==
  ASSUME RoutingInv, NEW path \in RequestPaths, NEW v
  PROVE  Select(path, v) = Picked(routes, Tagged(path, Answering(path, v)))
<1> DEFINE tagged(w) == {i \in Range(Candidates(path)) : Matches(routes[i].pattern, path) /\ routes[i].version = w}
<1>1. \A w : tagged(w) = Tagged(path, w)
  BY CandidatesComplete DEF Tagged
<1>2. Select(path, v) = Picked(routes, IF v # None /\ tagged(v) # {} THEN tagged(v) ELSE tagged(None))
  BY DEF Select
<1> HIDE DEF tagged
<1> QED
  BY <1>1, <1>2 DEF Answering

-----------------------------------------------------------------------------
(* The copy the server makes. *)

Bare(e) == [e EXCEPT !.version = None]

LEMMA BareEntry ==
  ASSUME NEW e \in Entries
  PROVE  Bare(e).method = e.method /\ Bare(e).pattern = e.pattern /\ Bare(e).version = None
<1>1. PICK d \in Routes : e = Entry(d)
  BY DEF Entries
<1>2. DOMAIN e = {"method", "pattern", "version"}
  BY <1>1 DEF Entry
<1>3. e = [method |-> e.method, pattern |-> e.pattern, version |-> e.version]
  BY <1>1 DEF Entry
<1> QED
  BY <1>2, <1>3 DEF Bare

\* A route that is not before any other goes to the end of the list.
LEMMA AddedAtEnd ==
  ASSUME NEW X, NEW q \in Seq(X), NEW e \in X,
         \A i \in DOMAIN q : ~Same(q[i], e) /\ ~Before(e.pattern, q[i].pattern)
  PROVE  Added(q, e) = Append(q, e)
<1> DEFINE behind == {i \in DOMAIN q : Before(e.pattern, q[i].pattern)}
<1>1. Added(q, e) = Insert(q, e)
  BY DEF Added
<1>2. behind = {} /\ DOMAIN q \ behind = DOMAIN q
  OBVIOUS
<1>3. Insert(q, e) = Picked(q, DOMAIN q \ behind) \o <<e>> \o Picked(q, behind)
  BY DEF Insert
<1> HIDE DEF behind
<1>4. Insert(q, e) = q \o <<e>> \o <<>>
  <2>1. Picked(q, DOMAIN q) = q /\ Picked(q, {}) = <<>>
    BY PickedAll, PickedNone
  <2> QED
    BY <1>2, <1>3, <2>1
<1>5. q \o <<e>> = Append(q, e) /\ Append(q, e) \in Seq(X)
  OBVIOUS
<1>6. \A s \in Seq(X) : s \o <<>> = s
  OBVIOUS
<1> QED
  BY <1>1, <1>4, <1>5, <1>6

IsCopy(f, kept) ==
  f = [n \in 0..Len(kept) |-> IF n = 0 THEN <<>> ELSE Added(f[n - 1], [kept[n] EXCEPT !.version = None])]

\* Registering the routes of one version in their order, without the version, gives them in that order.
LEMMA CopyKeeps ==
  ASSUME NEW kept \in Seq(Entries), Sorted(kept), NEW w, \A i \in DOMAIN kept : kept[i].version = w
  PROVE  (CHOOSE f : IsCopy(f, kept))[Len(kept)] = [i \in 1..Len(kept) |-> Bare(kept[i])]
<1> DEFINE K == Len(kept)
           X == {Bare(e) : e \in Entries}
           C(n) == [i \in 1..n |-> Bare(kept[i])]
           g == [n \in 0..K |-> C(n)]
<1>1. K \in Nat /\ DOMAIN kept = 1..K
  OBVIOUS
<1>2. \A i \in 1..K : kept[i] \in Entries /\ Bare(kept[i]) \in X
  OBVIOUS
<1>3. \A i \in 1..K : /\ Bare(kept[i]).method = kept[i].method /\ Bare(kept[i]).pattern = kept[i].pattern
                      /\ Bare(kept[i]).version = None
  BY <1>2, BareEntry
<1> HIDE DEF K, X
<1>4. ASSUME NEW n \in 1..K PROVE C(n) = Added(C(n - 1), Bare(kept[n]))
  <2>1. n \in Nat /\ n - 1 \in Nat /\ \A i \in 1..n - 1 : i \in 1..K /\ i < n
    BY <1>1
  <2>2. C(n - 1) \in Seq(X) /\ Len(C(n - 1)) = n - 1 /\ DOMAIN C(n - 1) = 1..n - 1
    BY <1>2, <2>1
  <2>3. \A i \in 1..n - 1 : ~Same(C(n - 1)[i], Bare(kept[n])) /\ ~Before(Bare(kept[n]).pattern, C(n - 1)[i].pattern)
    <3>1. SUFFICES ASSUME NEW i \in 1..n - 1
                   PROVE  ~Same(Bare(kept[i]), Bare(kept[n])) /\ ~Before(Bare(kept[n]).pattern, Bare(kept[i]).pattern)
      OBVIOUS
    <3>2. i \in 1..K /\ i < n
      BY <2>1
    <3>3. ~Same(kept[i], kept[n]) /\ ~Before(kept[n].pattern, kept[i].pattern)
      BY <1>1, <3>2 DEF Sorted
    <3>4. kept[i].version = kept[n].version
      BY <1>1, <3>2
    <3> QED
      BY <1>3, <3>2, <3>3, <3>4 DEF Same
  <2>4. Added(C(n - 1), Bare(kept[n])) = Append(C(n - 1), Bare(kept[n]))
    <3>1. Bare(kept[n]) \in X
      BY <1>2
    <3> HIDE DEF C
    <3> QED
      BY <2>2, <2>3, <3>1, AddedAtEnd
  <2>5. Append(C(n - 1), Bare(kept[n])) = C(n)
    <3>1. Append(C(n - 1), Bare(kept[n])) \in Seq(X) /\ Len(Append(C(n - 1), Bare(kept[n]))) = n
      BY <1>2, <2>1, <2>2
    <3>2. C(n) \in Seq(X) /\ Len(C(n)) = n
      BY <1>2, <2>1, <1>1
    <3>3. \A i \in 1..n : Append(C(n - 1), Bare(kept[n]))[i] = C(n)[i]
      BY <2>1, <2>2
    <3> QED
      BY <3>1, <3>2, <3>3
  <2> QED
    BY <2>4, <2>5
<1>5. C(0) = <<>>
  OBVIOUS
<1> HIDE DEF C
<1>6. \A n \in 0..K : n # 0 => n \in 1..K /\ n - 1 \in 0..K
  BY <1>1
<1>7. IsCopy(g, kept)
  <2> DEFINE h == [n \in 0..K |-> IF n = 0 THEN <<>> ELSE Added(g[n - 1], Bare(kept[n]))]
  <2>1. \A n \in 0..K : g[n] = h[n]
    BY <1>4, <1>5, <1>6
  <2>2. g = h
    BY <2>1
  <2> QED
    BY <2>2 DEF IsCopy, Bare, K
<1> DEFINE f == CHOOSE f : IsCopy(f, kept)
<1>8. IsCopy(f, kept)
  BY <1>7
<1> HIDE DEF f, g
<1>9. \A n \in 0..K : f[n] = IF n = 0 THEN <<>> ELSE Added(f[n - 1], Bare(kept[n]))
  BY <1>8 DEF IsCopy, Bare, K
<1>10. f[K] = C(K)
  <2> DEFINE S == {n \in Nat : n <= K => f[n] = C(n)}
  <2>1. 0 \in S
    BY <1>1, <1>5, <1>9
  <2>2. ASSUME NEW n \in S PROVE n + 1 \in S
    <3>1. n \in Nat /\ n + 1 \in Nat /\ (n + 1) - 1 = n /\ n + 1 # 0
      OBVIOUS
    <3>2. SUFFICES ASSUME n + 1 <= K PROVE f[n + 1] = C(n + 1)
      BY <3>1
    <3>3. n + 1 \in 0..K /\ n + 1 \in 1..K /\ n <= K
      BY <1>1, <3>1, <3>2
    <3>4. f[n] = C(n)
      BY <3>3
    <3>5. f[n + 1] = Added(f[n], Bare(kept[n + 1]))
      BY <1>9, <3>1, <3>3
    <3>6. C(n + 1) = Added(C(n), Bare(kept[n + 1]))
      BY <1>4, <3>1, <3>3
    <3> QED
      BY <3>4, <3>5, <3>6
  <2>3. S = Nat
    <3> HIDE DEF S
    <3>1. S \in SUBSET Nat
      BY DEF S
    <3> QED
      BY <2>1, <2>2, <3>1, EveryNumber
  <2> QED
    BY <1>1, <2>3
<1> QED
  BY <1>10 DEF C, K, f

\* The answer does not look at the version.
LEMMA DispatchBare ==
  ASSUME NEW kept \in Seq(Entries), NEW method
  PROVE  Dispatch([i \in 1..Len(kept) |-> Bare(kept[i])], method) = Dispatch(kept, method)
<1> DEFINE q == [i \in 1..Len(kept) |-> Bare(kept[i])]
           Fit(s) == {i \in DOMAIN s : Serves(s[i], method)}
           Least(s) == CHOOSE i \in Fit(s) : \A k \in Fit(s) : i <= k
           Allowed(s) == {r.method : r \in Range(s)}
<1>1. DOMAIN q = DOMAIN kept /\ \A i \in DOMAIN kept : q[i].method = kept[i].method /\ q[i].pattern = kept[i].pattern
  BY BareEntry
<1>2. q = <<>> <=> kept = <<>>
  OBVIOUS
<1> HIDE DEF q
<1>3. Fit(q) = Fit(kept)
  BY <1>1 DEF Serves
<1>4. Allowed(q) = Allowed(kept)
  BY <1>1 DEF Range
<1>5. Least(q) = Least(kept)
  BY <1>3
<1>6. \A s : Dispatch(s, method) =
         CASE Fit(s) # {} -> [kind |-> "matched", pattern |-> s[Least(s)].pattern, method |-> s[Least(s)].method]
           [] Fit(s) = {} /\ s = <<>> -> [kind |-> "notFound"]
           [] OTHER -> [kind |-> "methodNotAllowed", allowed |-> Allowed(s)]
  BY DEF Dispatch
<1>7. CASE Fit(kept) # {}
  <2>1. Least(kept) \in DOMAIN kept
    <3>1. Fit(kept) \in SUBSET Nat
      OBVIOUS
    <3>2. \E i \in Fit(kept) : \A k \in Fit(kept) : i <= k
      <4> HIDE DEF Fit
      <4> QED
        BY <1>7, <3>1, LeastNumber
    <3>3. Least(kept) \in Fit(kept)
      BY <3>2
    <3> QED
      BY <3>3
  <2> HIDE DEF Fit, Least
  <2>2. ASSUME NEW s, Fit(s) # {}
        PROVE  Dispatch(s, method)
                 = [kind |-> "matched", pattern |-> s[Least(s)].pattern, method |-> s[Least(s)].method]
    BY <1>6, <2>2
  <2>3. /\ Dispatch(q, method)
             = [kind |-> "matched", pattern |-> q[Least(q)].pattern, method |-> q[Least(q)].method]
        /\ Dispatch(kept, method)
             = [kind |-> "matched", pattern |-> kept[Least(kept)].pattern, method |-> kept[Least(kept)].method]
    BY <1>3, <1>7, <2>2
  <2> QED
    BY <1>1, <1>5, <2>1, <2>3 DEF q
<1>8. CASE Fit(kept) = {}
  <2> HIDE DEF Fit, Least, Allowed
  <2>1. CASE kept = <<>>
    <3>1. Dispatch(q, method) = [kind |-> "notFound"] /\ Dispatch(kept, method) = [kind |-> "notFound"]
      BY <1>2, <1>3, <1>6, <1>8, <2>1
    <3> QED
      BY <3>1 DEF q
  <2>2. CASE kept # <<>>
    <3>1. /\ Dispatch(q, method) = [kind |-> "methodNotAllowed", allowed |-> Allowed(q)]
          /\ Dispatch(kept, method) = [kind |-> "methodNotAllowed", allowed |-> Allowed(kept)]
      BY <1>2, <1>3, <1>6, <1>8, <2>2
    <3> QED
      BY <1>4, <3>1 DEF q
  <2> QED
    BY <2>1, <2>2
<1> QED
  BY <1>7, <1>8 DEF q

LEMMA TaggedList ==
  ASSUME RoutingInv, NEW path, NEW w
  PROVE  LET kept == Picked(routes, Tagged(path, w))
         IN  /\ kept \in Seq(Entries) /\ Sorted(kept)
             /\ \A i \in DOMAIN kept : kept[i].version = w
<1> DEFINE T == Tagged(path, w)
           kept == Picked(routes, T)
           u == Ascending(T)
           c == Cardinality(T)
<1>1. routes \in Seq(Entries) /\ T \in SUBSET DOMAIN routes /\ \A i \in T : routes[i].version = w
  BY DEF RoutingInv, Tagged
<1> HIDE DEF T
<1>2. /\ c \in Nat /\ kept \in Seq(Entries) /\ Len(kept) = c /\ u \in [1..c -> T]
      /\ \A k \in 1..c : kept[k] = routes[u[k]]
      /\ \A i, j \in 1..c : i < j => u[i] < u[j]
  BY <1>1, PickedElements
<1> HIDE DEF kept, u, c
<1>3. \A i, j \in DOMAIN routes : i < j => /\ ~Same(routes[i], routes[j])
                                           /\ ~Before(routes[j].pattern, routes[i].pattern)
  BY DEF RoutingInv, Sorted
<1>4. DOMAIN kept = 1..c /\ \A k \in 1..c : u[k] \in T /\ u[k] \in DOMAIN routes
  BY <1>1, <1>2
<1>5. Sorted(kept)
  BY <1>2, <1>3, <1>4 DEF Sorted
<1>6. \A i \in DOMAIN kept : kept[i].version = w
  BY <1>1, <1>2, <1>4
<1> QED
  BY <1>2, <1>5, <1>6 DEF kept, T

LEMMA ServerCopies ==
  ASSUME RoutingInv, NEW path \in RequestPaths, NEW v
  PROVE  LET kept == Picked(routes, Tagged(path, Answering(path, v)))
         IN  ServerRoutes(path, v) = [i \in 1..Len(kept) |-> Bare(kept[i])]
<1> DEFINE saw == v # None /\ \E i \in DOMAIN routes : routes[i].version = v /\ Matches(routes[i].pattern, path)
           kept == Picked(routes, {i \in DOMAIN routes : /\ Matches(routes[i].pattern, path)
                                                        /\ routes[i].version = IF saw THEN v ELSE None})
           w == Answering(path, v)
<1>1. (IF saw THEN v ELSE None) = w
  BY DEF Answering, Tagged
<1>2. kept = Picked(routes, Tagged(path, w))
  BY <1>1 DEF Tagged
<1>3. ServerRoutes(path, v) = (CHOOSE f : IsCopy(f, kept))[Len(kept)]
  BY DEF ServerRoutes, IsCopy
<1> HIDE DEF kept, w
<1>4. kept \in Seq(Entries) /\ Sorted(kept) /\ \A i \in DOMAIN kept : kept[i].version = w
  BY <1>2, TaggedList
<1>5. ServerRoutes(path, v) = [i \in 1..Len(kept) |-> Bare(kept[i])]
  BY <1>3, <1>4, CopyKeeps
<1> QED
  BY <1>2, <1>5 DEF w

\* The registry's own answer to a versioned request and that of the copy the server makes are the same
\* route, the same 404 and the same 405 (versioned_routes_for_request, server.rs:1976).
THEOREM RoutingAgrees == RoutingSpec => []ServerAgrees
<1>1. RoutingInv => ServerAgrees
  <2>1. SUFFICES ASSUME RoutingInv, NEW path \in RequestPaths, NEW method, NEW v
                 PROVE  Dispatch(ServerRoutes(path, v), method) = Dispatch(Select(path, v), method)
    BY DEF ServerAgrees
  <2> DEFINE kept == Picked(routes, Tagged(path, Answering(path, v)))
  <2>2. kept \in Seq(Entries)
    BY <2>1, TaggedList
  <2>3. Select(path, v) = kept
    BY <2>1, SelectPicks
  <2>4. ServerRoutes(path, v) = [i \in 1..Len(kept) |-> Bare(kept[i])]
    BY <2>1, ServerCopies
  <2> HIDE DEF kept
  <2> QED
    BY <2>2, <2>3, <2>4, DispatchBare
<1>2. RoutingSpec => []RoutingInv
  BY RoutingInitial, RoutingStep, PTL DEF RoutingSpec
<1> QED
  BY <1>1, <1>2, PTL

-----------------------------------------------------------------------------
(* Refusals. *)

\* 404 and 405 say what is so (RouteDispatchSelection::dispatch, lib.rs:1014).
THEOREM RoutingRefusals == RoutingSpec => []RefusalsAreTrue
<1>1. RoutingInv => RefusalsAreTrue
  <2>1. SUFFICES ASSUME RoutingInv, NEW path \in RequestPaths, NEW method, NEW v
                 PROVE  LET out == Dispatch(Select(path, v), method)
                            serving == {i \in DOMAIN routes : path \in Language(routes[i].pattern)
                                          /\ routes[i].version \in {v, None}}
                        IN  /\ out.kind = "notFound" <=> serving = {}
                            /\ out.kind = "methodNotAllowed" =>
                                 /\ "ALL" \notin out.allowed /\ method \notin out.allowed
                                 /\ \A other \in out.allowed : Dispatch(Select(path, v), other).kind = "matched"
    BY DEF RefusalsAreTrue
  <2> DEFINE w == Answering(path, v)
             T == Tagged(path, w)
             kept == Picked(routes, T)
             serving == {i \in DOMAIN routes : path \in Language(routes[i].pattern) /\ routes[i].version \in {v, None}}
             Fit(m) == {i \in DOMAIN kept : Serves(kept[i], m)}
             first(m) == kept[CHOOSE i \in Fit(m) : \A k \in Fit(m) : i <= k]
             Allowed == {r.method : r \in Range(kept)}
  <2>2. Select(path, v) = kept
    BY <2>1, SelectPicks
  <2>3. kept \in Seq(Entries) /\ (T = {} <=> kept = <<>>)
    <3>1. routes \in Seq(Entries) /\ T \in SUBSET DOMAIN routes
      BY <2>1 DEF RoutingInv, Tagged
    <3> HIDE DEF T
    <3>2. kept \in Seq(Entries) /\ (T # {} => kept # <<>>)
      BY <3>1, PickedElements
    <3>3. T = {} => kept = <<>>
      BY PickedNone
    <3> QED
      BY <3>2, <3>3
  <2>4. T = {} <=> serving = {}
    <3>1. \A i \in DOMAIN routes : Matches(routes[i].pattern, path) <=> path \in Language(routes[i].pattern)
      <4>1. \A i \in DOMAIN routes : routes[i].pattern \in Seq(Segments) /\ Parses(routes[i].pattern)
        BY <2>1, EntryTyped DEF RoutingInv
      <4> QED
        BY <2>1, <4>1, MatchesLanguage
    <3>2. serving = Tagged(path, v) \cup Tagged(path, None)
      BY <3>1 DEF Tagged
    <3> QED
      BY <3>2 DEF Answering
  <2> HIDE DEF kept, serving, T
  <2>5. \A m : Dispatch(kept, m) =
           CASE Fit(m) # {} -> [kind |-> "matched", pattern |-> first(m).pattern, method |-> first(m).method]
             [] Fit(m) = {} /\ kept = <<>> -> [kind |-> "notFound"]
             [] OTHER -> [kind |-> "methodNotAllowed", allowed |-> Allowed]
    BY DEF Dispatch
  <2>6. kept = <<>> => \A m : Fit(m) = {}
    OBVIOUS
  <2>7. \A m : \A other \in Allowed : Fit(m) = {} => other # "ALL" /\ other # m /\ Fit(other) # {}
    BY DEF Serves, Range
  <2> HIDE DEF Fit, first, Allowed
  <2>8. CASE Fit(method) # {}
    <3>1. Dispatch(kept, method).kind = "matched"
      BY <2>5, <2>8
    <3> QED
      BY <2>2, <2>3, <2>4, <2>6, <2>8, <3>1 DEF serving
  <2>9. CASE kept = <<>>
    <3>1. Dispatch(kept, method) = [kind |-> "notFound"]
      BY <2>5, <2>6, <2>9
    <3> QED
      BY <2>2, <2>3, <2>4, <2>9, <3>1 DEF serving
  <2>10. CASE Fit(method) = {} /\ kept # <<>>
    <3>1. Dispatch(kept, method) = [kind |-> "methodNotAllowed", allowed |-> Allowed]
      BY <2>5, <2>10
    <3>2. \A other \in Allowed : Dispatch(kept, other).kind = "matched"
      BY <2>5, <2>7, <2>10
    <3>3. serving # {}
      BY <2>3, <2>4, <2>10
    <3>4. "ALL" \notin Allowed /\ method \notin Allowed
      BY <2>7, <2>10
    <3> QED
      BY <2>2, <3>1, <3>2, <3>3, <3>4 DEF serving
  <2> QED
    BY <2>8, <2>9, <2>10
<1>2. RoutingSpec => []RoutingInv
  BY RoutingInitial, RoutingStep, PTL DEF RoutingSpec
<1> QED
  BY <1>1, <1>2, PTL

-----------------------------------------------------------------------------
(* Captures. *)

LEMMA BindingsCount ==
  ASSUME NEW p \in Seq(Segments)
  PROVE  /\ Bindings(p) \in [0..Len(p) -> Nat] /\ Bindings(p)[0] = 0
         /\ \A k \in 1..Len(p) : Bindings(p)[k] = Bindings(p)[k - 1] + IF p[k][1] = "lit" THEN 0 ELSE 1
         /\ \A k \in 0..Len(p) : \A h \in 0..k : Bindings(p)[h] <= Bindings(p)[k]
<1> DEFINE V(n) == {i \in 1..n : p[i][1] # "lit"}
<1>1. \A n \in 0..Len(p) : IsFiniteSet(V(n)) /\ Cardinality(V(n)) \in Nat
  <2>1. SUFFICES ASSUME NEW n \in 0..Len(p) PROVE IsFiniteSet(V(n)) /\ Cardinality(V(n)) \in Nat
    OBVIOUS
  <2>2. IsFiniteSet(1..n) /\ V(n) \in SUBSET (1..n)
    BY FS_Interval
  <2> HIDE DEF V
  <2> QED
    BY <2>2, FS_Subset, FS_CardinalityType
<1>2. V(0) = {} /\ Cardinality({}) = 0
  BY FS_EmptySet
<1>3. ASSUME NEW k \in 1..Len(p) PROVE Cardinality(V(k)) = Cardinality(V(k - 1)) + IF p[k][1] = "lit" THEN 0 ELSE 1
  <2>1. k \in Nat /\ k - 1 \in 0..Len(p) /\ k \notin 1..k - 1 /\ \A i \in 1..k : i \in 1..k - 1 \/ i = k
    BY <1>3
  <2>2. CASE p[k][1] = "lit"
    <3>1. V(k) = V(k - 1)
      BY <2>1, <2>2
    <3>2. Cardinality(V(k - 1)) \in Nat
      BY <1>1, <2>1
    <3> HIDE DEF V
    <3> QED
      BY <2>2, <3>1, <3>2
  <2>3. CASE p[k][1] # "lit"
    <3>1. V(k) = V(k - 1) \cup {k} /\ k \notin V(k - 1)
      <4>1. k \in 1..k /\ \A i \in 1..k - 1 : i \in 1..k
        BY <1>3, <2>1
      <4> QED
        BY <2>1, <2>3, <4>1
    <3>2. IsFiniteSet(V(k - 1))
      BY <1>1, <2>1
    <3> HIDE DEF V
    <3>3. Cardinality(V(k - 1) \cup {k}) = Cardinality(V(k - 1)) + 1
      BY <3>1, <3>2, FS_AddElement
    <3> QED
      BY <2>3, <3>1, <3>3
  <2> QED
    BY <2>2, <2>3
<1>4. ASSUME NEW k \in 0..Len(p), NEW h \in 0..k PROVE Cardinality(V(h)) <= Cardinality(V(k))
  <2>1. V(h) \in SUBSET V(k)
    OBVIOUS
  <2>2. IsFiniteSet(V(k))
    BY <1>1
  <2> HIDE DEF V
  <2> QED
    BY <2>1, <2>2, FS_Subset
<1>5. Bindings(p) = [k \in 0..Len(p) |-> Cardinality(V(k))] /\ Len(p) \in Nat
  BY DEF Bindings
<1> HIDE DEF V
<1>6. Bindings(p) \in [0..Len(p) -> Nat] /\ Bindings(p)[0] = 0
  BY <1>1, <1>2, <1>5
<1>7. ASSUME NEW k \in 1..Len(p)
      PROVE  Bindings(p)[k] = Bindings(p)[k - 1] + IF p[k][1] = "lit" THEN 0 ELSE 1
  <2>1. k \in 0..Len(p) /\ k - 1 \in 0..Len(p)
    BY <1>5
  <2> QED
    BY <1>3, <1>5, <2>1
<1>8. ASSUME NEW k \in 0..Len(p), NEW h \in 0..k PROVE Bindings(p)[h] <= Bindings(p)[k]
  <2>1. h \in 0..Len(p)
    BY <1>5
  <2> QED
    BY <1>4, <1>5, <2>1
<1> QED
  BY <1>6, <1>7, <1>8

\* What the captures of the last n segments put in the place of segment k.
Piece(p, caps, n, k) ==
  LET b == Bindings(p)[k] - Bindings(p)[Len(p) - n]
  IN  IF p[k][1] = "lit" THEN <<p[k][2]>> ELSE IF b <= Len(caps) THEN caps[b][2] ELSE <<>>

\* The captures of the last n segments from place j give that part of the path back, name by name.
Fills(p, path, n, j, caps) ==
  LET m == Len(path) + 1 - j
      b(k) == Bindings(p)[k] - Bindings(p)[Len(p) - n]
  IN  /\ Fixed(p, n) <= m /\ (~Open(p) => m = n)
      /\ \A i \in 1..Fixed(p, n) : Piece(p, caps, n, Len(p) - n + i) = <<path[j + i - 1]>>
      /\ n # 0 /\ Open(p) => Piece(p, caps, n, Len(p)) = SubSeq(path, j + n - 1, Len(path))
      /\ Len(caps) <= b(Len(p))
      /\ \A k \in Len(p) - n + 1..Len(p) : p[k][1] # "lit" /\ b(k) <= Len(caps) => caps[b(k)][1] = p[k][2]

\* A literal puts nothing in front of the captures of the rest, a parameter one binding.
LEMMA FillsMore ==
  ASSUME NEW p \in Seq(Segments), NEW path \in Seq(Letters), NEW n \in Nat, n + 1 <= Len(p),
         NEW j \in 1..Len(path), NEW c \in Captured, Fills(p, path, n, j + 1, c), NEW s, s = p[Len(p) - n],
         s[1] \in {"lit", "param"},
         NEW caps, caps = IF s[1] = "lit" THEN c ELSE <<<<s[2], <<path[j]>>>>>> \o c,
         s[1] = "lit" => path[j] = s[2],
         n = 0 => ~Open(p)
  PROVE  Fills(p, path, n + 1, j, caps)
<1> DEFINE L == Len(path)
           N == Len(p)
           d == IF s[1] = "lit" THEN 0 ELSE 1
           b(k) == Bindings(p)[k] - Bindings(p)[N - n]
           a(k) == Bindings(p)[k] - Bindings(p)[N - (n + 1)]
<1>0. L \in Nat /\ N \in Nat /\ n \in Nat /\ n + 1 <= N /\ j \in Nat /\ j >= 1 /\ j <= L
  OBVIOUS
<1>p. /\ \A i \in 1..N : p[i] \in Segments
      /\ \A i \in 1..L : path[i] \in Letters
      /\ Bindings(p) \in [0..N -> Nat]
      /\ \A k \in 1..N : Bindings(p)[k] = Bindings(p)[k - 1] + IF p[k][1] = "lit" THEN 0 ELSE 1
      /\ \A k \in 0..N : \A h \in 0..k : Bindings(p)[h] <= Bindings(p)[k]
  <2>1. \A i \in 1..N : p[i] \in Segments
    OBVIOUS
  <2>2. \A i \in 1..L : path[i] \in Letters
    OBVIOUS
  <2> QED
    BY <2>1, <2>2, BindingsCount
<1>q. s = p[N - n]
  OBVIOUS
<1>9. /\ Fixed(p, n) <= L + 1 - (j + 1) /\ (~Open(p) => L + 1 - (j + 1) = n)
      /\ \A i \in 1..Fixed(p, n) : Piece(p, c, n, N - n + i) = <<path[j + 1 + i - 1]>>
      /\ n # 0 /\ Open(p) => Piece(p, c, n, N) = SubSeq(path, j + 1 + n - 1, L)
      /\ Len(c) <= b(N)
      /\ \A k \in N - n + 1..N : p[k][1] # "lit" /\ b(k) <= Len(c) => c[b(k)][1] = p[k][2]
  BY DEF Fills
<1>x. \A k : Piece(p, c, n, k) = IF p[k][1] = "lit" THEN <<p[k][2]>>
                                ELSE IF b(k) <= Len(c) THEN c[b(k)][2] ELSE <<>>
  BY DEF Piece
<1>y. \A k : Piece(p, caps, n + 1, k) = IF p[k][1] = "lit" THEN <<p[k][2]>>
                                       ELSE IF a(k) <= Len(caps) THEN caps[a(k)][2] ELSE <<>>
  BY DEF Piece
<1>z. Fills(p, path, n + 1, j, caps) <=>
        /\ Fixed(p, n + 1) <= L + 1 - j /\ (~Open(p) => L + 1 - j = n + 1)
        /\ \A i \in 1..Fixed(p, n + 1) : Piece(p, caps, n + 1, N - (n + 1) + i) = <<path[j + i - 1]>>
        /\ n + 1 # 0 /\ Open(p) => Piece(p, caps, n + 1, N) = SubSeq(path, j + (n + 1) - 1, L)
        /\ Len(caps) <= a(N)
        /\ \A k \in N - (n + 1) + 1..N : p[k][1] # "lit" /\ a(k) <= Len(caps) => caps[a(k)][1] = p[k][2]
  BY DEF Fills
<1> HIDE DEF N, L
<1>1. /\ N - (n + 1) = (N - n) - 1 /\ N - n \in 1..N /\ N - n \in 0..N
      /\ (N - n) - 1 \in 0..N /\ N - n # 0 /\ N \in 0..N
  <2>1. N - (n + 1) = (N - n) - 1
    BY <1>0
  <2>2. N - n \in 1..N
    BY <1>0
  <2>3. N - n \in 0..N
    BY <1>0
  <2>4. (N - n) - 1 \in 0..N
    BY <1>0
  <2>5. N - n # 0
    BY <1>0
  <2>6. N \in 0..N
    BY <1>0
  <2> QED
    BY <2>1, <2>2, <2>3, <2>4, <2>5, <2>6
<1>2. Bindings(p)[N - n] = Bindings(p)[(N - n) - 1] + d
  BY <1>1, <1>p, <1>q
<1>4. d \in {0, 1} /\ d \in Nat
  OBVIOUS
<1> HIDE DEF d
<1>5. \A k \in 0..N : a(k) = b(k) + d /\ b(k) \in Int
  <2>1. SUFFICES ASSUME NEW k \in 0..N PROVE a(k) = b(k) + d /\ b(k) \in Int
    OBVIOUS
  <2>2. Bindings(p)[k] \in Nat /\ Bindings(p)[N - n] \in Nat /\ Bindings(p)[(N - n) - 1] \in Nat
    BY <1>1, <1>p
  <2>3. a(k) = Bindings(p)[k] - Bindings(p)[(N - n) - 1] /\ b(k) = Bindings(p)[k] - Bindings(p)[N - n]
    BY <1>1
  <2> DEFINE x == Bindings(p)[k]
             y == Bindings(p)[N - n]
             z == Bindings(p)[(N - n) - 1]
  <2> HIDE DEF a, b, x, y, z
  <2>4. x \in Nat /\ y \in Nat /\ z \in Nat /\ y = z + d /\ a(k) = x - z /\ b(k) = x - y
    BY <1>2, <2>2, <2>3 DEF x, y, z
  <2> QED
    BY <1>4, <2>4
<1>6. Len(caps) = Len(c) + d /\ Len(c) \in Nat /\ \A x \in 1..Len(c) : caps[x + d] = c[x]
  <2>1. c \in Seq((Letters \cup Variables) \X Seq(Letters))
    BY DEF Captured
  <2>2. CASE s[1] = "lit"
    BY <2>1, <2>2 DEF d
  <2>3. CASE s[1] # "lit"
    <3> DEFINE X == (Letters \cup Variables) \X Seq(Letters)
               one == <<<<s[2], <<path[j]>>>>>>
    <3>1. s[2] \in Letters \cup Variables
      <4>1. s \in Segments
        BY <1>1, <1>p, <1>q
      <4> QED
        BY <4>1 DEF Segments
    <3>2. path[j] \in Letters
      <4>1. j \in 1..L
        BY <1>0
      <4> QED
        BY <1>p, <4>1
    <3>3. <<path[j]>> \in Seq(Letters)
      BY <3>2
    <3>4. <<s[2], <<path[j]>>>> \in X
      BY <3>1, <3>3
    <3> HIDE DEF X
    <3>5. one \in Seq(X) /\ Len(one) = 1
      BY <3>4
    <3>6. c \in Seq(X)
      BY <2>1 DEF X
    <3>7. caps = one \o c
      BY <2>3
    <3> HIDE DEF one
    <3>8. Joins(caps, one, c)
      BY <3>5, <3>6, <3>7, ConcatJoins
    <3>9. Len(c) \in Nat
      BY <3>6
    <3>10. \A x \in 1..Len(c) : 1 + x = x + 1
      BY <3>9
    <3> QED
      BY <2>3, <3>5, <3>8, <3>9, <3>10 DEF Joins, d
  <2> QED
    BY <2>2, <2>3
<1>7. s[1] # "lit" => caps[1] = <<s[2], <<path[j]>>>>
  BY DEF Captured
<1> DEFINE f == Fixed(p, n)
<1>8. f \in Nat /\ Fixed(p, n + 1) = f + 1
  BY DEF Fixed
<1>10. \A k \in N - n + 1..N : k \in 0..N /\ (p[k][1] # "lit" => b(k) >= 1)
  <2>1. SUFFICES ASSUME NEW k \in N - n + 1..N PROVE k \in 0..N /\ (p[k][1] # "lit" => b(k) >= 1)
    OBVIOUS
  <2>2. k \in 0..N /\ k # 0 /\ k - 1 \in 0..N /\ N - n \in 0..k - 1
    BY <1>0, <1>1
  <2>3. Bindings(p)[k] = Bindings(p)[k - 1] + IF p[k][1] = "lit" THEN 0 ELSE 1
    BY <1>p, <2>2
  <2>4. Bindings(p)[N - n] <= Bindings(p)[k - 1]
    BY <1>p, <2>2
  <2>5. Bindings(p)[N - n] \in Nat /\ Bindings(p)[k - 1] \in Nat
    BY <1>1, <1>p, <2>2
  <2>6. b(k) = Bindings(p)[k] - Bindings(p)[N - n]
    OBVIOUS
  <2> DEFINE x == Bindings(p)[k]
             y == Bindings(p)[N - n]
             z == Bindings(p)[k - 1]
  <2> HIDE DEF b, x, y, z
  <2>7. /\ x = z + IF p[k][1] = "lit" THEN 0 ELSE 1
        /\ x \in Int /\ y \in Nat /\ z \in Nat /\ y <= z /\ b(k) = x - y
    BY <2>3, <2>4, <2>5, <2>6 DEF x, y, z
  <2>8. ASSUME p[k][1] # "lit" PROVE b(k) >= 1
    <3>1. x = z + 1
      BY <2>7, <2>8
    <3> QED
      BY <3>1, <2>7
  <2> QED
    BY <2>2, <2>8
<1>3. s[1] # "lit" => a(N - n) = 1
  <2>1. Bindings(p)[N - n] \in Nat /\ Bindings(p)[(N - n) - 1] \in Nat
    BY <1>1, <1>p
  <2>2. a(N - n) = Bindings(p)[N - n] - Bindings(p)[(N - n) - 1]
    BY <1>1
  <2> HIDE DEF a
  <2> QED
    BY <1>2, <2>1, <2>2 DEF d
<1>f. /\ f <= L + 1 - (j + 1)
      /\ \A i \in 1..f : Piece(p, c, n, N - n + i) = <<path[j + 1 + i - 1]>>
      /\ f <= n
  <2>1. f <= n
    BY <1>0, SMTT(30) DEF Fixed
  <2> QED
    BY <1>9, <2>1
<1> HIDE DEF a, b, f
<1>11. ASSUME NEW k \in N - n + 1..N PROVE Piece(p, caps, n + 1, k) = Piece(p, c, n, k)
  <2>1. CASE p[k][1] = "lit"
    BY <1>x, <1>y, <2>1
  <2>2. CASE p[k][1] # "lit"
    <3>1. k \in 0..N /\ b(k) >= 1 /\ a(k) = b(k) + d /\ b(k) \in Int
      BY <1>5, <1>10, <2>2
    <3>2. Piece(p, caps, n + 1, k) = IF a(k) <= Len(caps) THEN caps[a(k)][2] ELSE <<>>
      BY <1>y, <2>2
    <3>3. Piece(p, c, n, k) = IF b(k) <= Len(c) THEN c[b(k)][2] ELSE <<>>
      BY <1>x, <2>2
    <3>4. a(k) <= Len(caps) <=> b(k) <= Len(c)
      BY <1>4, <1>6, <3>1, SMTT(30)
    <3>5. b(k) <= Len(c) => caps[a(k)] = c[b(k)]
      <4>1. b(k) <= Len(c) => b(k) \in 1..Len(c)
        BY <1>6, <3>1
      <4> QED
        BY <1>6, <3>1, <4>1
    <3> QED
      BY <3>2, <3>3, <3>4, <3>5
  <2> QED
    BY <2>1, <2>2
<1>12. Piece(p, caps, n + 1, N - n) = <<path[j]>>
  <2>1. CASE s[1] = "lit"
    BY <1>q, <1>y, <2>1
  <2>2. CASE s[1] # "lit"
    <3>1. a(N - n) <= Len(caps)
      BY <1>3, <1>6, <2>2 DEF d
    <3>2. Piece(p, caps, n + 1, N - n) = caps[a(N - n)][2]
      BY <1>q, <1>y, <2>2, <3>1
    <3> QED
      BY <1>3, <1>7, <2>2, <3>2
  <2> QED
    BY <2>1, <2>2
<1>13. f + 1 <= L + 1 - j /\ (~Open(p) => L + 1 - j = n + 1)
  BY <1>0, <1>8, <1>9, <1>f
<1>15. ASSUME NEW i \in 1..f + 1 PROVE Piece(p, caps, n + 1, N - (n + 1) + i) = <<path[j + i - 1]>>
  <2>1. CASE i = 1
    <3>1. N - (n + 1) + i = N - n /\ j + i - 1 = j
      BY <1>0, <2>1
    <3> QED
      BY <1>12, <3>1
  <2>2. CASE i # 1
    <3>1. i - 1 \in 1..f
      BY <1>8, <2>2
    <3>2. N - (n + 1) + i = N - n + (i - 1) /\ j + 1 + (i - 1) - 1 = j + i - 1
      BY <1>0, <3>1
    <3>3. N - n + (i - 1) \in N - n + 1..N
      BY <1>0, <1>8, <1>f, <3>1
    <3> QED
      BY <1>f, <1>11, <3>1, <3>2, <3>3
  <2> QED
    BY <2>1, <2>2
<1>16. Open(p) => Piece(p, caps, n + 1, N) = SubSeq(path, j + (n + 1) - 1, L)
  <2>1. SUFFICES ASSUME Open(p) PROVE Piece(p, caps, n + 1, N) = SubSeq(path, j + (n + 1) - 1, L)
    OBVIOUS
  <2>2. n # 0 /\ N \in N - n + 1..N /\ j + (n + 1) - 1 = j + 1 + n - 1
    BY <1>0, <2>1
  <2> QED
    BY <1>9, <1>11, <2>1, <2>2
<1>17. Len(caps) <= a(N)
  <2>1. a(N) = b(N) + d /\ b(N) \in Int /\ Len(c) <= b(N)
    BY <1>1, <1>5, <1>9
  <2> QED
    BY <1>4, <1>6, <2>1
<1>18. ASSUME NEW k \in N - (n + 1) + 1..N, p[k][1] # "lit", a(k) <= Len(caps) PROVE caps[a(k)][1] = p[k][2]
  <2>1. CASE k = N - n
    <3>1. s[1] # "lit" /\ a(k) = 1
      BY <1>3, <1>q, <1>18, <2>1
    <3> QED
      BY <1>7, <1>q, <2>1, <3>1
  <2>2. CASE k # N - n
    <3>1. k \in N - n + 1..N
      BY <1>0, <2>2
    <3>2. k \in 0..N /\ b(k) >= 1 /\ a(k) = b(k) + d /\ b(k) \in Int
      BY <1>5, <1>10, <1>18, <3>1
    <3>3. b(k) <= Len(c) /\ b(k) \in 1..Len(c)
      BY <1>4, <1>6, <1>18, <3>2
    <3>4. caps[a(k)] = c[b(k)]
      BY <1>6, <3>2, <3>3
    <3> QED
      BY <1>9, <1>18, <3>1, <3>3, <3>4
  <2> QED
    BY <2>1, <2>2
<1> QED
  BY <1>8, <1>13, <1>15, <1>16, <1>17, <1>18, <1>z


\* An optional parameter or a wildcard puts what is left of the path at the end.
LEMMA FillsOpen ==
  ASSUME NEW p \in Seq(Segments), NEW path \in Seq(Letters), Open(p), NEW j \in 1..Len(path) + 1,
         NEW s, s = p[Len(p)], NEW caps,
         \/ caps = <<>> /\ j = Len(path) + 1
         \/ caps = <<<<s[2], SubSeq(path, j, Len(path))>>>>
  PROVE  Fills(p, path, 1, j, caps)
<1> DEFINE L == Len(path)
           N == Len(p)
           b(k) == Bindings(p)[k] - Bindings(p)[N - 1]
           value == SubSeq(path, j, L)
<1>1. L \in Nat /\ N \in Nat /\ N # 0 /\ j \in Nat /\ j <= L + 1 /\ N \in 1..N /\ N - 1 \in 0..N /\ N - 1 + 1 = N
  BY DEF Open
<1>2. p[N][1] # "lit" /\ s = p[N]
  BY DEF Open
<1>3. b(N) = 1
  <2>1. Bindings(p)[N] = Bindings(p)[N - 1] + 1 /\ Bindings(p)[N - 1] \in Nat
    BY <1>1, <1>2, BindingsCount
  <2> DEFINE x == Bindings(p)[N]
             y == Bindings(p)[N - 1]
  <2>2. b(N) = x - y /\ x = y + 1 /\ y \in Nat
    BY <2>1
  <2> HIDE DEF b, x, y
  <2> QED
    BY <2>2
<1>4. j = L + 1 => value = <<>>
  BY <1>1
<1>5. \/ Len(caps) = 0 /\ value = <<>>
      \/ Len(caps) = 1 /\ caps[1][1] = s[2] /\ caps[1][2] = value
  BY <1>4
<1>6. Piece(p, caps, 1, N) = value
  <2>1. Piece(p, caps, 1, N) = IF b(N) <= Len(caps) THEN caps[b(N)][2] ELSE <<>>
    BY <1>2 DEF Piece
  <2> HIDE DEF b, value
  <2> QED
    BY <1>3, <1>5, <2>1
<1>7. j + 1 - 1 = j /\ L + 1 - j \in Nat
  BY <1>1
<1>8. Fixed(p, 1) = 0
  BY DEF Fixed
<1>9. \A k \in N - 1 + 1..N : k = N
  <2> HIDE DEF N
  <2> QED
    BY <1>1
<1>10. \A k \in N - 1 + 1..N : p[k][1] # "lit" /\ b(k) <= Len(caps) => caps[b(k)][1] = p[k][2]
  <2> HIDE DEF b, value
  <2> QED
    BY <1>2, <1>3, <1>5, <1>9
<1>11. Len(caps) <= b(N)
  <2>1. Len(caps) = 0 \/ Len(caps) = 1
    BY <1>5
  <2> HIDE DEF b
  <2>2. \A x \in {0, 1} : x <= 1
    OBVIOUS
  <2> QED
    BY <1>3, <2>1, <2>2
<1> QED
  BY <1>6, <1>7, <1>8, <1>10, <1>11 DEF Fills

\* Where a list of captures comes from.
Taken(by, path, n, j, s, caps) ==
  LET from == j <= Len(path) /\ \E c \in by[n - 1][j + 1] : caps = <<<<s[2], <<path[j]>>>>>> \o c
  IN  /\ s[1] \in {"lit", "param", "opt", "wild"}
      /\ s[1] = "lit" => j <= Len(path) /\ path[j] = s[2] /\ caps \in by[n - 1][j + 1]
      /\ s[1] = "param" => from
      /\ s[1] = "opt" => caps \in by[n - 1][j] \/ from
      /\ s[1] = "wild" => caps = <<<<s[2], SubSeq(path, j, Len(path))>>>>

LEMMA CapturesTurn ==
  ASSUME NEW p \in Seq(Segments), NEW path \in Seq(Letters), NEW by, IsMatcher(by, p, path),
         NEW n \in 1..Len(p), NEW j \in 1..Len(path) + 1, NEW s, s = p[Len(p) + 1 - n], NEW caps \in by[n][j]
  PROVE  Taken(by, path, n, j, s, caps)
<1> DEFINE L == Len(path)
           rest == by[n - 1]
           bound == IF j > L THEN {} ELSE {<<<<s[2], <<path[j]>>>>>> \o c : c \in rest[j + 1]}
<1>1. L \in Nat /\ Len(p) \in Nat /\ j \in Nat
  OBVIOUS
<1>2. s[1] \in {"lit", "param", "opt", "wild"}
  <2>1. s \in Segments
    BY <1>1
  <2> QED
    BY <2>1 DEF Segments
<1>3. by[n] = CapturesFrom(s, n = 1, path, rest)
  BY DEF IsMatcher
<1> HIDE DEF rest
<1>4. by[n][j] = CASE s[1] = "lit" -> IF j > L THEN {} ELSE IF path[j] # s[2] THEN {} ELSE rest[j + 1]
                   [] s[1] = "param" -> bound
                   [] s[1] = "opt" -> IF rest[j] # {} THEN rest[j] ELSE bound
                   [] s[1] = "wild" -> IF n = 1 THEN {<<<<s[2], SubSeq(path, j, L)>>>>} ELSE {}
  BY <1>3 DEF CapturesFrom
<1>5. ASSUME caps \in bound PROVE j <= L /\ \E c \in rest[j + 1] : caps = <<<<s[2], <<path[j]>>>>>> \o c
  <2>1. ~(j > L)
    BY <1>5
  <2>2. j <= L
    BY <1>1, <2>1
  <2>3. caps \in {<<<<s[2], <<path[j]>>>>>> \o c : c \in rest[j + 1]}
    BY <1>5, <2>1
  <2> QED
    BY <2>2, <2>3
<1> DEFINE from == j <= L /\ \E c \in rest[j + 1] : caps = <<<<s[2], <<path[j]>>>>>> \o c
<1>6. caps \in bound => from
  BY <1>5
<1> HIDE DEF bound, from
<1>7. s[1] = "lit" => j <= L /\ path[j] = s[2] /\ caps \in rest[j + 1]
  BY <1>1, <1>4
<1>8. s[1] = "param" => from
  BY <1>4, <1>6
<1>9. s[1] = "opt" => caps \in rest[j] \/ from
  BY <1>4, <1>6
<1>10. s[1] = "wild" => caps = <<<<s[2], SubSeq(path, j, L)>>>>
  BY <1>4
<1> QED
  BY <1>2, <1>7, <1>8, <1>9, <1>10 DEF Taken, rest, from


\* What any captures of the last n segments put back, for every number of segments.
LEMMA CapturesFill ==
  ASSUME NEW p \in Seq(Segments), Parses(p), NEW path \in Seq(Letters), NEW by, IsMatcher(by, p, path)
  PROVE  \A n \in 0..Len(p) : \A j \in 1..Len(path) + 1 : \A caps \in by[n][j] : Fills(p, path, n, j, caps)
<1> DEFINE L == Len(path)
           N == Len(p)
           All(n) == \A j \in 1..L + 1 : \A caps \in by[n][j] : Fills(p, path, n, j, caps)
           S == {n \in Nat : n <= N => All(n)}
<1>1. L \in Nat /\ N \in Nat
  OBVIOUS
<1>2. 0 \in S
  <2>1. SUFFICES ASSUME NEW j \in 1..L + 1, NEW caps \in by[0][j] PROVE Fills(p, path, 0, j, caps)
    OBVIOUS
  <2>2. j = L + 1 /\ caps = <<>>
    BY DEF IsMatcher
  <2>3. Bindings(p)[N] - Bindings(p)[N - 0] = 0
    <3>1. Bindings(p)[N] \in Nat /\ N - 0 = N
      BY <1>1, BindingsCount
    <3> DEFINE x == Bindings(p)[N]
    <3>2. x \in Nat /\ Bindings(p)[N - 0] = x
      BY <3>1
    <3> HIDE DEF x
    <3>3. x - x = 0
      BY <3>2
    <3> QED
      BY <3>2, <3>3 DEF x
  <2>4. Fixed(p, 0) = 0 /\ L + 1 - j = 0 /\ Len(caps) = 0 /\ N - 0 + 1..N = {}
    BY <1>1, <2>2 DEF Fixed
  <2> QED
    BY <2>3, <2>4 DEF Fills
<1>3. ASSUME NEW n \in S PROVE n + 1 \in S
  <2>1. n \in Nat /\ n + 1 \in Nat
    OBVIOUS
  <2>2. SUFFICES ASSUME n + 1 <= N, NEW j \in 1..L + 1, NEW caps \in by[n + 1][j]
                 PROVE  Fills(p, path, n + 1, j, caps)
    BY <2>1
  <2>3. All(n) /\ n + 1 \in 1..N /\ N + 1 - (n + 1) = N - n /\ (n + 1) - 1 = n /\ n \in 0..N
    BY <1>1, <2>1, <2>2
  <2> DEFINE s == p[N - n]
  <2>4. s = p[Len(p) + 1 - (n + 1)] /\ N - n \in 1..N
    BY <1>1, <2>1, <2>2
  <2> HIDE DEF s, S, All
  <2> DEFINE from == j <= L /\ \E c \in by[n][j + 1] : caps = <<<<s[2], <<path[j]>>>>>> \o c
  <2>5. /\ s[1] \in {"lit", "param", "opt", "wild"}
        /\ s[1] = "lit" => j <= L /\ path[j] = s[2] /\ caps \in by[n][j + 1]
        /\ s[1] = "param" => from
        /\ s[1] = "opt" => caps \in by[n][j] \/ from
        /\ s[1] = "wild" => caps = <<<<s[2], SubSeq(path, j, L)>>>>
    <3> DEFINE k == n + 1
    <3>1. k \in 1..Len(p) /\ s = p[Len(p) + 1 - k] /\ caps \in by[k][j] /\ k - 1 = n
      BY <2>1, <2>2, <2>3, <2>4
    <3> HIDE DEF k
    <3>2. Taken(by, path, k, j, s, caps)
      BY <3>1, CapturesTurn
    <3> QED
      BY <3>1, <3>2 DEF Taken
  <2>6. n # 0 => s[1] \in {"lit", "param"}
    <3>1. n # 0 => N - n # N /\ N - n \in 1..N
      BY <1>1, <2>1, <2>4
    <3> QED
      BY <2>5, <3>1 DEF s, Parses
  <2>7. by[n] \in [1..L + 1 -> SUBSET Captured]
    BY <2>3 DEF IsMatcher
  <2>8. j <= L => j \in 1..L /\ j + 1 \in 1..L + 1
    BY <1>1
  <2>9. ASSUME j <= L, NEW c \in by[n][j + 1] PROVE c \in Captured /\ Fills(p, path, n, j + 1, c)
    BY <2>3, <2>7, <2>8, <2>9 DEF All
  <2>10. CASE s[1] = "lit"
    <3>1. j \in 1..L /\ caps \in Captured /\ Fills(p, path, n, j + 1, caps) /\ path[j] = s[2]
      BY <2>5, <2>8, <2>9, <2>10
    <3>2. n = 0 => ~Open(p)
      BY <1>1, <2>10 DEF Open, s
    <3>3. s[1] \in {"lit", "param"} /\ caps = IF s[1] = "lit" THEN caps ELSE <<<<s[2], <<path[j]>>>>>> \o caps
      BY <2>10
    <3>4. s = p[Len(p) - n] /\ n + 1 <= Len(p)
      BY <2>2 DEF s
    <3> QED
      BY <2>1, <3>1, <3>2, <3>3, <3>4, FillsMore
  <2>11. CASE s[1] = "param"
    <3>1. PICK c \in by[n][j + 1] : caps = <<<<s[2], <<path[j]>>>>>> \o c
      BY <2>5, <2>11
    <3>2. j \in 1..L /\ c \in Captured /\ Fills(p, path, n, j + 1, c)
      BY <2>5, <2>8, <2>9, <2>11, <3>1
    <3>3. n = 0 => ~Open(p)
      BY <1>1, <2>11 DEF Open, s
    <3>4. s[1] \in {"lit", "param"} /\ caps = IF s[1] = "lit" THEN c ELSE <<<<s[2], <<path[j]>>>>>> \o c
      BY <2>11, <3>1
    <3>5. s = p[Len(p) - n] /\ n + 1 <= Len(p)
      BY <2>2 DEF s
    <3> QED
      BY <2>1, <2>11, <3>2, <3>3, <3>4, <3>5, FillsMore
  <2>12. CASE s[1] \in {"opt", "wild"}
    <3>1. n = 0
      BY <2>6, <2>12
    <3>2. Open(p) /\ s = p[Len(p)]
      BY <1>1, <2>4, <2>12, <3>1 DEF Open, s
    <3>3. \A k \in 1..L + 1 : \A c \in by[n][k] : k = L + 1 /\ c = <<>>
      BY <3>1 DEF IsMatcher
    <3>4. \/ caps = <<>> /\ j = L + 1
          \/ caps = <<<<s[2], SubSeq(path, j, L)>>>>
      <4>1. CASE s[1] = "wild"
        BY <2>5, <4>1
      <4>2. CASE s[1] = "opt" /\ caps \in by[n][j]
        BY <3>3, <4>2
      <4>3. CASE s[1] = "opt" /\ from
        <5>1. PICK c \in by[n][j + 1] : caps = <<<<s[2], <<path[j]>>>>>> \o c
          BY <4>3
        <5>2. j = L /\ c = <<>> /\ j \in 1..L
          <6>1. j \in 1..L /\ j + 1 \in 1..L + 1
            BY <2>8, <4>3
          <6>2. j + 1 = L + 1 /\ c = <<>>
            BY <3>3, <6>1
          <6> QED
            BY <1>1, <6>1, <6>2
        <5>3. SubSeq(path, j, L) = <<path[j]>>
          <6>1. SubSeq(path, j, L) = <<path[j]>> \o SubSeq(path, j + 1, L) /\ SubSeq(path, j + 1, L) = <<>>
            BY <1>1, <5>2, SubSeqRecursiveFirst, SubSeqEmpty
          <6>2. path[j] \in Letters
            BY <5>2
          <6>3. \A x \in Letters : <<x>> \o <<>> = <<x>>
            OBVIOUS
          <6> QED
            BY <6>1, <6>2, <6>3
        <5>4. <<<<s[2], <<path[j]>>>>>> \o <<>> = <<<<s[2], <<path[j]>>>>>>
          OBVIOUS
        <5> QED
          BY <5>1, <5>2, <5>3, <5>4
      <4> QED
        BY <2>5, <2>12, <4>1, <4>2, <4>3
    <3>5. Fills(p, path, 1, j, caps)
      BY <3>2, <3>4, FillsOpen
    <3> QED
      BY <3>1, <3>5
  <2> QED
    BY <2>5, <2>10, <2>11, <2>12
<1>4. S = Nat
  <2> HIDE DEF S
  <2>1. S \in SUBSET Nat
    BY DEF S
  <2> QED
    BY <1>2, <1>3, <2>1, EveryNumber
<1>5. ASSUME NEW n \in 0..N PROVE All(n)
  <2>1. n \in S /\ n <= N
    BY <1>1, <1>4
  <2> QED
    BY <2>1
<1> QED
  BY <1>5


\* Captures that give the path back, segment by segment, put together.
IsFill(f, p, caps) ==
  f = [k \in 0..Len(p) |->
         IF k = 0 THEN <<>>
         ELSE f[k - 1] \o (IF p[k][1] = "lit" THEN <<p[k][2]>>
                           ELSE IF Bindings(p)[k] <= Len(caps) THEN caps[Bindings(p)[k]][2] ELSE <<>>)]

LEMMA FilledPath ==
  ASSUME NEW p \in Seq(Segments), NEW path \in Seq(Letters), NEW caps, Fills(p, path, Len(p), 1, caps)
  PROVE  (CHOOSE f : IsFill(f, p, caps))[Len(p)] = path
<1> DEFINE L == Len(path)
           N == Len(p)
           F == Fixed(p, N)
           value(k) == Piece(p, caps, N, k)
           g == [k \in 0..N |-> IF k <= F THEN SubSeq(path, 1, k) ELSE path]
<1>1. L \in Nat /\ N \in Nat /\ F \in Nat /\ F <= N /\ (~Open(p) => F = N) /\ (Open(p) => F + 1 = N /\ N # 0)
  BY DEF Fixed, Open
<1>2. \A f : IsFill(f, p, caps) <=> f = [k \in 0..N |-> IF k = 0 THEN <<>> ELSE f[k - 1] \o value(k)]
  <2>1. \A k \in 0..N : Bindings(p)[k] - Bindings(p)[N - N] = Bindings(p)[k]
    <3>1. SUFFICES ASSUME NEW k \in 0..N PROVE Bindings(p)[k] - Bindings(p)[N - N] = Bindings(p)[k]
      OBVIOUS
    <3>2. N - N = 0 /\ Bindings(p)[0] = 0 /\ Bindings(p)[k] \in Nat
      BY <1>1, BindingsCount
    <3> DEFINE x == Bindings(p)[k]
    <3>3. x \in Nat /\ Bindings(p)[N - N] = 0
      BY <3>2
    <3> HIDE DEF x
    <3>4. x - 0 = x
      BY <3>3
    <3> QED
      BY <3>3, <3>4 DEF x
  <2>2. \A k \in 0..N : value(k) = IF p[k][1] = "lit" THEN <<p[k][2]>>
                                   ELSE IF Bindings(p)[k] <= Len(caps) THEN caps[Bindings(p)[k]][2] ELSE <<>>
    BY <2>1 DEF Piece
  <2> HIDE DEF value
  <2>3. TAKE f
  <2> DEFINE one == [k \in 0..N |-> IF k = 0 THEN <<>> ELSE f[k - 1] \o value(k)]
             two == [k \in 0..N |->
                       IF k = 0 THEN <<>>
                       ELSE f[k - 1] \o (IF p[k][1] = "lit" THEN <<p[k][2]>>
                                         ELSE IF Bindings(p)[k] <= Len(caps) THEN caps[Bindings(p)[k]][2] ELSE <<>>)]
  <2>4. one = two
    BY <2>2
  <2> QED
    BY <2>4 DEF IsFill
<1>3. /\ F <= L /\ (~Open(p) => L = N)
      /\ \A k \in 1..F : value(k) = <<path[k]>>
      /\ Open(p) => value(N) = SubSeq(path, N, L)
  <2>1. /\ F <= L + 1 - 1 /\ (~Open(p) => L + 1 - 1 = N)
        /\ \A i \in 1..F : Piece(p, caps, N, N - N + i) = <<path[1 + i - 1]>>
        /\ N # 0 /\ Open(p) => Piece(p, caps, N, N) = SubSeq(path, 1 + N - 1, L)
    BY DEF Fills
  <2>2. L + 1 - 1 = L /\ 1 + N - 1 = N /\ \A i \in 1..F : N - N + i = i /\ 1 + i - 1 = i
    BY <1>1
  <2> HIDE DEF F
  <2> QED
    BY <1>1, <2>1, <2>2
<1> HIDE DEF F, value, N, L
<1>4. ASSUME NEW k \in 1..N PROVE g[k - 1] \in Seq(Letters) /\ g[k] = g[k - 1] \o value(k)
  <2>1. CASE k <= F
    <3>1. k - 1 <= F /\ k - 1 \in 0..N /\ k \in 0..N /\ 1 \in 1..L /\ k \in 1..L /\ k \in 1..F
      BY <1>1, <1>3, <2>1
    <3>2. g[k] = SubSeq(path, 1, k) /\ g[k - 1] = SubSeq(path, 1, k - 1) /\ value(k) = <<path[k]>>
      BY <1>3, <2>1, <3>1
    <3>3. SubSeq(path, 1, k) = SubSeq(path, 1, k - 1) \o <<path[k]>>
      BY <3>1, SubSeqRecursiveSecond DEF L
    <3>4. SubSeq(path, 1, k - 1) \in Seq(Letters)
      BY <3>1 DEF L
    <3> HIDE DEF g
    <3> QED
      BY <3>2, <3>3, <3>4
  <2>2. CASE ~(k <= F)
    <3>1. Open(p) /\ k = N /\ k - 1 = F /\ k - 1 \in 0..L /\ k - 1 \in 0..N /\ k \in 0..N /\ (k - 1) + 1 = k
      BY <1>1, <1>3, <2>2
    <3>2. g[k] = path /\ g[k - 1] = SubSeq(path, 1, k - 1) /\ value(k) = SubSeq(path, k, L)
      BY <1>1, <1>3, <2>2, <3>1
    <3>3. SubSeq(path, 1, k - 1) \o SubSeq(path, (k - 1) + 1, L) = SubSeq(path, 1, L)
      <4>1. 1 \in 1..L + 1 /\ k - 1 \in 1 - 1..L /\ L \in k - 1..L
        BY <1>1, <3>1
      <4> QED
        BY <4>1, ConcatAdjacentSubSeq DEF L
    <3>4. SubSeq(path, 1, L) = path
      BY SubSeqFull DEF L
    <3>5. SubSeq(path, 1, k - 1) \in Seq(Letters) /\ (k - 1) + 1 = k
      BY <3>1 DEF L
    <3> HIDE DEF g
    <3>6. g[k - 1] \in Seq(Letters)
      BY <3>2, <3>5
    <3>7. g[k] = SubSeq(path, 1, k - 1) \o SubSeq(path, k, L)
      BY <3>2, <3>3, <3>4, <3>5
    <3> QED
      BY <3>2, <3>6, <3>7
  <2> QED
    BY <2>1, <2>2
<1>5. g[0] = <<>> /\ g[N] = path
  <2>1. SubSeq(path, 1, 0) = <<>> /\ SubSeq(path, 1, L) = path
    BY SubSeqEmpty, SubSeqFull DEF L
  <2>2. g[0] = SubSeq(path, 1, 0)
    BY <1>1
  <2>3. N <= F => N = L
    BY <1>1, <1>3
  <2>4. N \in 0..N
    BY <1>1
  <2> QED
    BY <2>1, <2>2, <2>3, <2>4
<1>6. g = [k \in 0..N |-> IF k = 0 THEN <<>> ELSE g[k - 1] \o value(k)]
  <2>1. \A k \in 0..N : k = 0 \/ k \in 1..N
    BY <1>1
  <2>2. \A k \in 0..N : g[k] = IF k = 0 THEN <<>> ELSE g[k - 1] \o value(k)
    BY <1>4, <1>5, <2>1
  <2>3. g = [k \in 0..N |-> g[k]]
    OBVIOUS
  <2> HIDE DEF g
  <2> QED
    BY <2>2, <2>3
<1> DEFINE f == CHOOSE f : IsFill(f, p, caps)
<1> HIDE DEF g
<1>7. IsFill(f, p, caps)
  <2>1. \E h : IsFill(h, p, caps)
    BY <1>2, <1>6
  <2> QED
    BY <2>1
<1> HIDE DEF f
<1>8. f = [k \in 0..N |-> IF k = 0 THEN <<>> ELSE f[k - 1] \o value(k)]
  BY <1>2, <1>7
<1> DEFINE S == {k \in Nat : k <= N => f[k] = g[k]}
<1>9. 0 \in S
  <2>1. 0 \in 0..N
    BY <1>1
  <2> QED
    BY <1>5, <1>8, <2>1
<1>10. ASSUME NEW k \in S PROVE k + 1 \in S
  <2>1. SUFFICES ASSUME k + 1 <= N PROVE f[k + 1] = g[k + 1]
    OBVIOUS
  <2>2. k <= N /\ k + 1 \in 1..N /\ k + 1 \in 0..N /\ (k + 1) - 1 = k /\ k + 1 # 0
    BY <1>1, <2>1
  <2>3. f[k] = g[k]
    BY <2>2
  <2>4. f[k + 1] = f[k] \o value(k + 1)
    BY <1>8, <2>2
  <2>5. g[k + 1] = g[k] \o value(k + 1)
    BY <1>4, <2>2
  <2> QED
    BY <2>3, <2>4, <2>5
<1>11. S = Nat
  <2> HIDE DEF S
  <2>1. S \in SUBSET Nat
    BY DEF S
  <2> QED
    BY <1>9, <1>10, <2>1, EveryNumber
<1>12. f[N] = g[N]
  BY <1>1, <1>11
<1> QED
  BY <1>5, <1>12 DEF f, N

\* Put back into the pattern, the captures of any path give the path.
GivesBack(p, path) ==
  /\ Matches(p, path) <=> path \in Language(p)
  /\ \A caps \in Captures(p, path) :
       /\ (CHOOSE f : IsFill(f, p, caps))[Len(p)] = path /\ Len(caps) <= Bindings(p)[Len(p)]
       /\ \A k \in DOMAIN p : p[k][1] # "lit" /\ Bindings(p)[k] <= Len(caps) =>
            caps[Bindings(p)[k]][1] = p[k][2]

LEMMA CapturesRight ==
  ASSUME RoutingInv
  PROVE  CapturesFillPath
<1>0. CapturesFillPath <=> \A i \in DOMAIN routes : \A path \in RequestPaths : GivesBack(routes[i].pattern, path)
  BY DEF CapturesFillPath, GivesBack, IsFill
<1>1. SUFFICES ASSUME NEW i \in DOMAIN routes, NEW path \in RequestPaths, NEW p, p = routes[i].pattern
               PROVE  GivesBack(p, path)
  BY <1>0
<1>2. p \in Seq(Segments) /\ Parses(p) /\ path \in Seq(Letters)
  BY <1>1, EntryTyped, PathIsList DEF RoutingInv
<1>3. Matches(p, path) <=> path \in Language(p)
  BY <1>2, MatchesLanguage
<1>4. PICK by : IsMatcher(by, p, path)
  BY <1>2, MatcherRuns
<1>5. ASSUME NEW caps \in Captures(p, path) PROVE Fills(p, path, Len(p), 1, caps)
  <2>1. caps \in by[Len(p)][1]
    BY <1>4 DEF IsMatcher
  <2>2. Len(p) \in 0..Len(p) /\ 1 \in 1..Len(path) + 1
    BY <1>2
  <2> QED
    BY <1>2, <1>4, <2>1, <2>2, CapturesFill
<1>6. ASSUME NEW caps \in Captures(p, path)
      PROVE  /\ Len(caps) <= Bindings(p)[Len(p)]
             /\ \A k \in DOMAIN p : p[k][1] # "lit" /\ Bindings(p)[k] <= Len(caps) =>
                  caps[Bindings(p)[k]][1] = p[k][2]
  <2> DEFINE N == Len(p)
             B == Bindings(p)
  <2>1. N \in Nat /\ B \in [0..N -> Nat] /\ B[0] = 0
    BY <1>2, BindingsCount
  <2>2. /\ Len(caps) <= B[N] - B[N - N]
        /\ \A k \in N - N + 1..N : p[k][1] # "lit" /\ B[k] - B[N - N] <= Len(caps) =>
             caps[B[k] - B[N - N]][1] = p[k][2]
    BY <1>5 DEF Fills
  <2>3. DOMAIN p = 1..N
    BY <1>2
  <2> HIDE DEF N, B
  <2>4. N - N = 0 /\ N - N + 1 = 1 /\ \A k \in 0..N : B[k] - B[N - N] = B[k]
    BY <2>1
  <2>5. N \in 0..N /\ \A k \in 1..N : k \in 0..N
    BY <2>1
  <2>6. Len(caps) <= B[N]
    BY <2>2, <2>4, <2>5
  <2>7. \A k \in 1..N : p[k][1] # "lit" /\ B[k] <= Len(caps) => caps[B[k]][1] = p[k][2]
    BY <2>2, <2>4, <2>5
  <2> QED
    BY <2>3, <2>6, <2>7 DEF N, B
<1> QED
  BY <1>2, <1>3, <1>5, <1>6, FilledPath DEF GivesBack


-----------------------------------------------------------------------------
(* The order of specificity and the paths of a pattern. *)

\* A path of n segments of a pattern, with c wherever nothing is written.
Word(q, n, c) == [t \in 1..n |-> IF t <= Len(q) /\ q[t][1] = "lit" THEN q[t][2] ELSE c]

LEMMA WordIsPath ==
  ASSUME NEW q \in Seq(Segments), NEW c \in Letters, NEW n \in 0..MaxPath,
         Fixed(q, Len(q)) <= n, n <= Len(q) \/ (Open(q) /\ q[Len(q)][1] = "wild")
  PROVE  Word(q, n, c) \in Language(q) /\ Word(q, n, c) \in RequestPaths /\ Len(Word(q, n, c)) = n
<1> DEFINE w == Word(q, n, c)
<1>1. n \in Nat /\ Len(q) \in Nat
  BY RoutingAssumption
<1>2. ASSUME NEW t \in 1..n PROVE w[t] \in Letters
  <2>1. CASE t <= Len(q) /\ q[t][1] = "lit"
    <3>1. q[t] \in Segments
      BY <1>1, <2>1
    <3>2. q[t][2] \in Letters
      BY <2>1, <3>1 DEF Segments
    <3> QED
      BY <2>1, <3>2 DEF Word
  <2>2. CASE ~(t <= Len(q) /\ q[t][1] = "lit")
    BY <2>2 DEF Word
  <2> QED
    BY <2>1, <2>2
<1>3. w = [t \in 1..n |-> w[t]]
  BY DEF Word
<1> HIDE DEF w
<1>4. w \in [1..n -> Letters]
  BY <1>2, <1>3
<1>5. w \in RequestPaths /\ Len(w) = n
  BY <1>1, <1>4 DEF RequestPaths
<1>6. Fixed(q, Len(q)) \in Nat /\ Fixed(q, Len(q)) <= Len(q)
  BY <1>1 DEF Fixed, Open
<1>7. \A t \in 1..Fixed(q, Len(q)) : q[t][1] = "lit" => w[t] = q[t][2]
  <2>1. SUFFICES ASSUME NEW t \in 1..Fixed(q, Len(q)), q[t][1] = "lit" PROVE w[t] = q[t][2]
    OBVIOUS
  <2>2. t \in 1..n /\ t <= Len(q)
    BY <1>1, <1>6
  <2> QED
    BY <2>1, <2>2 DEF w, Word
<1>8. w \in Language(q)
  BY <1>5, <1>7, LanguageIs
<1> QED
  BY <1>5, <1>8 DEF w

\* A pattern whose paths are a proper part of another's comes before it.
LEMMA MoreSpecific ==
  ASSUME NEW p \in Seq(Segments), NEW q \in Seq(Segments), Parses(p), Parses(q),
         Len(q) <= MaxPath, Open(p) /\ p[Len(p)][1] = "opt" => Len(p) < MaxPath,
         Language(q) \subseteq Language(p), Language(q) # Language(p)
  PROVE  Before(q, p)
<1> DEFINE M == Len(p)
           N == Len(q)
           Agree(i) == \A k \in 1..i - 1 : Weight(q, k) = Weight(p, k)
<1>1. M \in Nat /\ N \in Nat /\ N <= MaxPath /\ MaxPath \in Nat
  BY RoutingAssumption
<1>2. /\ Fixed(p, M) \in Nat /\ Fixed(p, M) <= M /\ M <= Fixed(p, M) + 1
      /\ Fixed(q, N) \in Nat /\ Fixed(q, N) <= N /\ N <= Fixed(q, N) + 1
      /\ ~Open(p) => Fixed(p, M) = M
      /\ Open(q) => Fixed(q, N) = N - 1 /\ N # 0
      /\ Open(p) => M # 0
  BY <1>1 DEF Fixed, Open
<1>3. \A k \in 1..M : p[k] \in Segments /\ p[k][1] \in {"lit", "param", "opt", "wild"} /\ Weight(p, k) = Rank[p[k][1]]
  BY <1>1 DEF Segments, Weight
<1>4. \A k \in 1..N : q[k] \in Segments /\ q[k][1] \in {"lit", "param", "opt", "wild"} /\ Weight(q, k) = Rank[q[k][1]]
  BY <1>1 DEF Segments, Weight
<1>5. \A k : (k \notin 1..M => Weight(p, k) = 4) /\ (k \notin 1..N => Weight(q, k) = 4)
  BY DEF Weight
<1>6. Rank["lit"] = 3 /\ Rank["param"] = 2 /\ Rank["opt"] = 1 /\ Rank["wild"] = 0
  BY DEF Rank
<1>7. /\ \A k \in 1..M : p[k][1] \in {"opt", "wild"} => k = M /\ Open(p)
      /\ \A k \in 1..N : q[k][1] \in {"opt", "wild"} => k = N /\ Open(q)
  BY <1>1 DEF Parses, Open
<1>8. ASSUME NEW n \in 0..MaxPath, Fixed(q, N) <= n, n <= N \/ (Open(q) /\ q[N][1] = "wild"), NEW c \in Letters
      PROVE  /\ Word(q, n, c) \in RequestPaths /\ Len(Word(q, n, c)) = n
             /\ Fixed(p, M) <= n /\ (n <= M \/ (Open(p) /\ p[M][1] = "wild"))
             /\ \A i \in 1..Fixed(p, M) : p[i][1] = "lit" => Word(q, n, c)[i] = p[i][2]
  <2>1. Word(q, n, c) \in Language(q) /\ Word(q, n, c) \in RequestPaths /\ Len(Word(q, n, c)) = n
    BY <1>8, WordIsPath
  <2>2. Word(q, n, c) \in Language(p)
    BY <2>1
  <2> QED
    BY <2>1, <2>2, LanguageIs
<1>9. PICK a \in Letters, b \in Letters : a # b
  BY EnoughPaths
<1>10. N \in 0..MaxPath /\ Fixed(q, N) <= N
  BY <1>1, <1>2
<1> HIDE DEF M, N
<1>11. ASSUME NEW i \in Nat \ {0}, Agree(i), Weight(q, i) < Weight(p, i) PROVE FALSE
  <2>1. i \in 1..N
    <3>1. Weight(p, i) \in 0..4
      BY <1>1, WeightIsNumber
    <3>2. i \notin 1..N => Weight(q, i) = 4
      BY <1>5
    <3> QED
      BY <1>11, <3>1, <3>2
  <2>2. \A k \in 1..i - 1 : k \in 1..M
    <3>1. SUFFICES ASSUME NEW k \in 1..i - 1, k \notin 1..M PROVE FALSE
      OBVIOUS
    <3>2. k \in 1..N
      BY <1>1, <2>1
    <3>3. Weight(q, k) = 4
      BY <1>5, <1>11, <3>1
    <3> QED
      BY <1>4, <1>6, <3>2, <3>3
  <2>3. CASE i \notin 1..M
    <3>1. M = i - 1
      <4>1. i - 1 = 0 \/ i - 1 \in 1..i - 1
        BY <1>11
      <4> QED
        BY <1>1, <1>11, <2>2, <2>3, <4>1
    <3>2. ~Open(p)
      <4>1. SUFFICES ASSUME Open(p) PROVE FALSE
        OBVIOUS
      <4>2. M \in 1..M /\ M \in 1..i - 1 /\ M \in 1..N /\ M # N
        BY <1>1, <1>2, <2>1, <3>1, <4>1
      <4>3. p[M][1] \in {"opt", "wild"}
        BY <4>1 DEF Open, M
      <4>4. Rank[q[M][1]] = Rank[p[M][1]]
        BY <1>3, <1>4, <1>11, <4>2
      <4>5. q[M][1] \in {"opt", "wild"}
        BY <1>3, <1>4, <1>6, <4>2, <4>3, <4>4
      <4> QED
        BY <1>7, <4>2, <4>5
    <3>3. N <= M \/ Open(p)
      BY <1>8, <1>9, <1>10
    <3> QED
      BY <1>1, <2>1, <3>1, <3>2, <3>3
  <2>4. CASE i \in 1..M
    <3>1. Rank[q[i][1]] < Rank[p[i][1]]
      BY <1>3, <1>4, <1>11, <2>1, <2>4
    <3>2. \/ p[i][1] = "lit" /\ q[i][1] = "param"
          \/ p[i][1] \in {"lit", "param"} /\ q[i][1] \in {"opt", "wild"}
          \/ p[i][1] = "opt" /\ q[i][1] = "wild"
      BY <1>3, <1>4, <1>6, <2>1, <2>4, <3>1
    <3>3. p[i][1] \in {"lit", "param"} => i \in 1..Fixed(p, M)
      <4>1. SUFFICES ASSUME p[i][1] \in {"lit", "param"}, i \notin 1..Fixed(p, M) PROVE FALSE
        OBVIOUS
      <4>2. i = M /\ Open(p)
        BY <1>1, <1>2, <2>4, <4>1
      <4> QED
        BY <4>1, <4>2 DEF Open, M
    <3>4. CASE p[i][1] = "lit" /\ q[i][1] = "param"
      <4>1. PICK c \in Letters : c # p[i][2]
        BY <1>9
      <4>2. Word(q, N, c)[i] = p[i][2]
        BY <1>8, <1>10, <3>3, <3>4
      <4>3. Word(q, N, c)[i] = c
        BY <2>1, <3>4 DEF Word, N
      <4> QED
        BY <4>1, <4>2, <4>3
    <3>5. CASE p[i][1] \in {"lit", "param"} /\ q[i][1] \in {"opt", "wild"}
      <4>1. i = N /\ Open(q) /\ Fixed(q, N) = i - 1
        BY <1>2, <1>7, <2>1, <3>5
      <4>2. i - 1 \in 0..MaxPath /\ i - 1 <= N
        BY <1>1, <2>1
      <4>3. Fixed(p, M) <= i - 1
        <5>1. Fixed(q, N) <= i - 1
          BY <4>1, <1>2
        <5> QED
          BY <1>8, <1>9, <4>2, <5>1
      <4> QED
        BY <1>2, <3>3, <3>5, <4>3
    <3>6. CASE p[i][1] = "opt" /\ q[i][1] = "wild"
      <4>1. i = M /\ i = N /\ Open(p) /\ Open(q) /\ q[N][1] = "wild" /\ p[M][1] = "opt"
        BY <1>7, <2>1, <2>4, <3>6
      <4>2. M < MaxPath
        BY <4>1 DEF M
      <4>3. M + 1 \in 0..MaxPath /\ Fixed(q, N) <= M + 1
        BY <1>1, <1>2, <4>1, <4>2
      <4>4. M + 1 <= M \/ p[M][1] = "wild"
        BY <1>8, <1>9, <4>1, <4>3
      <4> QED
        BY <1>1, <4>1, <4>4
    <3> QED
      BY <3>2, <3>4, <3>5, <3>6
  <2> QED
    BY <2>3, <2>4
<1>12. \E i \in Nat \ {0} : Weight(q, i) # Weight(p, i)
  <2>1. SUFFICES ASSUME \A i \in Nat \ {0} : Weight(q, i) = Weight(p, i) PROVE FALSE
    OBVIOUS
  <2>2. M = N
    <3>1. SUFFICES ASSUME M # N PROVE FALSE
      OBVIOUS
    <3>2. CASE M < N
      <4>1. N \in 1..N /\ N \notin 1..M /\ N \in Nat \ {0}
        BY <1>1, <3>2
      <4>2. Weight(p, N) = 4 /\ Weight(q, N) = Rank[q[N][1]]
        BY <1>4, <1>5, <4>1
      <4> QED
        BY <1>4, <1>6, <2>1, <4>1, <4>2
    <3>3. CASE N < M
      <4>1. M \in 1..M /\ M \notin 1..N /\ M \in Nat \ {0}
        BY <1>1, <3>3
      <4>2. Weight(q, M) = 4 /\ Weight(p, M) = Rank[p[M][1]]
        BY <1>3, <1>5, <4>1
      <4> QED
        BY <1>3, <1>6, <2>1, <4>1, <4>2, SMTT(30)
    <3> QED
      BY <1>1, <3>1, <3>2, <3>3
  <2>3. \A k \in 1..M : q[k][1] = p[k][1]
    <3>1. SUFFICES ASSUME NEW k \in 1..M PROVE q[k][1] = p[k][1]
      OBVIOUS
    <3>2. k \in 1..N /\ k \in Nat \ {0}
      BY <1>1, <2>2
    <3>3. Rank[q[k][1]] = Rank[p[k][1]]
      BY <1>3, <1>4, <2>1, <3>2
    <3>4. k \in 1..M
      OBVIOUS
    <3> DEFINE a1 == q[k][1]  b1 == p[k][1]
    <3>5. a1 \in {"lit", "param", "opt", "wild"} /\ b1 \in {"lit", "param", "opt", "wild"}
      BY <1>3, <1>4, <3>2, <3>4
    <3>6. Rank[a1] = Rank[b1]
      BY <3>3
    <3> HIDE DEF a1, b1
    <3>7. a1 = b1
      BY <1>6, <3>5, <3>6
    <3> QED
      BY <3>7 DEF a1, b1
  <2>4. (Open(p) <=> Open(q)) /\ Fixed(p, M) = Fixed(q, N) /\ (Open(p) => p[M][1] = q[N][1])
    <3>1. (Open(p) <=> M # 0 /\ p[M][1] \in {"opt", "wild"}) /\ (Open(q) <=> N # 0 /\ q[N][1] \in {"opt", "wild"})
      BY DEF Open, M, N
    <3>2. M # 0 => M \in 1..M
      BY <1>1
    <3>3. Open(p) <=> Open(q)
      BY <2>2, <2>3, <3>1, <3>2
    <3> QED
      BY <2>2, <2>3, <3>1, <3>2, <3>3 DEF Fixed
  <2>5. ASSUME NEW k \in 1..Fixed(p, M), p[k][1] = "lit" PROVE q[k][2] = p[k][2]
    <3>1. k \in 1..M /\ k \in 1..N /\ q[k][1] = "lit"
      BY <1>1, <1>2, <2>2, <2>3, <2>5
    <3>2. Word(q, N, a)[k] = p[k][2]
      BY <1>8, <1>10, <2>5
    <3>3. Word(q, N, a)[k] = q[k][2]
      BY <3>1 DEF Word, N
    <3> QED
      BY <3>2, <3>3
  <2>6. Language(p) \subseteq Language(q)
    <3>1. SUFFICES ASSUME NEW path \in Language(p) PROVE path \in Language(q)
      OBVIOUS
    <3>2. path \in RequestPaths
      BY DEF Language
    <3>3. /\ Fixed(p, M) <= Len(path) /\ (Len(path) <= M \/ (Open(p) /\ p[M][1] = "wild"))
          /\ \A k \in 1..Fixed(p, M) : p[k][1] = "lit" => path[k] = p[k][2]
      BY <3>1, <3>2, LanguageIs DEF M
    <3>4. \A k \in 1..Fixed(q, N) : q[k][1] = "lit" => path[k] = q[k][2]
      <4>1. SUFFICES ASSUME NEW k \in 1..Fixed(q, N), q[k][1] = "lit" PROVE path[k] = q[k][2]
        OBVIOUS
      <4>2. k \in 1..Fixed(p, M) /\ k \in 1..M
        BY <1>1, <1>2, <2>4
      <4>3. p[k][1] = "lit"
        BY <2>3, <4>1, <4>2
      <4> QED
        BY <2>5, <3>3, <4>2, <4>3
    <3>5. Fixed(q, N) <= Len(path) /\ (Len(path) <= N \/ (Open(q) /\ q[N][1] = "wild"))
      BY <2>2, <2>4, <3>3
    <3> QED
      BY <3>2, <3>4, <3>5, LanguageIs DEF N
  <2> QED
    BY <2>6
<1>13. \E i \in Nat \ {0} : Weight(q, i) # Weight(p, i) /\ Agree(i)
  <2> DEFINE S == {i \in Nat \ {0} : Weight(q, i) # Weight(p, i)}
  <2>1. PICK i \in S : \A k \in S : i <= k
    <3>1. S \in SUBSET Nat /\ S # {}
      BY <1>12
    <3> HIDE DEF S
    <3> QED
      BY <3>1, LeastNumber
  <2>2. Agree(i)
    <3>1. SUFFICES ASSUME NEW k \in 1..i - 1, k \in S PROVE FALSE
      OBVIOUS
    <3> QED
      BY <2>1, <3>1
  <2> QED
    BY <2>1, <2>2
<1>14. PICK i \in Nat \ {0} : Weight(q, i) # Weight(p, i) /\ Agree(i)
  BY <1>13
<1>15. Weight(q, i) \in 0..4 /\ Weight(p, i) \in 0..4
  BY WeightIsNumber
<1>16. Weight(q, i) > Weight(p, i)
  BY <1>11, <1>14, <1>15
<1>17. Lower(q, p, i)
  BY <1>14, <1>16 DEF Lower
<1> QED
  BY <1>17, BeforeIsLexicographic


LEMMA SpecificFirst ==
  ASSUME RoutingInv
  PROVE  MostSpecificWins
<1>1. SUFFICES ASSUME NEW path \in RequestPaths, NEW v,
                      NEW i \in DOMAIN Select(path, v), NEW k \in DOMAIN Select(path, v), i < k,
                      NEW p, p = Select(path, v)[i].pattern, NEW q, q = Select(path, v)[k].pattern,
                      Language(q) \subseteq Language(p), Language(q) # Language(p)
               PROVE  FALSE
  BY DEF MostSpecificWins
<1> DEFINE kept == Select(path, v)
           T == Tagged(path, Answering(path, v))
<1>2. kept = Picked(routes, T)
  BY SelectPicks
<1>3. kept \in Seq(Entries) /\ Sorted(kept)
  BY <1>2, TaggedList
<1>4. routes \in Seq(Entries) /\ T \in SUBSET DOMAIN routes /\ \A r \in DOMAIN routes : Parses(routes[r].pattern)
  BY DEF RoutingInv, Tagged
<1> HIDE DEF T
<1>5. \A x \in DOMAIN kept : \E r \in DOMAIN routes : kept[x] = routes[r]
  <2> DEFINE u == Ascending(T)
             c == Cardinality(T)
  <2>1. Len(kept) = c /\ u \in [1..c -> T] /\ \A x \in 1..c : kept[x] = routes[u[x]]
    BY <1>2, <1>4, PickedElements
  <2>2. DOMAIN kept = 1..c
    BY <1>3, <2>1
  <2> HIDE DEF kept, u, c
  <2> QED
    BY <1>4, <2>1, <2>2
<1>6. ~Before(q, p)
  BY <1>1, <1>3 DEF Sorted
<1> HIDE DEF kept
<1>7. ASSUME NEW x \in DOMAIN kept
      PROVE  LET e == kept[x].pattern
             IN  /\ e \in Seq(Segments) /\ Parses(e) /\ Len(e) <= MaxPath
                 /\ Open(e) /\ e[Len(e)][1] = "opt" => Len(e) < MaxPath
  <2> DEFINE e == kept[x].pattern
  <2>1. kept[x] \in Entries
    BY <1>3
  <2>2. PICK d \in Routes : kept[x] = Entry(d)
    BY <2>1 DEF Entries
  <2>3. e = Entry(d).pattern
    BY <2>2
  <2>4. Len(e) <= MaxPath /\ (e # <<>> /\ e[Len(e)][1] = "opt" => Len(e) < MaxPath)
    BY <2>3, EnoughPaths
  <2>5. e \in Seq(Segments) /\ Parses(e)
    BY <1>4, <1>5, <2>1, EntryTyped
  <2> HIDE DEF e
  <2> QED
    BY <2>4, <2>5 DEF Open, e
<1>8. /\ p \in Seq(Segments) /\ Parses(p) /\ (Open(p) /\ p[Len(p)][1] = "opt" => Len(p) < MaxPath)
      /\ q \in Seq(Segments) /\ Parses(q) /\ Len(q) <= MaxPath
  BY <1>1, <1>7 DEF kept
<1>9. Before(q, p)
  BY <1>1, <1>8, MoreSpecific
<1> QED
  BY <1>6, <1>9

\* The route that answers a path is the most specific of those that could, whatever the order they were
\* registered in; the index finds it, and its captures are those of the path (register_versioned and
\* captures of the routing library).
THEOREM RoutingIsRight == RoutingSpec => []RightRoute
<1>1. RoutingInv => RightRoute
  <2>1. RoutingInv => IndexComplete
    BY CandidatesComplete DEF IndexComplete
  <2> QED
    BY <2>1, RoutingTyped, SpecificFirst, CapturesRight DEF RightRoute
<1>2. RoutingSpec => []RoutingInv
  BY RoutingInitial, RoutingStep, PTL DEF RoutingSpec
<1> QED
  BY <1>1, <1>2, PTL

-----------------------------------------------------------------------------
(* Replies: sequences of sequences. *)

Signs == STRING \cup {"CR", "LF", "space", "event:", "id:", "data:", ":"}
Text == Seq(Signs)

\* f is what the values are before each turn of a loop.
IsLoop(f, N, Turn) == \A n \in 1..N : f[n] = Turn[n][f[n - 1]]

\* Two runs of one loop agree.
LEMMA LoopAgrees ==
  ASSUME NEW N \in Nat, NEW Turn, NEW f, NEW g, f[0] = g[0], IsLoop(f, N, Turn), IsLoop(g, N, Turn)
  PROVE  f[N] = g[N]
<1> DEFINE S == {n \in Nat : n <= N => f[n] = g[n]}
<1>1. 0 \in S
  OBVIOUS
<1>2. ASSUME NEW n \in S PROVE n + 1 \in S
  <2>1. n \in Nat /\ n + 1 \in Nat /\ (n + 1) - 1 = n
    OBVIOUS
  <2>2. n + 1 <= N => n + 1 \in 1..N /\ n <= N
    BY <2>1
  <2> QED
    BY <2>1, <2>2 DEF IsLoop
<1> HIDE DEF S
<1>3. S \subseteq Nat
  BY DEF S
<1>4. S = Nat
  BY <1>1, <1>2, <1>3, EveryNumber
<1> QED
  BY <1>4 DEF S

\* A sequence is one shorter with its last element put behind.
LEMMA LastApart ==
  ASSUME NEW S, NEW s \in Seq(S), NEW n \in Nat, n + 1 <= Len(s)
  PROVE  /\ SubSeq(s, 1, n) \in Seq(S) /\ Len(SubSeq(s, 1, n)) = n
         /\ SubSeq(s, 1, n + 1) = Append(SubSeq(s, 1, n), s[n + 1])
         /\ s[n + 1] \in S
<1>1. n + 1 \in 1..Len(s) /\ 1 \in 1..Len(s) /\ n + 1 \in 1..Len(s) /\ (n + 1) - 1 = n
  OBVIOUS
<1>2. \A i \in 1..n : s[i] \in S
  BY <1>1
<1>3. SubSeq(s, 1, n) \in Seq(S) /\ Len(SubSeq(s, 1, n)) = n
  BY <1>2, SubSeqProperties
<1>4. s[n + 1] \in S
  BY <1>1
<1>5. SubSeq(s, 1, n + 1) = SubSeq(s, 1, (n + 1) - 1) \o <<s[n + 1]>>
  BY <1>1, SubSeqRecursiveSecond
<1> QED
  BY <1>1, <1>3, <1>4, <1>5, AppendIsConcat

LEMMA ConcatLastApart ==
  ASSUME NEW S, NEW a \in Seq(S), NEW b \in Seq(S), NEW c \in S
  PROVE  a \o Append(b, c) = Append(a \o b, c)
<1>1. <<c>> \in Seq(S) /\ a \o b \in Seq(S)
  BY ConcatProperties
<1>2. Append(b, c) = b \o <<c>> /\ Append(a \o b, c) = (a \o b) \o <<c>>
  BY <1>1, AppendIsConcat
<1> QED
  BY <1>1, <1>2, ConcatAssociative

LEMMA FlattenNone == FlattenSeq(<<>>) = <<>>
BY DEF FlattenSeq

LEMMA FlattenIs ==
  ASSUME NEW S, NEW seqs \in Seq(Seq(S)), seqs # <<>>
  PROVE  \E f \in [0..Len(seqs) -> Seq(S)] :
            /\ f[0] = <<>> /\ FlattenSeq(seqs) = f[Len(seqs)]
            /\ \A n \in 1..Len(seqs) : f[n] = f[n - 1] \o seqs[n]
<1> DEFINE N == Len(seqs)
           D == Seq(S)
           Turn == [n \in 1..N |-> [t \in D |-> t \o seqs[n]]]
           IsFlatten(f) == f = [i \in 1..N |-> IF i = 1 THEN seqs[i] ELSE f[i - 1] \o seqs[i]]
<1>1. N \in Nat /\ N # 0 /\ <<>> \in D /\ \A n \in 1..N : seqs[n] \in D
  OBVIOUS
<1>2. Turn \in [1..N -> [D -> D]]
  BY <1>1, ConcatProperties
<1>3. LoopRuns(D, <<>>, N, Turn)
  BY <1>1, <1>2, LoopExists
<1>4. PICK g \in [0..N -> D] : g[0] = <<>> /\ \A n \in 1..N : g[n] = Turn[n][g[n - 1]]
  BY <1>3 DEF LoopRuns
<1>5. \A n \in 1..N : g[n] = g[n - 1] \o seqs[n] /\ g[n - 1] \in D
  <2>1. ASSUME NEW n \in 1..N PROVE g[n] = g[n - 1] \o seqs[n] /\ g[n - 1] \in D
    <3>1. n - 1 \in 0..N
      BY <1>1
    <3>2. g[n - 1] \in D /\ g[n] = Turn[n][g[n - 1]]
      BY <1>4, <3>1
    <3> QED
      BY <3>2
  <2> QED
    BY <2>1
<1>6. g[1] = seqs[1]
  <2>1. 1 \in 1..N /\ 1 - 1 = 0
    BY <1>1
  <2>2. g[1] = g[0] \o seqs[1] /\ seqs[1] \in D
    BY <1>1, <1>5, <2>1
  <2> QED
    BY <1>4, <2>2, ConcatEmptySeq
<1>7. IsFlatten([i \in 1..N |-> g[i]])
  <2> DEFINE h == [i \in 1..N |-> g[i]]
  <2>1. ASSUME NEW i \in 1..N PROVE h[i] = IF i = 1 THEN seqs[i] ELSE h[i - 1] \o seqs[i]
    <3>1. i # 1 => i - 1 \in 1..N
      BY <1>1
    <3> QED
      BY <1>5, <1>6, <3>1
  <2> QED
    BY <2>1
<1>8. FlattenSeq(seqs) = (CHOOSE f : IsFlatten(f))[N]
  BY <1>1 DEF FlattenSeq
<1>9. PICK f : f = (CHOOSE h : IsFlatten(h)) /\ IsFlatten(f)
  BY <1>7
<1>10. \A i \in 1..N : f[i] = IF i = 1 THEN seqs[i] ELSE f[i - 1] \o seqs[i]
  BY <1>9
<1>11. \A n \in 1..N : f[n] = g[n]
  <2> DEFINE T == {n \in Nat : n + 1 <= N => f[n + 1] = g[n + 1]}
  <2>1. 0 \in T
    BY <1>1, <1>6, <1>10
  <2>2. ASSUME NEW n \in T PROVE n + 1 \in T
    <3>1. n \in Nat /\ n + 1 \in Nat /\ (n + 2) - 1 = n + 1 /\ (n + 1) + 1 = n + 2 /\ n + 2 # 1
      OBVIOUS
    <3>2. n + 2 <= N => n + 2 \in 1..N /\ n + 1 <= N
      BY <3>1
    <3>3. n + 2 <= N => f[n + 2] = g[n + 2]
      <4> SUFFICES ASSUME n + 2 <= N PROVE f[n + 2] = g[n + 2]
        OBVIOUS
      <4>1. f[n + 2] = f[n + 1] \o seqs[n + 2] /\ g[n + 2] = g[n + 1] \o seqs[n + 2]
        BY <1>5, <1>10, <3>1, <3>2
      <4>2. f[n + 1] = g[n + 1]
        BY <3>2
      <4> QED
        BY <4>1, <4>2
    <3> QED
      BY <3>1, <3>3
  <2>3. T = Nat
    <3> HIDE DEF T
    <3>1. T \subseteq Nat
      BY DEF T
    <3> QED
      BY <2>1, <2>2, <3>1, EveryNumber
  <2>4. ASSUME NEW n \in 1..N PROVE f[n] = g[n]
    <3>1. n - 1 \in Nat /\ (n - 1) + 1 = n /\ n <= N
      BY <1>1
    <3> QED
      BY <2>3, <3>1
  <2> QED
    BY <2>4
<1>12. FlattenSeq(seqs) = g[N]
  <2>1. N \in 1..N
    BY <1>1
  <2> QED
    BY <1>8, <1>9, <1>11, <2>1
<1> QED
  BY <1>4, <1>5, <1>12

LEMMA FlattenOneMore ==
  ASSUME NEW S, NEW seqs \in Seq(Seq(S)), NEW x \in Seq(S)
  PROVE  /\ FlattenSeq(seqs) \in Seq(S)
         /\ FlattenSeq(Append(seqs, x)) = FlattenSeq(seqs) \o x
<1> DEFINE more == Append(seqs, x)
           N == Len(seqs)
<1>1. /\ more \in Seq(Seq(S)) /\ more # <<>> /\ Len(more) = N + 1 /\ N \in Nat
      /\ \A n \in 1..N : more[n] = seqs[n]
      /\ more[N + 1] = x
  BY AppendProperties
<1> HIDE DEF more
<1>2. PICK f \in [0..N + 1 -> Seq(S)] :
        /\ f[0] = <<>> /\ FlattenSeq(more) = f[N + 1]
        /\ \A n \in 1..N + 1 : f[n] = f[n - 1] \o more[n]
  <2>1. \E f \in [0..Len(more) -> Seq(S)] :
            /\ f[0] = <<>> /\ FlattenSeq(more) = f[Len(more)]
            /\ \A n \in 1..Len(more) : f[n] = f[n - 1] \o more[n]
    BY <1>1, FlattenIs
  <2> QED
    BY <1>1, <2>1
<1>3. f[N] = FlattenSeq(seqs) /\ f[N] \in Seq(S)
  <2>1. N \in 0..N + 1
    BY <1>1
  <2>2. CASE seqs = <<>>
    BY <1>2, <2>1, <2>2, FlattenNone
  <2>3. CASE seqs # <<>>
    <3>1. PICK g \in [0..N -> Seq(S)] :
            /\ g[0] = <<>> /\ FlattenSeq(seqs) = g[N]
            /\ \A n \in 1..N : g[n] = g[n - 1] \o seqs[n]
      BY <2>3, FlattenIs
    <3> DEFINE Turn == [n \in 1..N |-> [t \in Seq(S) |-> t \o seqs[n]]]
    <3>2. \A n \in 1..N : f[n] = Turn[n][f[n - 1]] /\ g[n] = Turn[n][g[n - 1]]
      <4>1. ASSUME NEW n \in 1..N PROVE f[n] = Turn[n][f[n - 1]] /\ g[n] = Turn[n][g[n - 1]]
        <5>1. n - 1 \in 0..N /\ n - 1 \in 0..N + 1 /\ n \in 1..N + 1
          BY <1>1
        <5>2. f[n - 1] \in Seq(S) /\ g[n - 1] \in Seq(S)
          BY <1>2, <3>1, <5>1
        <5>3. more[n] = seqs[n]
          BY <1>1
        <5> QED
          BY <1>2, <3>1, <5>1, <5>2, <5>3
      <4> QED
        BY <4>1
    <3> HIDE DEF Turn
    <3>3. f[N] = g[N]
      <4>1. f[0] = g[0] /\ N \in Nat
        BY <1>1, <1>2, <3>1
      <4>2. IsLoop(f, N, Turn) /\ IsLoop(g, N, Turn)
        BY <3>2 DEF IsLoop
      <4> QED
        BY <4>1, <4>2, LoopAgrees
    <3> QED
      BY <1>2, <2>1, <3>1, <3>3
  <2> QED
    BY <2>2, <2>3
<1>4. FlattenSeq(more) = f[N] \o x
  <2>1. N + 1 \in 1..N + 1 /\ (N + 1) - 1 = N
    BY <1>1
  <2> QED
    BY <1>1, <1>2, <2>1
<1> QED
  BY <1>3, <1>4 DEF more

\* f starts a loop whose turns are on D.
StartsLoop(f, D, start, N, Turn) ==
  f[0] = start /\ \A n \in 1..N : f[n - 1] \in D => f[n] = Turn[n][f[n - 1]]

\* g runs the same loop for one turn more.
GoesOn(D, start, N, Turn, f, g) ==
  /\ start \in D /\ N \in Nat /\ Turn \in [1..N + 1 -> [D -> D]]
  /\ StartsLoop(f, D, start, N, Turn) /\ StartsLoop(g, D, start, N + 1, Turn)

LEMMA LoopOneMore ==
  ASSUME NEW D, NEW start, NEW N, NEW Turn, NEW f, NEW g, GoesOn(D, start, N, Turn, f, g)
  PROVE  f[N] \in D /\ g[N + 1] = Turn[N + 1][f[N]]
<1>0. /\ start \in D /\ N \in Nat /\ Turn \in [1..N + 1 -> [D -> D]]
      /\ StartsLoop(f, D, start, N, Turn) /\ StartsLoop(g, D, start, N + 1, Turn)
  BY DEF GoesOn
<1> DEFINE S == {n \in Nat : n <= N => f[n] \in D /\ g[n] = f[n]}
<1>1. 0 \in S
  BY <1>0 DEF StartsLoop
<1>2. ASSUME NEW n \in S PROVE n + 1 \in S
  <2>1. n \in Nat /\ n + 1 \in Nat /\ (n + 1) - 1 = n
    OBVIOUS
  <2> SUFFICES ASSUME n + 1 <= N PROVE f[n + 1] \in D /\ g[n + 1] = f[n + 1]
    BY <2>1
  <2>2. n + 1 \in 1..N /\ n + 1 \in 1..N + 1 /\ f[n] \in D /\ g[n] = f[n]
    BY <1>0, <2>1
  <2>3. f[n + 1] = Turn[n + 1][f[n]] /\ g[n + 1] = Turn[n + 1][g[n]]
    BY <1>0, <2>1, <2>2 DEF StartsLoop
  <2> QED
    BY <1>0, <2>2, <2>3
<1>3. S = Nat
  <2> HIDE DEF S
  <2>1. S \subseteq Nat
    BY DEF S
  <2> QED
    BY <1>1, <1>2, <2>1, EveryNumber
<1>4. f[N] \in D /\ g[N] = f[N]
  BY <1>0, <1>3
<1>5. N + 1 \in 1..N + 1 /\ (N + 1) - 1 = N
  BY <1>0
<1> QED
  BY <1>0, <1>4, <1>5 DEF StartsLoop

-----------------------------------------------------------------------------
(* Replies: the reader of an event stream. *)

Deliveries == [id : Text, event : Text, data : Seq(Text)]
Readings == [id : Text, event : Text, data : Seq(Text), delivered : Seq(Deliveries)]
Readers == [reading : Readings, line : Text, cr : BOOLEAN]

LEMMA LineRead ==
  ASSUME NEW r \in Readings, NEW line \in Text
  PROVE  ReadLine(r, line) \in Readings
<1>1. CASE line = <<>>
  <2> DEFINE d == [id |-> r.id, event |-> r.event, data |-> r.data]
  <2>1. d \in Deliveries
    BY DEF Readings, Deliveries
  <2>2. Append(r.delivered, d) \in Seq(Deliveries)
    BY <2>1, AppendProperties DEF Readings
  <2> HIDE DEF d
  <2>3. ReadLine(r, line) = [id |-> r.id, event |-> <<>>, data |-> <<>>,
                             delivered |-> IF r.data = <<>> THEN r.delivered ELSE Append(r.delivered, d)]
    BY <1>1 DEF ReadLine, d
  <2> QED
    BY <2>2, <2>3 DEF Readings, Text
<1>2. CASE line # <<>>
  <2>1. Tail(line) \in Text
    BY <1>2, HeadTailProperties DEF Text
  <2>2. Append(r.data, Tail(line)) \in Seq(Text)
    BY <2>1, AppendProperties DEF Readings
  <2>3. ReadLine(r, line) \in {[r EXCEPT !.id = Tail(line)], [r EXCEPT !.event = Tail(line)],
                               [r EXCEPT !.data = Append(r.data, Tail(line))], r}
    BY <1>2 DEF ReadLine, Readings
  <2> QED
    BY <2>1, <2>2, <2>3 DEF Readings
<1> QED
  BY <1>1, <1>2

LEMMA CharRead ==
  ASSUME NEW s \in Readers, NEW c \in Signs
  PROVE  ReadChar(s, c) \in Readers
<1>1. /\ s.reading \in Readings /\ s.line \in Text /\ ReadLine(s.reading, s.line) \in Readings
      /\ Append(s.line, c) \in Text /\ <<>> \in Text
  <2>1. s.reading \in Readings /\ s.line \in Text
    BY DEF Readers
  <2> QED
    BY <2>1, LineRead, AppendProperties DEF Text
<1> HIDE DEF Text, Readings
<1> QED
  BY <1>1 DEF ReadChar, Readers

LEMMA ReadIs ==
  ASSUME NEW s \in Readers, NEW text \in Text
  PROVE  \E f : /\ f[0] = s /\ ReadAll(s, text) = f[Len(text)]
                /\ \A n \in 1..Len(text) : f[n] = ReadChar(f[n - 1], text[n])
<1> DEFINE N == Len(text)
           Turn == [n \in 1..N |-> [x \in Readers |-> ReadChar(x, text[n])]]
           Is(f) == f = [n \in 0..N |-> IF n = 0 THEN s ELSE ReadChar(f[n - 1], text[n])]
<1>1. N \in Nat /\ \A n \in 1..N : text[n] \in Signs
  BY DEF Text
<1>2. Turn \in [1..N -> [Readers -> Readers]]
  BY <1>1, CharRead
<1>3. LoopRuns(Readers, s, N, Turn)
  BY <1>1, <1>2, LoopExists
<1>4. PICK g \in [0..N -> Readers] : g[0] = s /\ \A n \in 1..N : g[n] = Turn[n][g[n - 1]]
  BY <1>3 DEF LoopRuns
<1>5. ASSUME NEW n \in 1..N PROVE g[n] = ReadChar(g[n - 1], text[n])
  <2>1. n - 1 \in 0..N
    BY <1>1
  <2> QED
    BY <1>4, <2>1
<1>6. Is(g)
  BY <1>4, <1>5
<1>7. PICK f : f = (CHOOSE h : Is(h)) /\ Is(f)
  BY <1>6
<1>8. ReadAll(s, text) = f[N]
  BY <1>7 DEF ReadAll
<1>9. f[0] = s /\ \A n \in 1..N : f[n] = ReadChar(f[n - 1], text[n])
  <2>1. ASSUME NEW n \in 1..N PROVE f[n] = ReadChar(f[n - 1], text[n])
    <3>1. n \in 0..N /\ n # 0
      BY <1>1
    <3> QED
      BY <1>7, <3>1
  <2>2. 0 \in 0..N
    BY <1>1
  <2> QED
    BY <1>7, <2>1, <2>2
<1> QED
  BY <1>8, <1>9

LEMMA ReadNone == ASSUME NEW s \in Readers PROVE ReadAll(s, <<>>) = s
<1>1. <<>> \in Text /\ Len(<<>>) = 0
  BY DEF Text
<1> QED
  BY <1>1, ReadIs

LEMMA ReadOneMore ==
  ASSUME NEW s \in Readers, NEW text \in Text, NEW c \in Signs
  PROVE  ReadAll(s, text) \in Readers /\ ReadAll(s, Append(text, c)) = ReadChar(ReadAll(s, text), c)
<1> DEFINE more == Append(text, c)
           N == Len(text)
<1>1. /\ more \in Text /\ Len(more) = N + 1 /\ N \in Nat
      /\ \A n \in 1..N : more[n] = text[n]
      /\ more[N + 1] = c
  <2>1. text \in Seq(Signs) /\ c \in Signs
    BY DEF Text
  <2> QED
    BY <2>1, AppendProperties DEF Text
<1> HIDE DEF more
<1> DEFINE Turn == [n \in 1..N + 1 |-> [x \in Readers |-> ReadChar(x, more[n])]]
<1>2. PICK f : /\ f[0] = s /\ ReadAll(s, text) = f[Len(text)]
               /\ \A n \in 1..Len(text) : f[n] = ReadChar(f[n - 1], text[n])
  BY ReadIs
<1>3. PICK g : /\ g[0] = s /\ ReadAll(s, more) = g[Len(more)]
               /\ \A n \in 1..Len(more) : g[n] = ReadChar(g[n - 1], more[n])
  BY <1>1, ReadIs
<1>4. \A n \in 1..N + 1 : more[n] \in Signs
  BY <1>1 DEF Text
<1>5. Turn \in [1..N + 1 -> [Readers -> Readers]]
  BY <1>4, CharRead
<1>6. StartsLoop(f, Readers, s, N, Turn)
  BY <1>1, <1>2 DEF StartsLoop
<1>7. StartsLoop(g, Readers, s, N + 1, Turn)
  BY <1>1, <1>3 DEF StartsLoop
<1>8. f[N] \in Readers /\ g[N + 1] = Turn[N + 1][f[N]]
  <2>1. GoesOn(Readers, s, N, Turn, f, g)
    BY <1>1, <1>5, <1>6, <1>7 DEF GoesOn
  <2> QED
    BY <2>1, LoopOneMore
<1>9. N + 1 \in 1..N + 1
  BY <1>1
<1> QED
  BY <1>1, <1>2, <1>3, <1>8, <1>9 DEF more

\* One text after another.
LEMMA ReadBoth ==
  ASSUME NEW s \in Readers, NEW a \in Text, NEW b \in Text
  PROVE  ReadAll(s, a \o b) = ReadAll(ReadAll(s, a), b) /\ a \o b \in Text
<1> DEFINE S == {n \in Nat : n <= Len(b) =>
                   ReadAll(s, a \o SubSeq(b, 1, n)) = ReadAll(ReadAll(s, a), SubSeq(b, 1, n))}
<1>0. Len(b) \in Nat /\ <<>> \in Text /\ ReadAll(s, a) \in Readers /\ a \o b \in Text
  <2>1. "LF" \in Signs
    BY DEF Signs
  <2>2. Len(b) \in Nat /\ <<>> \in Text /\ a \o b \in Text
    BY ConcatProperties DEF Text
  <2> QED
    BY <2>1, <2>2, ReadOneMore
<1>1. 0 \in S
  <2>1. SubSeq(b, 1, 0) = <<>> /\ a \o <<>> = a
    BY SubSeqEmpty, ConcatEmptySeq DEF Text
  <2> QED
    BY <1>0, <2>1, ReadNone
<1>2. ASSUME NEW n \in S PROVE n + 1 \in S
  <2> SUFFICES ASSUME n + 1 <= Len(b)
               PROVE  ReadAll(s, a \o SubSeq(b, 1, n + 1)) = ReadAll(ReadAll(s, a), SubSeq(b, 1, n + 1))
    OBVIOUS
  <2> DEFINE t == SubSeq(b, 1, n)
             c == b[n + 1]
  <2>1. n \in Nat /\ n <= Len(b)
    BY <1>0
  <2>2. t \in Text /\ SubSeq(b, 1, n + 1) = Append(t, c) /\ c \in Signs
    BY <2>1, LastApart DEF Text
  <2>3. ReadAll(s, a \o t) = ReadAll(ReadAll(s, a), t)
    BY <2>1
  <2> HIDE DEF t, c
  <2>4. a \o Append(t, c) = Append(a \o t, c) /\ a \o t \in Text
    BY <2>2, ConcatLastApart, ConcatProperties DEF Text
  <2>5. ReadAll(s, Append(a \o t, c)) = ReadChar(ReadAll(s, a \o t), c)
    BY <2>2, <2>4, ReadOneMore
  <2>6. ReadAll(ReadAll(s, a), Append(t, c)) = ReadChar(ReadAll(ReadAll(s, a), t), c)
    BY <1>0, <2>2, ReadOneMore
  <2> QED
    BY <2>2, <2>3, <2>4, <2>5, <2>6
<1>3. S = Nat
  <2> HIDE DEF S
  <2>1. S \subseteq Nat
    BY DEF S
  <2> QED
    BY <1>1, <1>2, <2>1, EveryNumber
<1>4. SubSeq(b, 1, Len(b)) = b
  BY SubSeqFull DEF Text
<1>5. \A n \in Nat : n <= Len(b) =>
        ReadAll(s, a \o SubSeq(b, 1, n)) = ReadAll(ReadAll(s, a), SubSeq(b, 1, n))
  BY <1>3
<1>6. ReadAll(s, a \o SubSeq(b, 1, Len(b))) = ReadAll(ReadAll(s, a), SubSeq(b, 1, Len(b)))
  BY <1>0, <1>5
<1> QED
  BY <1>0, <1>4, <1>6

NoEnd(text) == \A i \in DOMAIN text : text[i] \notin {"CR", "LF"}

Longer(s, text) == [s EXCEPT !.line = s.line \o text]

\* Characters that end no line are added to it.
LEMMA PlainRead ==
  ASSUME NEW s \in Readers, ~s.cr, NEW text \in Text, NoEnd(text)
  PROVE  ReadAll(s, text) = Longer(s, text)
<1> DEFINE S == {n \in Nat : n <= Len(text) =>
                   ReadAll(s, SubSeq(text, 1, n)) = Longer(s, SubSeq(text, 1, n))}
<1>0. Len(text) \in Nat /\ <<>> \in Text /\ s.line \in Text /\ DOMAIN s = {"reading", "line", "cr"} /\ s.cr = FALSE
  BY DEF Text, Readers
<1>1. 0 \in S
  <2>1. SubSeq(text, 1, 0) = <<>> /\ s.line \o <<>> = s.line
    BY <1>0, SubSeqEmpty, ConcatEmptySeq DEF Text
  <2>2. [s EXCEPT !.line = s.line] = s
    BY DEF Readers
  <2> QED
    BY <1>0, <2>1, <2>2, ReadNone DEF Longer
<1>2. ASSUME NEW n \in S PROVE n + 1 \in S
  <2> SUFFICES ASSUME n + 1 <= Len(text)
               PROVE  ReadAll(s, SubSeq(text, 1, n + 1)) = Longer(s, SubSeq(text, 1, n + 1))
    OBVIOUS
  <2> DEFINE t == SubSeq(text, 1, n)
             c == text[n + 1]
  <2>1. n \in Nat /\ n <= Len(text) /\ n + 1 \in DOMAIN text
    BY <1>0 DEF Text
  <2>2. t \in Text /\ SubSeq(text, 1, n + 1) = Append(t, c) /\ c \in Signs
    BY <2>1, LastApart DEF Text
  <2>3. ReadAll(s, t) = Longer(s, t) /\ c # "CR" /\ c # "LF"
    BY <2>1 DEF NoEnd
  <2> HIDE DEF t, c
  <2>4. ReadAll(s, Append(t, c)) = ReadChar(ReadAll(s, t), c)
    BY <2>2, ReadOneMore
  <2>5. s.line \o Append(t, c) = Append(s.line \o t, c)
    <3>1. s.line \in Seq(Signs) /\ t \in Seq(Signs) /\ c \in Signs
      BY <1>0, <2>2 DEF Text
    <3> DEFINE l == s.line
    <3>2. l \in Seq(Signs)
      BY <3>1
    <3> HIDE DEF l
    <3>3. l \o Append(t, c) = Append(l \o t, c)
      BY <3>1, <3>2, ConcatLastApart
    <3> QED
      BY <3>3 DEF l
  <2>6. ReadChar(Longer(s, t), c) = [s EXCEPT !.line = Append(s.line \o t, c)]
    BY <1>0, <2>3 DEF ReadChar, Longer
  <2> QED
    BY <2>2, <2>3, <2>4, <2>5, <2>6 DEF Longer
<1>3. S = Nat
  <2> HIDE DEF S
  <2>1. S \subseteq Nat
    BY DEF S
  <2> QED
    BY <1>1, <1>2, <2>1, EveryNumber
<1>4. SubSeq(text, 1, Len(text)) = text
  BY SubSeqFull DEF Text
<1>5. \A n \in Nat : n <= Len(text) =>
        ReadAll(s, SubSeq(text, 1, n)) = Longer(s, SubSeq(text, 1, n))
  BY <1>3
<1>6. ReadAll(s, SubSeq(text, 1, Len(text))) = Longer(s, SubSeq(text, 1, Len(text)))
  BY <1>0, <1>5
<1> QED
  BY <1>0, <1>4, <1>6

LEMMA BetweenReads == ASSUME NEW r \in Readings PROVE Between(r) \in Readers
BY DEF Between, Readers, Text

\* A field is read as the line it is.
LEMMA FieldRead ==
  ASSUME NEW r \in Readings, NEW name \in Signs, name \notin {"CR", "LF"},
         NEW line \in Text, NoEnd(line)
  PROVE  /\ Field(name, line) \in Text
         /\ <<name>> \o line \in Text
         /\ ReadAll(Between(r), Field(name, line)) = Between(ReadLine(r, <<name>> \o line))
<1> DEFINE all == <<name>> \o line
<1>1. <<name>> \in Text /\ all \in Text /\ "LF" \in Signs
  <2>1. "LF" \in Signs
    BY DEF Signs
  <2> QED
    BY <2>1, ConcatProperties DEF Text
<1>2. NoEnd(all)
  <2>1. Len(<<name>>) = 1 /\ <<name>>[1] = name /\ Len(line) \in Nat /\ DOMAIN line = 1..Len(line)
    BY DEF Text
  <2>2. /\ Len(all) = 1 + Len(line)
        /\ \A i \in 1..1 + Len(line) : all[i] = IF i <= 1 THEN <<name>>[i] ELSE line[i - 1]
    BY <1>1, <2>1, ConcatProperties DEF Text
  <2>3. DOMAIN all = 1..1 + Len(line)
    BY <1>1, <2>1, <2>2 DEF Text
  <2> HIDE DEF all
  <2>4. ASSUME NEW i \in DOMAIN all PROVE all[i] \notin {"CR", "LF"}
    <3>1. CASE i = 1
      BY <2>1, <2>2, <2>3, <3>1
    <3>2. CASE i # 1
      <4>1. i - 1 \in DOMAIN line /\ ~(i <= 1) /\ i \in 1..1 + Len(line)
        BY <2>1, <2>3, <3>2
      <4> QED
        BY <2>2, <4>1 DEF NoEnd
    <3> QED
      BY <3>1, <3>2
  <2> QED
    BY <2>4 DEF NoEnd
<1>3. Field(name, line) = Append(all, "LF")
  <2>1. Append(all, "LF") = all \o <<"LF">>
    BY <1>1, AppendIsConcat DEF Text
  <2> QED
    BY <2>1 DEF Field
<1> HIDE DEF all
<1>4. ReadAll(Between(r), Append(all, "LF")) = ReadChar(ReadAll(Between(r), all), "LF")
  BY <1>1, BetweenReads, ReadOneMore
<1>5. ReadAll(Between(r), all) = [Between(r) EXCEPT !.line = all]
  <2>1. ReadAll(Between(r), all) = [Between(r) EXCEPT !.line = Between(r).line \o all]
    BY <1>1, <1>2, BetweenReads, PlainRead DEF Between, Longer
  <2>2. Between(r).line \o all = all
    BY <1>1, ConcatEmptySeq DEF Between, Text
  <2> QED
    BY <2>1, <2>2
<1>6. ReadChar([Between(r) EXCEPT !.line = all], "LF") = Between(ReadLine(r, all))
  BY DEF ReadChar, Between
<1>7. Append(all, "LF") \in Text
  BY <1>1, AppendProperties DEF Text
<1> QED
  BY <1>1, <1>3, <1>4, <1>5, <1>6, <1>7 DEF all

-----------------------------------------------------------------------------
(* Replies: the lines of a text. *)

SplitTurn(lines, c) ==
  IF c = "LF" THEN Append(lines, <<>>) ELSE [lines EXCEPT ![Len(lines)] = Append(lines[Len(lines)], c)]

SomeLines == Seq(Text) \ {<<>>}

LEMMA SplitTurnIs ==
  ASSUME NEW lines \in SomeLines, NEW c \in Signs
  PROVE  /\ SplitTurn(lines, c) \in SomeLines
         /\ c = "LF" => /\ Len(SplitTurn(lines, c)) = Len(lines) + 1
                        /\ \A i \in 1..Len(lines) : SplitTurn(lines, c)[i] = lines[i]
                        /\ SplitTurn(lines, c)[Len(lines) + 1] = <<>>
         /\ c # "LF" => /\ Len(SplitTurn(lines, c)) = Len(lines)
                        /\ \A i \in 1..Len(lines) : i # Len(lines) => SplitTurn(lines, c)[i] = lines[i]
                        /\ SplitTurn(lines, c)[Len(lines)] = Append(lines[Len(lines)], c)
<1>1. lines \in Seq(Text) /\ Len(lines) \in Nat /\ Len(lines) # 0 /\ <<>> \in Text /\ DOMAIN lines = 1..Len(lines)
  BY DEF SomeLines, Text
<1>2. CASE c = "LF"
  <2>1. SplitTurn(lines, c) = Append(lines, <<>>)
    BY <1>2 DEF SplitTurn
  <2> QED
    BY <1>1, <1>2, <2>1, AppendProperties DEF SomeLines
<1>3. CASE c # "LF"
  <2> DEFINE l == lines[Len(lines)]
             more == Append(l, c)
             now == [lines EXCEPT ![Len(lines)] = more]
  <2>1. Len(lines) \in 1..Len(lines)
    BY <1>1
  <2>2. l \in Text
    BY <1>1, <2>1
  <2>3. more \in Text
    BY <2>2, AppendProperties DEF Text
  <2> HIDE DEF more
  <2>4. now \in Seq(Text) /\ Len(now) = Len(lines)
    BY <1>1, <2>3, ExceptSeq
  <2>5. now[Len(lines)] = more /\ \A i \in 1..Len(lines) : i # Len(lines) => now[i] = lines[i]
    BY <1>1, <2>1
  <2>6. now # <<>>
    BY <1>1, <2>4
  <2>7. SplitTurn(lines, c) = now
    BY <1>3 DEF SplitTurn, more
  <2> QED
    BY <1>3, <2>4, <2>5, <2>6, <2>7 DEF SomeLines, more
<1> QED
  BY <1>2, <1>3

LEMMA SplitIs ==
  ASSUME NEW text \in Text
  PROVE  \E f : /\ f[0] = <<<<>>>> /\ SplitAtLf(text) = f[Len(text)]
                /\ \A n \in 1..Len(text) : f[n] = SplitTurn(f[n - 1], text[n])
<1> DEFINE N == Len(text)
           start == <<<<>>>>
           Turn == [n \in 1..N |-> [x \in SomeLines |-> SplitTurn(x, text[n])]]
           Is(f) == f = [n \in 0..N |-> IF n = 0 THEN <<<<>>>> ELSE SplitTurn(f[n - 1], text[n])]
<1>1. N \in Nat /\ \A n \in 1..N : text[n] \in Signs
  BY DEF Text
<1>2. Turn \in [1..N -> [SomeLines -> SomeLines]]
  BY <1>1, SplitTurnIs
<1>3. start \in SomeLines
  BY DEF SomeLines, Text
<1>4. LoopRuns(SomeLines, start, N, Turn)
  BY <1>1, <1>2, <1>3, LoopExists
<1>5. PICK g \in [0..N -> SomeLines] : g[0] = start /\ \A n \in 1..N : g[n] = Turn[n][g[n - 1]]
  BY <1>4 DEF LoopRuns
<1>6. ASSUME NEW n \in 1..N PROVE g[n] = SplitTurn(g[n - 1], text[n])
  <2>1. n - 1 \in 0..N
    BY <1>1
  <2> QED
    BY <1>5, <2>1
<1>7. Is(g)
  <2>1. ASSUME NEW n \in 0..N PROVE g[n] = IF n = 0 THEN start ELSE SplitTurn(g[n - 1], text[n])
    <3>1. n # 0 => n \in 1..N
      BY <1>1
    <3> QED
      BY <1>5, <1>6, <3>1
  <2> QED
    BY <2>1
<1>8. PICK f : f = (CHOOSE h : Is(h)) /\ Is(f)
  BY <1>7
<1>9. SplitAtLf(text) = f[N]
  <2>1. SplitAtLf(text) = (CHOOSE h : Is(h))[N]
    BY DEF SplitAtLf, SplitTurn
  <2> QED
    BY <1>8, <2>1
<1>10. ASSUME NEW n \in 1..N PROVE f[n] = SplitTurn(f[n - 1], text[n])
  <2>1. n \in 0..N /\ n # 0
    BY <1>1
  <2> QED
    BY <1>8, <2>1
<1>11. f[0] = start
  <2>1. 0 \in 0..N
    BY <1>1
  <2> QED
    BY <1>8, <2>1
<1> QED
  BY <1>9, <1>10, <1>11

LEMMA SplitNone == SplitAtLf(<<>>) = <<<<>>>>
<1>1. <<>> \in Text /\ Len(<<>>) = 0
  BY DEF Text
<1> QED
  BY <1>1, SplitIs

LEMMA SplitOneMore ==
  ASSUME NEW text \in Text, NEW c \in Signs
  PROVE  SplitAtLf(text) \in SomeLines /\ SplitAtLf(Append(text, c)) = SplitTurn(SplitAtLf(text), c)
<1> DEFINE more == Append(text, c)
           N == Len(text)
           start == <<<<>>>>
<1>1. /\ more \in Text /\ Len(more) = N + 1 /\ N \in Nat
      /\ \A n \in 1..N : more[n] = text[n]
      /\ more[N + 1] = c
  <2>1. text \in Seq(Signs) /\ c \in Signs
    BY DEF Text
  <2> QED
    BY <2>1, AppendProperties DEF Text
<1> HIDE DEF more
<1> DEFINE Turn == [n \in 1..N + 1 |-> [x \in SomeLines |-> SplitTurn(x, more[n])]]
<1>2. PICK f : /\ f[0] = start /\ SplitAtLf(text) = f[Len(text)]
               /\ \A n \in 1..Len(text) : f[n] = SplitTurn(f[n - 1], text[n])
  BY SplitIs
<1>3. PICK g : /\ g[0] = start /\ SplitAtLf(more) = g[Len(more)]
               /\ \A n \in 1..Len(more) : g[n] = SplitTurn(g[n - 1], more[n])
  BY <1>1, SplitIs
<1>s. start \in SomeLines
  BY DEF SomeLines, Text
<1> HIDE DEF start
<1>4. \A n \in 1..N + 1 : more[n] \in Signs
  BY <1>1 DEF Text
<1>5. Turn \in [1..N + 1 -> [SomeLines -> SomeLines]]
  BY <1>4, SplitTurnIs
<1>6. StartsLoop(f, SomeLines, start, N, Turn)
  BY <1>1, <1>2 DEF StartsLoop
<1>7. StartsLoop(g, SomeLines, start, N + 1, Turn)
  BY <1>1, <1>3 DEF StartsLoop
<1>8. f[N] \in SomeLines /\ g[N + 1] = Turn[N + 1][f[N]]
  <2>1. GoesOn(SomeLines, start, N, Turn, f, g)
    BY <1>s, <1>1, <1>5, <1>6, <1>7 DEF GoesOn
  <2> QED
    BY <2>1, LoopOneMore
<1>9. N + 1 \in 1..N + 1
  BY <1>1
<1> QED
  BY <1>1, <1>2, <1>3, <1>8, <1>9 DEF more

\* A carriage return ends the line, if it is in one.
EndsOnly(line) == \A k \in DOMAIN line : line[k] # "LF" /\ (line[k] = "CR" => k = Len(line))

LEMMA SplitLines ==
  ASSUME NEW text \in Text, ~LoneCr(text)
  PROVE  SplitAtLf(text) \in SomeLines /\ \A i \in 1..Len(SplitAtLf(text)) : EndsOnly(SplitAtLf(text)[i])
<1> DEFINE Part(n) == SplitAtLf(SubSeq(text, 1, n))
           Ended(lines, n) == lines[Len(lines)] # <<>> /\ Last(lines[Len(lines)]) = "CR" => n # 0 /\ text[n] = "CR"
           Good(lines, n) == /\ lines \in SomeLines /\ Ended(lines, n)
                             /\ \A i \in 1..Len(lines) : EndsOnly(lines[i])
           S == {n \in Nat : n <= Len(text) => Good(Part(n), n)}
<1>0. Len(text) \in Nat /\ <<>> \in Text /\ DOMAIN text = 1..Len(text)
  BY DEF Text
<1>1. 0 \in S
  <2>1. SubSeq(text, 1, 0) = <<>>
    BY SubSeqEmpty
  <2>2. Part(0) = <<<<>>>>
    BY <2>1, SplitNone
  <2> DEFINE one == <<<<>>>>
  <2>3. one \in SomeLines /\ Len(one) = 1 /\ one[1] = <<>>
    BY <1>0 DEF SomeLines
  <2>4. EndsOnly(<<>>)
    BY DEF EndsOnly
  <2>5. Good(one, 0)
    BY <2>3, <2>4
  <2> QED
    BY <2>2, <2>5
<1>2. ASSUME NEW n \in S PROVE n + 1 \in S
  <2> DEFINE t == SubSeq(text, 1, n)
             c == text[n + 1]
             lines == SplitAtLf(t)
             now == SplitTurn(lines, c)
             N == Len(lines)
  <2> SUFFICES ASSUME n + 1 <= Len(text) PROVE Good(Part(n + 1), n + 1)
    OBVIOUS
  <2>1. n \in Nat /\ n <= Len(text) /\ n + 1 \in DOMAIN text
    BY <1>0
  <2>2. t \in Text /\ SubSeq(text, 1, n + 1) = Append(t, c) /\ c \in Signs
    BY <2>1, LastApart DEF Text
  <2>3. Good(lines, n)
    BY <2>1
  <2>4. Part(n + 1) = now
    <3> HIDE DEF t, c
    <3> QED
      BY <2>2, SplitOneMore
  <2>5. n # 0 /\ text[n] = "CR" => c = "LF"
    <3> SUFFICES ASSUME n # 0, text[n] = "CR" PROVE c = "LF"
      OBVIOUS
    <3>1. n + 1 \in 1..Len(text) /\ n \in Nat
      BY <1>0, <2>1
    <3>2. n \in 1..Len(text) /\ n # Len(text)
      <4> DEFINE L == Len(text)
      <4>1. L \in Nat /\ n \in Nat /\ n # 0 /\ n + 1 <= L
        BY <1>0, <3>1
      <4> HIDE DEF L
      <4>2. n \in 1..L /\ n # L
        BY <4>1
      <4> QED
        BY <4>2 DEF L
    <3> QED
      BY <1>0, <3>2 DEF LoneCr
  <2>6. N \in Nat /\ N # 0 /\ \A i \in 1..N : lines[i] \in Text
    BY <2>3 DEF SomeLines
  <2> HIDE DEF c, lines, now
  <2>7. /\ now \in SomeLines
        /\ c = "LF" => /\ Len(now) = N + 1 /\ now[N + 1] = <<>>
                       /\ \A i \in 1..N : now[i] = lines[i]
        /\ c # "LF" => /\ Len(now) = N /\ now[N] = Append(lines[N], c)
                       /\ \A i \in 1..N : i # N => now[i] = lines[i]
    BY <2>2, <2>3, SplitTurnIs DEF now
  <2>8. CASE c = "LF"
    <3>1. EndsOnly(<<>>)
      BY DEF EndsOnly
    <3>2. ASSUME NEW i \in 1..Len(now) PROVE EndsOnly(now[i])
      <4>1. i \in 1..N \/ i = N + 1
        BY <2>6, <2>7, <2>8
      <4> QED
        BY <2>3, <2>7, <2>8, <3>1, <4>1
    <3>3. Ended(now, n + 1)
      BY <2>7, <2>8
    <3> QED
      BY <2>4, <2>7, <3>2, <3>3
  <2>9. CASE c # "LF"
    <3> DEFINE l == lines[N]
               more == Append(l, c)
    <3>1. N \in 1..N /\ l \in Text /\ EndsOnly(l) /\ (l # <<>> => Last(l) # "CR")
      BY <2>3, <2>5, <2>6, <2>9
    <3> HIDE DEF l
    <3>2. /\ Len(more) = Len(l) + 1 /\ Len(l) \in Nat /\ DOMAIN more = 1..Len(l) + 1 /\ DOMAIN l = 1..Len(l)
          /\ \A k \in 1..Len(l) : more[k] = l[k]
          /\ more[Len(l) + 1] = c
      <4>1. l \in Seq(Signs) /\ c \in Signs
        BY <2>2, <3>1 DEF Text
      <4> QED
        BY <4>1, AppendProperties
    <3> HIDE DEF more
    <3>3. EndsOnly(more)
      <4>1. ASSUME NEW k \in DOMAIN more PROVE more[k] # "LF" /\ (more[k] = "CR" => k = Len(more))
        <5>1. CASE k = Len(l) + 1
          BY <2>9, <3>2, <5>1
        <5>2. CASE k # Len(l) + 1
          <6>1. k \in DOMAIN l /\ more[k] = l[k]
            BY <3>2, <5>2
          <6>2. l[k] # "LF" /\ (l[k] = "CR" => k = Len(l))
            BY <3>1, <6>1 DEF EndsOnly
          <6>3. k = Len(l) => l # <<>> /\ Last(l) = l[k]
            BY <3>2, <6>1 DEF Last
          <6> QED
            BY <3>1, <6>1, <6>2, <6>3
        <5> QED
          BY <5>1, <5>2
      <4> QED
        BY <4>1 DEF EndsOnly
    <3>4. now[N] = more /\ Len(now) = N
      BY <2>7, <2>9 DEF l, more
    <3>5. ASSUME NEW i \in 1..Len(now) PROVE EndsOnly(now[i])
      BY <2>3, <2>7, <2>9, <3>3, <3>4, <3>5
    <3>6. Last(more) = c
      BY <3>2 DEF Last
    <3>7. Ended(now, n + 1)
      BY <2>1, <3>4, <3>6 DEF c
    <3> QED
      BY <2>4, <2>7, <3>5, <3>7
  <2> QED
    BY <2>8, <2>9
<1>3. S = Nat
  <2> HIDE DEF S
  <2>1. S \subseteq Nat
    BY DEF S
  <2> QED
    BY <1>1, <1>2, <2>1, EveryNumber
<1>4. SubSeq(text, 1, Len(text)) = text
  BY SubSeqFull DEF Text
<1>5. \A n \in Nat : n <= Len(text) => Good(Part(n), n)
  BY <1>3
<1>6. Good(Part(Len(text)), Len(text))
  BY <1>0, <1>5
<1> QED
  BY <1>4, <1>6

\* Without its carriage return the line ends nowhere.
LEMMA LinesArePlain ==
  ASSUME NEW text \in Text, ~LoneCr(text)
  PROVE  /\ Lines(text) \in SomeLines
         /\ \A i \in 1..Len(Lines(text)) : NoEnd(Lines(text)[i])
<1> DEFINE lines == SplitAtLf(text)
<1>1. lines \in Seq(Text) /\ lines # <<>> /\ \A i \in 1..Len(lines) : EndsOnly(lines[i])
  BY SplitLines DEF SomeLines
<1> HIDE DEF lines
<1>2. ASSUME NEW line \in Text, EndsOnly(line)
      PROVE  WithoutLastCr(line) \in Text /\ NoEnd(WithoutLastCr(line))
  <2>1. CASE line # <<>> /\ Last(line) = "CR"
    <3>1. WithoutLastCr(line) = SubSeq(line, 1, Len(line) - 1)
      BY <2>1 DEF WithoutLastCr, Front
    <3>2. Len(line) \in Nat /\ Len(line) - 1 \in Nat /\ \A k \in 1..Len(line) - 1 : line[k] \in Signs /\ k \in DOMAIN line
      BY <2>1 DEF Text
    <3> DEFINE front == SubSeq(line, 1, Len(line) - 1)
    <3>3. front \in Seq(Signs) /\ Len(front) = Len(line) - 1 /\ \A k \in 1..Len(line) - 1 : front[k] = line[k]
      <4>1. 1 \in Int /\ Len(line) - 1 \in Int
        BY <3>2
      <4>2. front \in Seq(Signs)
        BY <3>2, <4>1, SubSeqProperties
      <4>3. /\ Len(front) = IF 1 <= Len(line) - 1 THEN Len(line) - 1 - 1 + 1 ELSE 0
            /\ \A k \in 1..Len(line) - 1 - 1 + 1 : front[k] = line[1 + k - 1]
        BY <3>2, <4>1, SubSeqProperties
      <4> HIDE DEF front
      <4>4. Len(front) = Len(line) - 1
        <5> DEFINE L == Len(line)
                   F == Len(front)
        <5>1. L \in Nat /\ L - 1 \in Nat /\ F = IF 1 <= L - 1 THEN L - 1 - 1 + 1 ELSE 0
          BY <3>2, <4>3
        <5> HIDE DEF L, F
        <5>2. F = L - 1
          BY <5>1
        <5> QED
          BY <5>2 DEF L, F
      <4>5. \A k \in 1..Len(line) - 1 : k \in 1..Len(line) - 1 - 1 + 1 /\ 1 + k - 1 = k
        BY <3>2
      <4>6. \A k \in 1..Len(line) - 1 : front[k] = line[1 + k - 1] /\ 1 + k - 1 = k
        BY <4>3, <4>5
      <4> QED
        BY <4>2, <4>4, <4>6
    <3> HIDE DEF front
    <3>4. ASSUME NEW k \in DOMAIN front PROVE front[k] \notin {"CR", "LF"}
      <4>1. k \in 1..Len(line) - 1 /\ k # Len(line)
        BY <3>2, <3>3
      <4> QED
        BY <1>2, <3>2, <3>3, <4>1 DEF EndsOnly
    <3> QED
      BY <3>1, <3>3, <3>4 DEF NoEnd, Text, front
  <2>2. CASE ~(line # <<>> /\ Last(line) = "CR")
    <3>1. WithoutLastCr(line) = line
      BY <2>2 DEF WithoutLastCr
    <3>2. ASSUME NEW k \in DOMAIN line PROVE line[k] \notin {"CR", "LF"}
      <4>1. k = Len(line) => line # <<>> /\ Last(line) = line[k]
        BY <3>2 DEF Last
      <4> QED
        BY <1>2, <2>2, <4>1 DEF EndsOnly
    <3> QED
      BY <3>1, <3>2 DEF NoEnd
  <2> QED
    BY <2>1, <2>2
<1>3. DOMAIN lines = 1..Len(lines) /\ Len(lines) \in Nat /\ Len(lines) # 0 /\ \A i \in 1..Len(lines) : lines[i] \in Text
  BY <1>1
<1>4. Lines(text) = [j \in 1..Len(lines) |-> WithoutLastCr(lines[j])]
  BY <1>3 DEF Lines, lines
<1>5. ASSUME NEW i \in 1..Len(lines)
      PROVE  Lines(text)[i] = WithoutLastCr(lines[i]) /\ Lines(text)[i] \in Text /\ NoEnd(Lines(text)[i])
  BY <1>1, <1>2, <1>3, <1>4
<1>6. Lines(text) \in Seq(Text) /\ Len(Lines(text)) = Len(lines)
  BY <1>3, <1>4, <1>5
<1> QED
  BY <1>3, <1>5, <1>6 DEF SomeLines

-----------------------------------------------------------------------------
(* Replies: the fields of an event. *)

Fields(name, lines) == [i \in 1..Len(lines) |-> Field(name, lines[i])]

\* What the reader makes of lines under a name.
Reads(name, r, lines) == IF name = "data:" THEN [r EXCEPT !.data = r.data \o lines] ELSE r

LEMMA ReadsNothing ==
  ASSUME NEW r \in Readings, NEW name PROVE Reads(name, r, <<>>) = r
<1>1. r.data \in Seq(Text)
  BY DEF Readings
<1>2. r.data \o <<>> = r.data
  BY <1>1, ConcatEmptySeq
<1> QED
  BY <1>2 DEF Reads, Readings

LEMMA ReadsMore ==
  ASSUME NEW r \in Readings, NEW name, NEW a \in Seq(Text), NEW b \in Seq(Text)
  PROVE  /\ Reads(name, r, a) \in Readings
         /\ Reads(name, Reads(name, r, a), b) = Reads(name, r, a \o b)
<1>1. r.data \in Seq(Text)
  BY DEF Readings
<1>2. r.data \o a \in Seq(Text) /\ (r.data \o a) \o b = r.data \o (a \o b)
  <2> DEFINE d == r.data
  <2>1. d \in Seq(Text)
    BY <1>1
  <2> HIDE DEF d
  <2>2. d \o a \in Seq(Text)
    BY <2>1, ConcatProperties
  <2>3. (d \o a) \o b = d \o (a \o b)
    BY <2>1, ConcatAssociative
  <2> QED
    BY <2>2, <2>3 DEF d
<1> HIDE DEF Text
<1> QED
  BY <1>2 DEF Reads, Readings

\* One line under a name.
LEMMA NamedLineRead ==
  ASSUME NEW r \in Readings, NEW name \in {":", "data:"}, NEW line \in Text
  PROVE  ReadLine(r, <<name>> \o line) = Reads(name, r, <<line>>)
<1> DEFINE all == <<name>> \o line
<1>1. <<name>> \in Text /\ Len(<<name>>) = 1 /\ <<name>>[1] = name /\ line \in Seq(Signs) /\ Len(line) \in Nat
  BY DEF Text, Signs
<1>2. /\ all \in Text /\ Len(all) = 1 + Len(line)
      /\ \A i \in 1..1 + Len(line) : all[i] = IF i <= 1 THEN <<name>>[i] ELSE line[i - 1]
  BY <1>1, ConcatProperties DEF Text
<1> HIDE DEF all
<1>3. all # <<>> /\ all[1] = name
  BY <1>1, <1>2
<1>4. Tail(all) = line
  <2>1. Tail(all) \in Seq(Signs) /\ Len(Tail(all)) = Len(all) - 1 /\ \A i \in 1..Len(Tail(all)) : Tail(all)[i] = all[i + 1]
    BY <1>2, <1>3, HeadTailProperties DEF Text
  <2>2. Len(Tail(all)) = Len(line)
    BY <1>1, <1>2, <2>1
  <2>3. ASSUME NEW i \in 1..Len(line) PROVE Tail(all)[i] = line[i]
    <3>1. i + 1 \in 1..1 + Len(line) /\ ~(i + 1 <= 1) /\ (i + 1) - 1 = i
      BY <1>1
    <3> QED
      BY <1>2, <2>1, <2>2, <3>1
  <2> QED
    BY <1>1, <2>1, <2>2, <2>3, SeqEqual
<1>5. Append(r.data, line) = r.data \o <<line>>
  <2>1. r.data \in Seq(Text)
    BY DEF Readings
  <2> QED
    BY <2>1, AppendIsConcat
<1>6. CASE name = ":"
  BY <1>3, <1>6 DEF ReadLine, Reads, all
<1>7. CASE name = "data:"
  <2>1. ReadLine(r, all) = [r EXCEPT !.data = Append(r.data, Tail(all))]
    BY <1>3, <1>7 DEF ReadLine
  <2> QED
    BY <1>4, <1>5, <1>7, <2>1 DEF Reads, all
<1> QED
  BY <1>6, <1>7

LEMMA FieldsRead ==
  ASSUME NEW r \in Readings, NEW name \in {":", "data:"}, NEW lines \in Seq(Text),
         \A i \in 1..Len(lines) : NoEnd(lines[i])
  PROVE  /\ FlattenSeq(Fields(name, lines)) \in Text
         /\ ReadAll(Between(r), FlattenSeq(Fields(name, lines))) = Between(Reads(name, r, lines))
<1> DEFINE Part(n) == FlattenSeq(Fields(name, SubSeq(lines, 1, n)))
           Good(n) == /\ Fields(name, SubSeq(lines, 1, n)) \in Seq(Text) /\ Part(n) \in Text
                      /\ ReadAll(Between(r), Part(n)) = Between(Reads(name, r, SubSeq(lines, 1, n)))
           S == {n \in Nat : n <= Len(lines) => Good(n)}
<1>0. Len(lines) \in Nat /\ <<>> \in Text /\ name \in Signs /\ name \notin {"CR", "LF"}
  BY DEF Text, Signs
<1>1. 0 \in S
  <2>1. SubSeq(lines, 1, 0) = <<>> /\ Fields(name, <<>>) = <<>> /\ <<>> \in Seq(Text)
    BY SubSeqEmpty DEF Fields
  <2>2. Good(0)
    BY <1>0, <2>1, FlattenNone, ReadNone, ReadsNothing, BetweenReads
  <2> QED
    BY <2>2
<1>2. ASSUME NEW n \in S PROVE n + 1 \in S
  <2> SUFFICES ASSUME n + 1 <= Len(lines) PROVE Good(n + 1)
    OBVIOUS
  <2> DEFINE t == SubSeq(lines, 1, n)
             l == lines[n + 1]
             fs == Fields(name, t)
             text == FlattenSeq(fs)
  <2>1. n \in Nat /\ n <= Len(lines) /\ n + 1 \in 1..Len(lines)
    BY <1>0
  <2>2. t \in Seq(Text) /\ Len(t) = n /\ SubSeq(lines, 1, n + 1) = Append(t, l) /\ l \in Text /\ NoEnd(l)
    BY <2>1, LastApart
  <2>3. fs \in Seq(Text) /\ text \in Text /\ ReadAll(Between(r), text) = Between(Reads(name, r, t))
    BY <2>1
  <2> HIDE DEF t, l
  <2>4. Fields(name, Append(t, l)) = Append(fs, Field(name, l))
    <3> DEFINE more == Append(t, l)
    <3>1. Len(more) = n + 1 /\ (\A i \in 1..n : more[i] = t[i]) /\ more[n + 1] = l
      BY <2>2, AppendProperties
    <3> HIDE DEF more
    <3>2. Fields(name, more) = [i \in 1..n + 1 |-> Field(name, more[i])]
      BY <3>1 DEF Fields
    <3>3. Len(fs) = n /\ \A i \in 1..n : fs[i] = Field(name, t[i])
      BY <2>1, <2>2 DEF Fields
    <3>4. Field(name, l) \in Text
      BY <1>0, <2>2, FieldRead
    <3> DEFINE gs == Append(fs, Field(name, l))
    <3>5. gs \in Seq(Text) /\ Len(gs) = n + 1 /\ (\A i \in 1..n : gs[i] = fs[i]) /\ gs[n + 1] = Field(name, l)
      BY <2>3, <3>3, <3>4, AppendProperties
    <3> HIDE DEF gs, fs
    <3>6. gs = [i \in 1..n + 1 |-> gs[i]]
      BY <2>1, <3>5
    <3>7. ASSUME NEW i \in 1..n + 1 PROVE gs[i] = Field(name, more[i])
      <4>1. i \in 1..n \/ i = n + 1
        BY <2>1
      <4> QED
        BY <3>1, <3>3, <3>5, <4>1
    <3>8. gs = Fields(name, more)
      BY <3>2, <3>6, <3>7
    <3> QED
      BY <3>8 DEF gs, more
  <2> HIDE DEF fs
  <2>5. /\ Field(name, l) \in Text /\ <<name>> \o l \in Text
        /\ \A q \in Readings : ReadAll(Between(q), Field(name, l)) = Between(ReadLine(q, <<name>> \o l))
    BY <1>0, <2>2, FieldRead
  <2>6. FlattenSeq(Append(fs, Field(name, l))) = text \o Field(name, l) /\ Append(fs, Field(name, l)) \in Seq(Text)
    BY <2>3, <2>5, FlattenOneMore, AppendProperties DEF Text
  <2> HIDE DEF text
  <2>7. /\ text \o Field(name, l) \in Text
        /\ ReadAll(Between(r), text \o Field(name, l)) = ReadAll(ReadAll(Between(r), text), Field(name, l))
    BY <2>3, <2>5, ReadBoth, BetweenReads
  <2>8. <<l>> \in Seq(Text) /\ Append(t, l) = t \o <<l>>
    BY <2>2, AppendIsConcat
  <2>9. /\ Reads(name, r, t) \in Readings
        /\ Reads(name, Reads(name, r, t), <<l>>) = Reads(name, r, Append(t, l))
    <3>1. Reads(name, Reads(name, r, t), <<l>>) = Reads(name, r, t \o <<l>>) /\ Reads(name, r, t) \in Readings
      <4> DEFINE one == <<l>>
      <4>1. one \in Seq(Text) /\ t \in Seq(Text)
        BY <2>2, <2>8
      <4> HIDE DEF one
      <4>2. Reads(name, Reads(name, r, t), one) = Reads(name, r, t \o one) /\ Reads(name, r, t) \in Readings
        BY <4>1, ReadsMore
      <4> QED
        BY <4>2 DEF one
    <3> QED
      BY <2>8, <3>1
  <2>10. ReadAll(Between(Reads(name, r, t)), Field(name, l)) = Between(Reads(name, r, Append(t, l)))
    BY <2>2, <2>5, <2>9, NamedLineRead
  <2> QED
    BY <2>2, <2>3, <2>4, <2>6, <2>7, <2>10
<1>3. S = Nat
  <2> HIDE DEF S
  <2>1. S \subseteq Nat
    BY DEF S
  <2> QED
    BY <1>1, <1>2, <2>1, EveryNumber
<1>4. SubSeq(lines, 1, Len(lines)) = lines
  BY SubSeqFull
<1>5. \A n \in Nat : n <= Len(lines) => Good(n)
  BY <1>3
<1>6. Good(Len(lines))
  BY <1>0, <1>5
<1> QED
  BY <1>4, <1>6

Multilines(name, list) == [i \in 1..Len(list) |-> Multiline(name, list[i])]
LinesOfAll(list) == [i \in 1..Len(list) |-> Lines(list[i])]
AllLines(list) == FlattenSeq(LinesOfAll(list))

LEMMA MultilineRead ==
  ASSUME NEW r \in Readings, NEW name \in {":", "data:"}, NEW text \in Text, ~LoneCr(text)
  PROVE  /\ Multiline(name, text) \in Text
         /\ ReadAll(Between(r), Multiline(name, text)) = Between(Reads(name, r, Lines(text)))
<1> DEFINE lines == Lines(text)
<1>1. lines \in Seq(Text) /\ \A i \in 1..Len(lines) : NoEnd(lines[i])
  BY LinesArePlain DEF SomeLines
<1>2. Multiline(name, text) = FlattenSeq(Fields(name, lines))
  <2>1. SplitAtLf(text) \in Seq(Text)
    BY SplitLines DEF SomeLines
  <2>2. DOMAIN SplitAtLf(text) = 1..Len(SplitAtLf(text)) /\ Len(SplitAtLf(text)) \in Nat
    BY <2>1
  <2>3. /\ Len(lines) = Len(SplitAtLf(text))
        /\ \A i \in 1..Len(lines) : lines[i] = WithoutLastCr(SplitAtLf(text)[i])
    BY <2>2 DEF Lines
  <2> HIDE DEF lines
  <2>4. Fields(name, lines) = [i \in DOMAIN SplitAtLf(text) |-> Field(name, WithoutLastCr(SplitAtLf(text)[i]))]
    BY <2>2, <2>3 DEF Fields
  <2> QED
    BY <2>4 DEF Multiline
<1> HIDE DEF lines
<1>3. /\ FlattenSeq(Fields(name, lines)) \in Text
      /\ ReadAll(Between(r), FlattenSeq(Fields(name, lines))) = Between(Reads(name, r, lines))
  BY <1>1, FieldsRead
<1> QED
  BY <1>2, <1>3 DEF lines

\* All texts under a name, and that there are lines if there are texts.
LEMMA MultilinesRead ==
  ASSUME NEW r \in Readings, NEW name \in {":", "data:"}, NEW list \in Seq(Text),
         \A i \in 1..Len(list) : ~LoneCr(list[i])
  PROVE  /\ FlattenSeq(Multilines(name, list)) \in Text
         /\ AllLines(list) \in Seq(Text) /\ (AllLines(list) = <<>> <=> list = <<>>)
         /\ ReadAll(Between(r), FlattenSeq(Multilines(name, list))) = Between(Reads(name, r, AllLines(list)))
<1> DEFINE Part(n) == FlattenSeq(Multilines(name, SubSeq(list, 1, n)))
           Read(n) == AllLines(SubSeq(list, 1, n))
           Good(n) == /\ Multilines(name, SubSeq(list, 1, n)) \in Seq(Text) /\ Part(n) \in Text
                      /\ LinesOfAll(SubSeq(list, 1, n)) \in Seq(Seq(Text))
                      /\ Read(n) \in Seq(Text) /\ (Read(n) = <<>> <=> n = 0)
                      /\ ReadAll(Between(r), Part(n)) = Between(Reads(name, r, Read(n)))
           S == {n \in Nat : n <= Len(list) => Good(n)}
<1>0. Len(list) \in Nat /\ <<>> \in Text
  BY DEF Text
<1>1. 0 \in S
  <2>1. /\ SubSeq(list, 1, 0) = <<>> /\ Multilines(name, <<>>) = <<>> /\ LinesOfAll(<<>>) = <<>>
        /\ <<>> \in Seq(Text) /\ <<>> \in Seq(Seq(Text))
    BY SubSeqEmpty DEF Multilines, LinesOfAll
  <2>2. Good(0)
    BY <1>0, <2>1, FlattenNone, ReadNone, ReadsNothing, BetweenReads DEF AllLines
  <2> QED
    BY <2>2
<1>2. ASSUME NEW n \in S PROVE n + 1 \in S
  <2> SUFFICES ASSUME n + 1 <= Len(list) PROVE Good(n + 1)
    OBVIOUS
  <2> DEFINE t == SubSeq(list, 1, n)
             l == list[n + 1]
             ms == Multilines(name, t)
             text == FlattenSeq(ms)
             ls == LinesOfAll(t)
             read == AllLines(t)
  <2>1. n \in Nat /\ n <= Len(list) /\ n + 1 \in 1..Len(list)
    BY <1>0
  <2>2. t \in Seq(Text) /\ Len(t) = n /\ SubSeq(list, 1, n + 1) = Append(t, l) /\ l \in Text /\ ~LoneCr(l)
    BY <2>1, LastApart
  <2>3. /\ ms \in Seq(Text) /\ text \in Text /\ ls \in Seq(Seq(Text)) /\ read \in Seq(Text)
        /\ ReadAll(Between(r), text) = Between(Reads(name, r, read))
    BY <2>1
  <2> HIDE DEF t, l
  <2>4. Lines(l) \in Seq(Text) /\ Lines(l) # <<>> /\ Multiline(name, l) \in Text
    BY <2>2, LinesArePlain, MultilineRead DEF SomeLines
  <2>5. Multilines(name, Append(t, l)) = Append(ms, Multiline(name, l)) /\ LinesOfAll(Append(t, l)) = Append(ls, Lines(l))
    <3> DEFINE more == Append(t, l)
    <3>1. Len(more) = n + 1 /\ (\A i \in 1..n : more[i] = t[i]) /\ more[n + 1] = l
      BY <2>2, AppendProperties
    <3> HIDE DEF more
    <3>2. /\ Multilines(name, more) = [i \in 1..n + 1 |-> Multiline(name, more[i])]
          /\ LinesOfAll(more) = [i \in 1..n + 1 |-> Lines(more[i])]
      BY <3>1 DEF Multilines, LinesOfAll
    <3>3. /\ Len(ms) = n /\ \A i \in 1..n : ms[i] = Multiline(name, t[i])
          /\ Len(ls) = n /\ \A i \in 1..n : ls[i] = Lines(t[i])
      BY <2>1, <2>2 DEF Multilines, LinesOfAll
    <3> DEFINE gs == Append(ms, Multiline(name, l))
               hs == Append(ls, Lines(l))
    <3> HIDE DEF ms, ls
    <3>4. Len(gs) = n + 1 /\ (\A i \in 1..n : gs[i] = ms[i]) /\ gs[n + 1] = Multiline(name, l) /\ gs \in Seq(Text)
      BY <2>3, <2>4, <3>3, AppendProperties
    <3>5. Len(hs) = n + 1 /\ (\A i \in 1..n : hs[i] = ls[i]) /\ hs[n + 1] = Lines(l) /\ hs \in Seq(Seq(Text))
      BY <2>3, <2>4, <3>3, AppendProperties
    <3> HIDE DEF gs, hs
    <3>6. gs = [i \in 1..n + 1 |-> gs[i]] /\ hs = [i \in 1..n + 1 |-> hs[i]]
      BY <2>1, <3>4, <3>5
    <3>7. ASSUME NEW i \in 1..n + 1 PROVE gs[i] = Multiline(name, more[i]) /\ hs[i] = Lines(more[i])
      <4>1. i \in 1..n \/ i = n + 1
        BY <2>1
      <4> QED
        BY <3>1, <3>3, <3>4, <3>5, <4>1
    <3>8. gs = Multilines(name, more) /\ hs = LinesOfAll(more)
      BY <3>2, <3>6, <3>7
    <3> QED
      BY <3>8 DEF gs, hs, more
  <2> HIDE DEF ms, ls
  <2>6. /\ Append(ms, Multiline(name, l)) \in Seq(Text) /\ Append(ls, Lines(l)) \in Seq(Seq(Text))
        /\ FlattenSeq(Append(ms, Multiline(name, l))) = text \o Multiline(name, l)
        /\ FlattenSeq(Append(ls, Lines(l))) = FlattenSeq(ls) \o Lines(l)
    <3>1. ms \in Seq(Seq(Signs)) /\ Multiline(name, l) \in Seq(Signs)
      BY <2>3, <2>4 DEF Text
    <3>2. FlattenSeq(Append(ms, Multiline(name, l))) = text \o Multiline(name, l)
      BY <3>1, FlattenOneMore
    <3>3. FlattenSeq(Append(ls, Lines(l))) = FlattenSeq(ls) \o Lines(l)
      BY <2>3, <2>4, FlattenOneMore
    <3> QED
      BY <2>3, <2>4, <3>2, <3>3, AppendProperties
  <2>7. AllLines(Append(t, l)) = read \o Lines(l)
    BY <2>5, <2>6 DEF AllLines, ls
  <2> HIDE DEF text, read
  <2>8. read \o Lines(l) \in Seq(Text) /\ read \o Lines(l) # <<>>
    BY <2>3, <2>4, ConcatProperties, ConcatEqualIffEmpty
  <2>9. /\ text \o Multiline(name, l) \in Text
        /\ ReadAll(Between(r), text \o Multiline(name, l)) = ReadAll(ReadAll(Between(r), text), Multiline(name, l))
    BY <2>3, <2>4, ReadBoth, BetweenReads
  <2>10. /\ Reads(name, r, read) \in Readings
         /\ Reads(name, Reads(name, r, read), Lines(l)) = Reads(name, r, read \o Lines(l))
    BY <2>3, <2>4, ReadsMore
  <2>11. ReadAll(Between(Reads(name, r, read)), Multiline(name, l)) = Between(Reads(name, r, read \o Lines(l)))
    BY <2>2, <2>10, MultilineRead
  <2>12. n + 1 # 0
    BY <2>1
  <2> QED
    BY <2>2, <2>3, <2>5, <2>6, <2>7, <2>8, <2>9, <2>11, <2>12
<1>3. S = Nat
  <2> HIDE DEF S
  <2>1. S \subseteq Nat
    BY DEF S
  <2> QED
    BY <1>1, <1>2, <2>1, EveryNumber
<1>4. SubSeq(list, 1, Len(list)) = list
  BY SubSeqFull
<1>5. \A n \in Nat : n <= Len(list) => Good(n)
  BY <1>3
<1>6. Good(Len(list))
  BY <1>0, <1>5
<1>7. list = <<>> <=> Len(list) = 0
  OBVIOUS
<1> QED
  BY <1>4, <1>6, <1>7

-----------------------------------------------------------------------------
(* Replies: events. *)

EventTexts == [event : Seq(Text), id : Seq(Text), data : Seq(Text), comment : Seq(Text)]

\* Readings between two events.
Quiet == {r \in Readings : r.event = <<>> /\ r.data = <<>>}

Readable(e) ==
  /\ \A i \in 1..Len(e.data) : ~LoneCr(e.data[i])
  /\ \A i \in 1..Len(e.comment) : ~LoneCr(e.comment[i])

LEMMA SingleLinePlain ==
  ASSUME NEW text \in Text
  PROVE  SingleLine(text) \in Text /\ NoEnd(SingleLine(text)) /\ SingleLine(text) = OneLine(text)
<1>1. DOMAIN text = 1..Len(text) /\ Len(text) \in Nat /\ \A i \in 1..Len(text) : text[i] \in Signs
  BY DEF Text
<1>2. SingleLine(text) = [i \in 1..Len(text) |-> IF text[i] \in {"CR", "LF"} THEN "space" ELSE text[i]]
  BY <1>1 DEF SingleLine
<1>3. "space" \in Signs
  BY DEF Signs
<1>4. \A i \in 1..Len(text) : SingleLine(text)[i] \in Signs /\ SingleLine(text)[i] \notin {"CR", "LF"}
  BY <1>1, <1>2, <1>3
<1>5. SingleLine(text) \in Text
  BY <1>1, <1>2, <1>4 DEF Text
<1>6. SingleLine(text) = OneLine(text)
  BY DEF SingleLine, OneLine
<1> QED
  BY <1>2, <1>4, <1>5, <1>6 DEF NoEnd

\* The rest of a line is what stood behind its name.
LEMMA NamedTail ==
  ASSUME NEW name \in Signs, NEW line \in Text
  PROVE  /\ <<name>> \o line # <<>> /\ (<<name>> \o line)[1] = name
         /\ Tail(<<name>> \o line) = line
<1> DEFINE all == <<name>> \o line
<1>1. <<name>> \in Text /\ Len(<<name>>) = 1 /\ <<name>>[1] = name /\ line \in Seq(Signs) /\ Len(line) \in Nat
  BY DEF Text
<1>2. /\ all \in Text /\ Len(all) = 1 + Len(line)
      /\ \A i \in 1..1 + Len(line) : all[i] = IF i <= 1 THEN <<name>>[i] ELSE line[i - 1]
  BY <1>1, ConcatProperties DEF Text
<1> HIDE DEF all
<1>3. all # <<>> /\ all[1] = name
  BY <1>1, <1>2
<1>4. Tail(all) = line
  <2>1. Tail(all) \in Seq(Signs) /\ Len(Tail(all)) = Len(all) - 1 /\ \A i \in 1..Len(Tail(all)) : Tail(all)[i] = all[i + 1]
    BY <1>2, <1>3, HeadTailProperties DEF Text
  <2>2. Len(Tail(all)) = Len(line)
    BY <1>1, <1>2, <2>1
  <2>3. ASSUME NEW i \in 1..Len(line) PROVE Tail(all)[i] = line[i]
    <3>1. i + 1 \in 1..1 + Len(line) /\ ~(i + 1 <= 1) /\ (i + 1) - 1 = i
      BY <1>1
    <3> QED
      BY <1>2, <2>1, <2>2, <3>1
  <2> QED
    BY <1>1, <2>1, <2>2, <2>3, SeqEqual
<1> QED
  BY <1>3, <1>4 DEF all

\* An event that is written is the event that is read.
LEMMA EventRead ==
  ASSUME NEW r \in Quiet, NEW e \in EventTexts, Readable(e)
  PROVE  /\ Rendered(e) \in Text /\ Told(r, e) \in Quiet
         /\ ReadAll(Between(r), Rendered(e)) = Between(Told(r, e))
<1> DEFINE A == IF e.event = <<>> THEN <<>> ELSE Field("event:", SingleLine(e.event[1]))
           B == IF e.id = <<>> THEN <<>> ELSE Field("id:", SingleLine(e.id[1]))
           C == FlattenSeq(Multilines(":", e.comment))
           D == FlattenSeq(Multilines("data:", e.data))
           a == IF e.event = <<>> THEN <<>> ELSE OneLine(e.event[1])
           b == IF e.id = <<>> THEN r.id ELSE OneLine(e.id[1])
           d == AllLines(e.data)
           rA == [r EXCEPT !.event = a]
           rB == [rA EXCEPT !.id = b]
           rD == [rB EXCEPT !.data = d]
<1>1. /\ e.event \in Seq(Text) /\ e.id \in Seq(Text) /\ e.data \in Seq(Text) /\ e.comment \in Seq(Text)
      /\ r \in Readings /\ r.event = <<>> /\ r.data = <<>> /\ r.id \in Text /\ r.delivered \in Seq(Deliveries)
      /\ <<>> \in Text /\ DOMAIN r = {"id", "event", "data", "delivered"}
  BY DEF EventTexts, Quiet, Readings, Text
<1>2. {":", "data:", "event:", "id:", "LF"} \subseteq Signs
  BY DEF Signs
<1>3. a \in Text /\ A \in Text /\ rA \in Readings /\ ReadAll(Between(r), A) = Between(rA)
  <2>1. CASE e.event = <<>>
    <3>1. rA = r
      BY <1>1, <2>1 DEF Readings
    <3> QED
      BY <1>1, <2>1, <3>1, ReadNone, BetweenReads
  <2>2. CASE e.event # <<>>
    <3> DEFINE line == SingleLine(e.event[1])
    <3>1. e.event[1] \in Text
      BY <1>1, <2>2
    <3>2. line \in Text /\ NoEnd(line) /\ line = a
      BY <2>2, <3>1, SingleLinePlain
    <3> HIDE DEF line
    <3>3. /\ Field("event:", line) \in Text /\ <<"event:">> \o line \in Text
          /\ ReadAll(Between(r), Field("event:", line)) = Between(ReadLine(r, <<"event:">> \o line))
      BY <1>1, <1>2, <3>2, FieldRead
    <3>4. <<"event:">> \o line # <<>> /\ (<<"event:">> \o line)[1] = "event:" /\ Tail(<<"event:">> \o line) = line
      BY <1>2, <3>2, NamedTail
    <3>5. ReadLine(r, <<"event:">> \o line) = [r EXCEPT !.event = line]
      BY <3>4 DEF ReadLine
    <3>6. A = Field("event:", line)
      BY <2>2 DEF line
    <3>7. [r EXCEPT !.event = line] \in Readings
      BY <1>1, <3>2 DEF Readings
    <3> QED
      BY <3>2, <3>3, <3>5, <3>6, <3>7
  <2> QED
    BY <2>1, <2>2
<1> HIDE DEF a, A
<1>4. b \in Text /\ B \in Text /\ rB \in Readings /\ ReadAll(Between(rA), B) = Between(rB)
  <2> DEFINE q == rA
  <2>0. q \in Readings /\ q.id = r.id /\ DOMAIN q = {"id", "event", "data", "delivered"}
    BY <1>1, <1>3
  <2> HIDE DEF q
  <2>1. CASE e.id = <<>>
    <3>1. [q EXCEPT !.id = b] = q
      BY <2>0, <2>1 DEF Readings
    <3>2. ReadAll(Between(q), <<>>) = Between(q)
      BY <2>0, ReadNone, BetweenReads
    <3> QED
      BY <1>1, <2>0, <2>1, <3>1, <3>2 DEF q
  <2>2. CASE e.id # <<>>
    <3> DEFINE line == SingleLine(e.id[1])
    <3>1. e.id[1] \in Text
      BY <1>1, <2>2
    <3>2. line \in Text /\ NoEnd(line) /\ line = b
      BY <2>2, <3>1, SingleLinePlain
    <3> HIDE DEF line
    <3>3. /\ Field("id:", line) \in Text /\ <<"id:">> \o line \in Text
          /\ ReadAll(Between(q), Field("id:", line)) = Between(ReadLine(q, <<"id:">> \o line))
      BY <1>2, <2>0, <3>2, FieldRead
    <3>4. <<"id:">> \o line # <<>> /\ (<<"id:">> \o line)[1] = "id:" /\ Tail(<<"id:">> \o line) = line
      BY <1>2, <3>2, NamedTail
    <3>5. ReadLine(q, <<"id:">> \o line) = [q EXCEPT !.id = line]
      BY <3>4 DEF ReadLine
    <3>6. B = Field("id:", line)
      BY <2>2 DEF line
    <3>7. [q EXCEPT !.id = line] \in Readings
      BY <2>0, <3>2 DEF Readings
    <3> QED
      BY <3>2, <3>3, <3>5, <3>6, <3>7 DEF q
  <2> QED
    BY <2>1, <2>2
<1>5. /\ rB \in Readings /\ rB.event = a /\ rB.id = b /\ rB.data = <<>> /\ rB.delivered = r.delivered
      /\ DOMAIN rB = {"id", "event", "data", "delivered"}
  BY <1>1, <1>3, <1>4
<1> HIDE DEF b, B, rA, rB
<1>6. C \in Text /\ ReadAll(Between(rB), C) = Between(rB)
  <2>1. \A i \in 1..Len(e.comment) : ~LoneCr(e.comment[i])
    BY DEF Readable
  <2>2. C \in Text /\ ReadAll(Between(rB), C) = Between(Reads(":", rB, AllLines(e.comment)))
    BY <1>1, <1>5, <2>1, MultilinesRead
  <2> QED
    BY <2>2 DEF Reads
<1>7. /\ D \in Text /\ d \in Seq(Text) /\ (d = <<>> <=> e.data = <<>>)
      /\ ReadAll(Between(rB), D) = Between(rD) /\ rD \in Readings
  <2>1. \A i \in 1..Len(e.data) : ~LoneCr(e.data[i])
    BY DEF Readable
  <2>2. /\ D \in Text /\ d \in Seq(Text) /\ (d = <<>> <=> e.data = <<>>)
        /\ ReadAll(Between(rB), D) = Between(Reads("data:", rB, d))
    BY <1>1, <1>5, <2>1, MultilinesRead
  <2> HIDE DEF d
  <2>3. <<>> \o d = d
    BY <2>2, ConcatEmptySeq
  <2>4. Reads("data:", rB, d) = rD
    BY <1>5, <2>3 DEF Reads
  <2>5. rD \in Readings
    BY <1>5, <2>2 DEF Readings
  <2> QED
    BY <2>2, <2>4, <2>5
<1> HIDE DEF C, D, d
<1>8. /\ rD \in Readings /\ rD.event = a /\ rD.id = b /\ rD.data = d /\ rD.delivered = r.delivered
  BY <1>5, <1>7
<1> HIDE DEF rD
<1>9. ReadAll(Between(rD), <<"LF">>) = Between(ReadLine(rD, <<>>)) /\ <<"LF">> \in Text
  <2>1. Append(<<>>, "LF") = <<"LF">> /\ <<>> \in Text /\ "LF" \in Signs /\ <<"LF">> \in Text
    BY <1>2 DEF Text
  <2>2. ReadAll(Between(rD), Append(<<>>, "LF")) = ReadChar(ReadAll(Between(rD), <<>>), "LF")
    BY <1>8, <2>1, ReadOneMore, BetweenReads
  <2>3. ReadAll(Between(rD), <<>>) = Between(rD)
    BY <1>8, ReadNone, BetweenReads
  <2>4. ReadChar(Between(rD), "LF") = Between(ReadLine(rD, <<>>))
    BY DEF ReadChar, Between
  <2> QED
    BY <2>1, <2>2, <2>3, <2>4
<1>10. ReadLine(rD, <<>>) = [id |-> b, event |-> <<>>, data |-> <<>>,
                             delivered |-> IF d = <<>> THEN r.delivered
                                           ELSE Append(r.delivered, [id |-> b, event |-> a, data |-> d])]
  BY <1>8 DEF ReadLine
<1>11. Told(r, e) = ReadLine(rD, <<>>)
  <2>1. FlattenSeq([i \in DOMAIN e.data |-> Lines(e.data[i])]) = d
    <3>1. DOMAIN e.data = 1..Len(e.data)
      BY <1>1
    <3> QED
      BY <3>1 DEF d, AllLines, LinesOfAll
  <2>2. Told(r, e) = [r EXCEPT !.id = b, !.delivered = IF d = <<>> THEN r.delivered
                                           ELSE Append(r.delivered, [id |-> b, event |-> a, data |-> d])]
    BY <1>7, <2>1 DEF Told, a, b
  <2> QED
    BY <1>1, <1>10, <2>2
<1>12. ReadLine(rD, <<>>) \in Readings
  BY <1>1, <1>8, LineRead
<1>13. Told(r, e) \in Quiet
  BY <1>10, <1>11, <1>12 DEF Quiet
<1>14. Rendered(e) = A \o B \o C \o D \o <<"LF">>
  <2>1. /\ DOMAIN e.data = 1..Len(e.data) /\ DOMAIN e.comment = 1..Len(e.comment)
    BY <1>1
  <2> QED
    BY <2>1 DEF Rendered, A, B, C, D, Multilines
<1>15. A \o B \in Text /\ ReadAll(Between(r), A \o B) = Between(rB)
  BY <1>1, <1>3, <1>4, ReadBoth, BetweenReads
<1>16. (A \o B) \o C \in Text /\ ReadAll(Between(r), (A \o B) \o C) = Between(rB)
  BY <1>1, <1>6, <1>15, ReadBoth, BetweenReads
<1>17. ((A \o B) \o C) \o D \in Text /\ ReadAll(Between(r), ((A \o B) \o C) \o D) = Between(rD)
  BY <1>1, <1>7, <1>16, ReadBoth, BetweenReads
<1>18. /\ (((A \o B) \o C) \o D) \o <<"LF">> \in Text
       /\ ReadAll(Between(r), (((A \o B) \o C) \o D) \o <<"LF">>) = Between(ReadLine(rD, <<>>))
  BY <1>1, <1>9, <1>17, ReadBoth, BetweenReads
<1> QED
  BY <1>11, <1>13, <1>14, <1>18

LEMMA MeantIs ==
  ASSUME NEW list \in Seq(EventTexts), \A i \in 1..Len(list) : Readable(list[i])
  PROVE  \E f : /\ f[0] = Reading /\ Meant(list) = f[Len(list)]
                /\ \A n \in 1..Len(list) : f[n] = Told(f[n - 1], list[n])
<1> DEFINE N == Len(list)
           Turn == [n \in 1..N |-> [x \in Quiet |-> Told(x, list[n])]]
           Is(f) == f = [n \in 0..N |-> IF n = 0 THEN Reading ELSE Told(f[n - 1], list[n])]
<1>1. N \in Nat /\ \A n \in 1..N : list[n] \in EventTexts
  OBVIOUS
<1>2. Turn \in [1..N -> [Quiet -> Quiet]]
  BY <1>1, EventRead
<1>3. Reading \in Quiet
  BY DEF Reading, Quiet, Readings, Text
<1>4. LoopRuns(Quiet, Reading, N, Turn)
  BY <1>1, <1>2, <1>3, LoopExists
<1>5. PICK g \in [0..N -> Quiet] : g[0] = Reading /\ \A n \in 1..N : g[n] = Turn[n][g[n - 1]]
  BY <1>4 DEF LoopRuns
<1>6. ASSUME NEW n \in 1..N PROVE g[n] = Told(g[n - 1], list[n])
  <2>1. n - 1 \in 0..N
    BY <1>1
  <2> QED
    BY <1>5, <2>1
<1>7. Is(g)
  BY <1>5, <1>6
<1>8. PICK f : f = (CHOOSE h : Is(h)) /\ Is(f)
  BY <1>7
<1>9. Meant(list) = f[N]
  BY <1>8 DEF Meant
<1>10. ASSUME NEW n \in 1..N PROVE f[n] = Told(f[n - 1], list[n])
  <2>1. n \in 0..N /\ n # 0
    BY <1>1
  <2> QED
    BY <1>8, <2>1
<1>11. f[0] = Reading
  <2>1. 0 \in 0..N
    BY <1>1
  <2> QED
    BY <1>8, <2>1
<1> QED
  BY <1>9, <1>10, <1>11

RenderedAll(list) == [i \in 1..Len(list) |-> Rendered(list[i])]

LEMMA StreamRead ==
  ASSUME NEW list \in Seq(EventTexts), \A i \in 1..Len(list) : Readable(list[i])
  PROVE  ReadAll(Between(Reading), FlattenSeq(RenderedAll(list))) = Between(Meant(list))
<1>1. PICK f : /\ f[0] = Reading /\ Meant(list) = f[Len(list)]
               /\ \A n \in 1..Len(list) : f[n] = Told(f[n - 1], list[n])
  BY MeantIs
<1> DEFINE Part(n) == FlattenSeq(RenderedAll(SubSeq(list, 1, n)))
           Good(n) == /\ RenderedAll(SubSeq(list, 1, n)) \in Seq(Text) /\ Part(n) \in Text /\ f[n] \in Quiet
                      /\ ReadAll(Between(Reading), Part(n)) = Between(f[n])
           S == {n \in Nat : n <= Len(list) => Good(n)}
<1>0. Len(list) \in Nat /\ <<>> \in Text /\ Reading \in Quiet /\ Reading \in Readings
  BY DEF Reading, Quiet, Readings, Text
<1>2. 0 \in S
  <2>1. SubSeq(list, 1, 0) = <<>> /\ RenderedAll(<<>>) = <<>> /\ <<>> \in Seq(Text)
    BY SubSeqEmpty DEF RenderedAll
  <2>2. Good(0)
    BY <1>0, <1>1, <2>1, FlattenNone, ReadNone, BetweenReads
  <2> QED
    BY <2>2
<1>3. ASSUME NEW n \in S PROVE n + 1 \in S
  <2> SUFFICES ASSUME n + 1 <= Len(list) PROVE Good(n + 1)
    OBVIOUS
  <2> DEFINE t == SubSeq(list, 1, n)
             e == list[n + 1]
             rs == RenderedAll(t)
             text == FlattenSeq(rs)
  <2>1. n \in Nat /\ n <= Len(list) /\ n + 1 \in 1..Len(list) /\ (n + 1) - 1 = n
    BY <1>0
  <2>2. /\ t \in Seq(EventTexts) /\ Len(t) = n /\ SubSeq(list, 1, n + 1) = Append(t, e)
        /\ e \in EventTexts /\ Readable(e)
    BY <2>1, LastApart
  <2>3. rs \in Seq(Text) /\ text \in Text /\ f[n] \in Quiet /\ ReadAll(Between(Reading), text) = Between(f[n])
    BY <2>1
  <2>4. f[n + 1] = Told(f[n], e)
    BY <1>1, <2>1
  <2> HIDE DEF t, e
  <2>5. /\ Rendered(e) \in Text /\ Told(f[n], e) \in Quiet
        /\ ReadAll(Between(f[n]), Rendered(e)) = Between(Told(f[n], e))
    BY <2>2, <2>3, EventRead
  <2>6. RenderedAll(Append(t, e)) = Append(rs, Rendered(e))
    <3> DEFINE more == Append(t, e)
    <3>1. Len(more) = n + 1 /\ (\A i \in 1..n : more[i] = t[i]) /\ more[n + 1] = e
      BY <2>2, AppendProperties
    <3> HIDE DEF more
    <3>2. RenderedAll(more) = [i \in 1..n + 1 |-> Rendered(more[i])]
      BY <3>1 DEF RenderedAll
    <3>3. Len(rs) = n /\ \A i \in 1..n : rs[i] = Rendered(t[i])
      BY <2>1, <2>2 DEF RenderedAll
    <3> DEFINE gs == Append(rs, Rendered(e))
    <3> HIDE DEF rs
    <3>4. Len(gs) = n + 1 /\ (\A i \in 1..n : gs[i] = rs[i]) /\ gs[n + 1] = Rendered(e) /\ gs \in Seq(Text)
      BY <2>3, <2>5, <3>3, AppendProperties
    <3> HIDE DEF gs
    <3>5. gs = [i \in 1..n + 1 |-> gs[i]]
      BY <2>1, <3>4
    <3>6. ASSUME NEW i \in 1..n + 1 PROVE gs[i] = Rendered(more[i])
      <4>1. i \in 1..n \/ i = n + 1
        BY <2>1
      <4> QED
        BY <3>1, <3>3, <3>4, <4>1
    <3>7. gs = RenderedAll(more)
      BY <3>2, <3>5, <3>6
    <3> QED
      BY <3>7 DEF gs, more
  <2> HIDE DEF rs
  <2>7. FlattenSeq(Append(rs, Rendered(e))) = text \o Rendered(e) /\ Append(rs, Rendered(e)) \in Seq(Text)
    <3>1. rs \in Seq(Seq(Signs)) /\ Rendered(e) \in Seq(Signs)
      BY <2>3, <2>5 DEF Text
    <3>2. FlattenSeq(Append(rs, Rendered(e))) = text \o Rendered(e)
      BY <3>1, FlattenOneMore
    <3> QED
      BY <2>3, <2>5, <3>2, AppendProperties
  <2> HIDE DEF text
  <2>8. /\ text \o Rendered(e) \in Text
        /\ ReadAll(Between(Reading), text \o Rendered(e)) = ReadAll(ReadAll(Between(Reading), text), Rendered(e))
    BY <1>0, <2>3, <2>5, ReadBoth, BetweenReads
  <2> QED
    BY <2>2, <2>3, <2>4, <2>5, <2>6, <2>7, <2>8
<1>4. S = Nat
  <2> HIDE DEF S
  <2>1. S \subseteq Nat
    BY DEF S
  <2> QED
    BY <1>2, <1>3, <2>1, EveryNumber
<1>5. SubSeq(list, 1, Len(list)) = list
  BY SubSeqFull
<1>6. \A n \in Nat : n <= Len(list) => Good(n)
  BY <1>4
<1>7. Good(Len(list))
  BY <1>0, <1>6
<1> QED
  BY <1>1, <1>5, <1>7

-----------------------------------------------------------------------------
(* Replies: the response. *)

Kinds == {"Empty", "Text", "Html", "Json", "Bytes"}

\* The content type a response is labelled with.
Label(headers) == IF "content-type" \in DOMAIN headers THEN headers["content-type"] ELSE <<>>

NoStream == chunks = <<>> /\ streamType = <<>>

EventsOk ==
  /\ events \in Seq(EventTexts)
  /\ making \in {"nothing", "handle", "stream"} => events = <<>>

StreamOk ==
  /\ chunks \in Seq(Bodies)
  /\ making \in {"nothing", "handle", "sse"} => NoStream
  /\ making = "stream" => /\ streamType = <<>> => set = <<>>
                          /\ streamType # <<>> =>
                               \E h \in HeaderSets : /\ h.name = "content-type" /\ streamType = <<h>>
                                                     /\ set = IF h.valid THEN h.value ELSE <<>>

HandleOk ==
  /\ making \in {"nothing", "handle"} =>
       /\ handle = [status |-> handle.status, headers |-> handle.headers, body |-> handle.body]
       /\ set = Label(handle.headers)
       /\ "content-type" \in DOMAIN handle.headers => set # <<>>
  /\ making \in {"nothing", "sse"} => set = <<>>

ReplyOk ==
  making = "reply" =>
    /\ \E r : reply = <<[status |-> r.status, headers |-> r.headers, body |-> r.body]>>
    /\ events # <<>> => reply[1].body.text = FlattenSeq(RenderedAll(events))

RepliesInv ==
  /\ making \in {"nothing", "handle", "stream", "sse", "reply"}
  /\ EventsOk
  /\ StreamOk
  /\ HandleOk
  /\ ReplyOk
  /\ ContentTypeTells

LEMMA PiecesAreTexts == EventPieces \subseteq EventTexts
<1>1. ASSUME NEW s \in Seq(Seq(STRING)) PROVE s \in Seq(Text)
  <2>1. ASSUME NEW t \in Seq(STRING) PROVE t \in Text
    BY DEF Text, Signs
  <2> QED
    BY <2>1, SeqMonotonic
<1> QED
  BY <1>1, RepliesAssumption DEF EventTexts

LEMMA EventsIn == RepliesInv /\ [RepliesNext]_repliesVars => EventsOk'
<1> SUFFICES ASSUME RepliesInv, [RepliesNext]_repliesVars PROVE EventsOk'
  OBVIOUS
<1> USE DEF RepliesInv, EventsOk
<1>1. ASSUME NEW e \in EventPieces, PushEvent(e) PROVE EventsOk'
  BY <1>1, PiecesAreTexts, AppendProperties DEF PushEvent
<1>2. ASSUME NEW e \in EventPieces, NEW i \in DOMAIN e.data, DataLine(e.data[i]) PROVE EventsOk'
  <2> DEFINE n == Len(events)
             text == e.data[i]
             last == [events[n] EXCEPT !.data = Append(@, text)]
  <2>1. e \in EventTexts
    BY PiecesAreTexts
  <2>2. text \in Text
    BY <2>1 DEF EventTexts
  <2>3. n \in 1..Len(events) /\ events[n] \in EventTexts
    BY <1>2 DEF DataLine
  <2> HIDE DEF text
  <2>4. last \in EventTexts
    <3> DEFINE e1 == events[n]
    <3>1. e1.data \in Seq(Text) /\ e1.event \in Seq(Text) /\ e1.id \in Seq(Text) /\ e1.comment \in Seq(Text)
      BY <2>3 DEF EventTexts
    <3> DEFINE more == Append(e1.data, text)
    <3>2. more \in Seq(Text)
      BY <2>2, <3>1, AppendProperties
    <3> HIDE DEF more, e1
    <3>3. [e1 EXCEPT !.data = more] \in EventTexts
      BY <2>3, <3>1, <3>2 DEF EventTexts, e1
    <3> QED
      BY <3>3 DEF more, e1
  <2>5. events' = [events EXCEPT ![n] = last] /\ making' = making /\ making = "sse"
    BY <1>2 DEF DataLine, text
  <2> HIDE DEF last, n
  <2>6. events' \in Seq(EventTexts)
    BY <2>3, <2>4, <2>5, ExceptSeq
  <2> QED
    BY <2>5, <2>6
<1>3. CASE UNCHANGED <<making, events>>
  BY <1>3
<1>4. CASE making' # making /\ UNCHANGED events /\ (making' = "reply" \/ making = "nothing")
  BY <1>4
<1>5. CASE RepliesNext
  BY <1>1, <1>2, <1>3, <1>4, <1>5
     DEF RepliesNext, Start, SetStatus, OverrideStatus, SetHeader, AddHeader, SetBody, PushChunk, WithContentType,
         IntoResponse, Return
<1> QED
  BY <1>3, <1>5 DEF repliesVars

LEMMA StreamIn == RepliesInv /\ [RepliesNext]_repliesVars => StreamOk'
<1> SUFFICES ASSUME RepliesInv, [RepliesNext]_repliesVars PROVE StreamOk'
  OBVIOUS
<1> USE DEF RepliesInv, StreamOk, NoStream, HandleOk
<1>1. ASSUME NEW b \in Bodies, PushChunk(b) PROVE StreamOk'
  BY <1>1, AppendProperties DEF PushChunk
<1>2. ASSUME NEW h \in HeaderSets, h.name = "content-type", WithContentType(h) PROVE StreamOk'
  <2>1. /\ making = "stream" /\ making' = "stream" /\ chunks' = chunks /\ streamType' = <<h>>
        /\ set' = IF h.valid THEN h.value ELSE <<>>
    BY <1>2 DEF WithContentType
  <2>2. streamType' # <<>>
    BY <2>1
  <2> QED
    BY <1>2, <2>1, <2>2
<1>3. ASSUME NEW what \in {"handle", "stream", "sse"}, Start(what) PROVE StreamOk'
  BY <1>3 DEF Start
<1>4. CASE UNCHANGED <<making, chunks, streamType, set>>
  BY <1>4
<1>5. CASE making' \in {"handle", "reply"} /\ UNCHANGED <<chunks, streamType>> /\ (making' = "handle" => making = "handle")
  BY <1>5
<1>6. CASE RepliesNext
  BY <1>1, <1>2, <1>3, <1>4, <1>5, <1>6
     DEF RepliesNext, SetStatus, OverrideStatus, SetHeader, AddHeader, SetBody, PushEvent, DataLine, IntoResponse, Return
<1> QED
  BY <1>4, <1>6 DEF repliesVars

\* A header that is set: its own label becomes its value, any other stays.
LEMMA HeadedLabel ==
  ASSUME NEW headers, NEW h \in HeaderSets
  PROVE  LET more == Headed(headers, h)
         IN  /\ Label(more) = IF h.valid /\ h.name = "content-type" THEN h.value ELSE Label(headers)
             /\ "content-type" \in DOMAIN more <=>
                  "content-type" \in DOMAIN headers \/ (h.valid /\ h.name = "content-type")
  BY DEF Headed, With, Label

LEMMA HandleIn == RepliesInv /\ [RepliesNext]_repliesVars => HandleOk'
<1> SUFFICES ASSUME RepliesInv, [RepliesNext]_repliesVars PROVE HandleOk'
  OBVIOUS
<1> USE DEF RepliesInv, HandleOk
<1>1. ASSUME NEW h \in HeaderSets, SetHeader(h) PROVE HandleOk'
  <2> DEFINE more == Headed(handle.headers, h)
  <2>1. /\ Label(more) = Asked(h)
        /\ "content-type" \in DOMAIN more <=>
             "content-type" \in DOMAIN handle.headers \/ (h.valid /\ h.name = "content-type")
    BY <1>1, HeadedLabel DEF SetHeader, Asked
  <2> HIDE DEF more
  <2>2. handle' = [status |-> handle.status, headers |-> more, body |-> handle.body] /\ set' = Asked(h) /\ making' = "handle"
    BY <1>1 DEF SetHeader, more
  <2>3. "content-type" \in DOMAIN more => set' # <<>>
    BY <1>1, <2>1, <2>2, RepliesAssumption DEF SetHeader, Asked
  <2> QED
    BY <2>1, <2>2, <2>3
<1>2. ASSUME NEW code \in StatusCodes, SetStatus(code) PROVE HandleOk'
  BY <1>2 DEF SetStatus
<1>3. ASSUME NEW b \in Bodies, SetBody(b) PROVE HandleOk'
  BY <1>3 DEF SetBody
<1>4. ASSUME NEW what \in {"handle", "stream", "sse"}, Start(what) PROVE HandleOk'
  BY <1>4 DEF Start
<1>5. CASE UNCHANGED <<making, handle, set>>
  BY <1>5
<1>6. CASE making' \in {"stream", "reply"}
  BY <1>6
<1>7. CASE RepliesNext
  BY <1>1, <1>2, <1>3, <1>4, <1>5, <1>6, <1>7
     DEF RepliesNext, OverrideStatus, AddHeader, PushChunk, WithContentType, PushEvent, DataLine, IntoResponse, Return
<1> QED
  BY <1>5, <1>7 DEF repliesVars

\* What each way of turning into a response is.
IsReply(r) == \E q : r = [status |-> q.status, headers |-> q.headers, body |-> q.body]

LEMMA BuiltIs ==
  ASSUME NEW status, NEW headers, NEW body
  PROVE  LET r == Built(status, headers, body)
         IN  /\ IsReply(r) /\ r.body = body
             /\ Label(r.headers) = IF "content-type" \in DOMAIN headers THEN headers["content-type"] ELSE TypeOf(body)
<1> DEFINE more == IF "content-type" \in DOMAIN headers \/ TypeOf(body) = <<>> THEN headers
                   ELSE With(headers, "content-type", TypeOf(body))
           r == [status |-> status, body |-> body, headers |-> more]
<1>1. Label(more) = IF "content-type" \in DOMAIN headers THEN headers["content-type"] ELSE TypeOf(body)
  <2> HIDE DEF TypeOf
  <2> QED
    BY DEF With, Label
<1> HIDE DEF more
<1>2. r = [status |-> r.status, headers |-> r.headers, body |-> r.body] /\ r.body = body /\ r.headers = more
  OBVIOUS
<1>3. Built(status, headers, body) = r
  BY DEF Built, more
<1> HIDE DEF r
<1> QED
  BY <1>1, <1>2, <1>3 DEF IsReply

LEMMA PlainIs ==
  ASSUME NEW status, NEW body
  PROVE  IsReply(Plain(status, body)) /\ Plain(status, body).body = body /\ Label(Plain(status, body).headers) = TypeOf(body)
  BY BuiltIs DEF Plain

LEMMA WithHeaderIs ==
  ASSUME NEW r, IsReply(r), NEW name, NEW value
  PROVE  LET q == WithHeader(r, name, value)
         IN  /\ IsReply(q) /\ q.body = r.body
             /\ Label(q.headers) = IF name = "content-type" THEN value ELSE Label(r.headers)
<1> DEFINE more == With(r.headers, name, value)
           q == [status |-> r.status, headers |-> more, body |-> r.body]
<1>1. Label(more) = IF name = "content-type" THEN value ELSE Label(r.headers)
  BY DEF With, Label
<1>2. WithHeader(r, name, value) = q
  BY DEF WithHeader, IsReply
<1> HIDE DEF more
<1>3. IsReply(q) /\ q.body = r.body /\ q.headers = more
  BY DEF IsReply
<1> HIDE DEF q
<1> QED
  BY <1>1, <1>2, <1>3

LEMMA TurnedIs ==
  ASSUME NEW v \in Values
  PROVE  IsReply(Turned(v)) /\ Label(Turned(v).headers) = TypeOf(Turned(v).body)
<1>1. v.is \in {"status", "body", "json", "download", "redirect", "exception"}
  BY RepliesAssumption
<1> HIDE DEF Label
<1>2. CASE v.is = "status"
  BY <1>2, PlainIs DEF Turned
<1>3. CASE v.is = "body"
  BY <1>3, PlainIs DEF Turned
<1>4. CASE v.is = "json"
  <2> DEFINE body == IF v.serializes THEN v.body ELSE SerializationFailed
  <2>1. Turned(v) = Plain(200, body)
    BY <1>4 DEF Turned
  <2> HIDE DEF body
  <2> QED
    BY <2>1, PlainIs
<1>5. CASE v.is = "download"
  <2> DEFINE r == Plain(200, v.body)
  <2>1. Turned(v) = WithHeader(r, "content-disposition", v.filename)
    BY <1>5 DEF Turned
  <2>2. IsReply(r) /\ Label(r.headers) = TypeOf(r.body)
    BY PlainIs
  <2> HIDE DEF r
  <2> QED
    BY <2>1, <2>2, WithHeaderIs
<1>6. CASE v.is = "redirect"
  <2> DEFINE r == Plain(v.status, NoBody)
  <2>1. Turned(v) = WithHeader(r, "location", v.location)
    BY <1>6 DEF Turned
  <2>2. IsReply(r) /\ Label(r.headers) = TypeOf(r.body)
    BY PlainIs
  <2> HIDE DEF r
  <2> QED
    BY <2>1, <2>2, WithHeaderIs
<1>7. CASE v.is = "exception"
  <2> DEFINE body == [kind |-> "Json", text |-> <<ToString(v.status)>>]
             status == Status(v.status)
  <2>1. Turned(v) = Plain(status, body)
    BY <1>7 DEF Turned
  <2> HIDE DEF body, status
  <2> QED
    BY <2>1, PlainIs
<1> QED
  BY <1>1, <1>2, <1>3, <1>4, <1>5, <1>6, <1>7

LEMMA WrittenIs ==
  ASSUME events \in Seq(EventTexts)
  PROVE  /\ IsReply(Written) /\ Label(Written.headers) = <<"text/event-stream">>
         /\ Written.body.text = FlattenSeq(RenderedAll(events))
<1> DEFINE text == FlattenSeq([i \in DOMAIN events |-> Rendered(events[i])])
           body == [kind |-> "Text", text |-> text]
           stream == <<"text/event-stream">>
           still == <<"no-cache">>
           r == Plain(200, body)
           q == WithHeader(r, "content-type", stream)
<1>1. text = FlattenSeq(RenderedAll(events))
  BY DEF RenderedAll
<1> HIDE DEF text
<1>2. body.text = text
  OBVIOUS
<1>3. Written = WithHeader(q, "cache-control", still)
  BY DEF Written, text
<1> HIDE DEF body, stream, still
<1>4. IsReply(r) /\ r.body = body
  BY PlainIs
<1> HIDE DEF r
<1>5. IsReply(q) /\ q.body = body /\ Label(q.headers) = stream
  BY <1>4, WithHeaderIs
<1> HIDE DEF q
<1>6. IsReply(Written) /\ Written.body = body /\ Label(Written.headers) = stream
  BY <1>3, <1>5, WithHeaderIs
<1> QED
  BY <1>1, <1>2, <1>6 DEF stream

OfKind(k) == TypeOf([kind |-> k, text |-> <<>>])

ChunkKinds == {c.kind : c \in {d \in ToSet(chunks) : d.kind # "Empty"}}

LEMMA TypesTell ==
  /\ \A j, k \in Kinds : OfKind(j) = OfKind(k) => j = k
  /\ \A k \in Kinds \ {"Empty"} : OfKind(k) # <<>>
  /\ \A b : b.kind \in Kinds => TypeOf(b) = OfKind(b.kind)
<1>1. \A k \in Kinds :
        OfKind(k) = CASE k = "Empty" -> <<>> [] k = "Text" -> <<"text/plain">> [] k = "Html" -> <<"text/html">>
                      [] k = "Json" -> <<"application/json">> [] k = "Bytes" -> <<"application/octet-stream">>
  BY DEF Kinds, OfKind, TypeOf
<1>2. <<>> # <<"text/plain">> /\ <<>> # <<"text/html">> /\ <<>> # <<"application/json">>
      /\ <<>> # <<"application/octet-stream">>
  OBVIOUS
<1>3. \A a, b \in STRING : <<a>> = <<b>> => a = b
  OBVIOUS
<1>4. \A j, k \in Kinds : OfKind(j) = OfKind(k) => j = k
  BY <1>1, <1>2 DEF Kinds
<1>5. \A k \in Kinds \ {"Empty"} : OfKind(k) # <<>>
  BY <1>1, <1>2 DEF Kinds
<1>6. \A b : b.kind \in Kinds => TypeOf(b) = OfKind(b.kind)
  BY DEF Kinds, OfKind, TypeOf
<1> QED
  BY <1>4, <1>5, <1>6

\* The chunks agree on a content type exactly when they are of one kind.
LEMMA KindsAgree ==
  ASSUME chunks \in Seq(Bodies)
  PROVE  /\ ChunkKinds \subseteq Kinds \ {"Empty"}
         /\ StreamTypes = {OfKind(k) : k \in ChunkKinds}
<1> DEFINE some == {d \in ToSet(chunks) : d.kind # "Empty"}
<1>1. \A d \in some : d.kind \in Kinds \ {"Empty"}
  BY RepliesAssumption DEF ToSet, Kinds
<1> HIDE DEF some
<1>2. \A d \in some : TypeOf(d) = OfKind(d.kind)
  BY <1>1, TypesTell
<1>3. ChunkKinds = {c.kind : c \in some} /\ StreamTypes = {TypeOf(c) : c \in some}
  BY DEF ChunkKinds, StreamTypes, some
<1> HIDE DEF TypeOf
<1>4. {TypeOf(c) : c \in some} = {OfKind(k) : k \in {c.kind : c \in some}}
  BY <1>2
<1> QED
  BY <1>1, <1>3, <1>4

LEMMA StreamedIs ==
  ASSUME chunks \in Seq(Bodies), streamType = <<>> \/ \E h \in HeaderSets : h.name = "content-type" /\ streamType = <<h>>
  PROVE  /\ IsReply(Streamed)
         /\ streamType # <<>> =>
              Label(Streamed.headers) = IF streamType[1].valid THEN streamType[1].value ELSE TypeOf(Streamed.body)
         /\ streamType = <<>> =>
              /\ \A k : ChunkKinds = {k} => Label(Streamed.headers) = OfKind(k)
              /\ (~\E k \in ChunkKinds : ChunkKinds = {k}) => Label(Streamed.headers) = TypeOf(Streamed.body)
<1> DEFINE body == IF Joined = <<>> THEN NoBody ELSE [kind |-> "Bytes", text |-> Joined]
           one == \E t \in StreamTypes : StreamTypes = {t}
           inferred == IF one THEN CHOOSE t \in StreamTypes : TRUE ELSE <<>>
           r == Plain(200, body)
<1>1. Streamed = IF streamType # <<>> THEN [r EXCEPT !.headers = Headed(@, streamType[1])]
                 ELSE IF inferred = <<>> THEN r
                 ELSE WithHeader(r, "content-type", inferred)
  BY DEF Streamed
<1> HIDE DEF body
<1>2. IsReply(r) /\ r.body = body /\ Label(r.headers) = TypeOf(body)
  BY PlainIs
<1> HIDE DEF r, TypeOf
<1>3. ASSUME NEW h \in HeaderSets, h.name = "content-type", streamType = <<h>>
      PROVE  /\ IsReply(Streamed) /\ streamType # <<>> /\ streamType[1] = h
             /\ Label(Streamed.headers) = IF h.valid THEN h.value ELSE TypeOf(Streamed.body)
  <2>1. streamType # <<>> /\ streamType[1] = h
    BY <1>3
  <2> DEFINE more == Headed(r.headers, h)
  <2>2. Label(more) = IF h.valid THEN h.value ELSE TypeOf(body)
    BY <1>2, <1>3, HeadedLabel
  <2> HIDE DEF more
  <2>3. Streamed = [status |-> r.status, headers |-> more, body |-> r.body]
    BY <1>1, <1>2, <2>1 DEF IsReply, more
  <2>4. IsReply(Streamed) /\ Streamed.headers = more /\ Streamed.body = body
    BY <1>2, <2>3 DEF IsReply
  <2> QED
    BY <2>1, <2>2, <2>4
<1>4. ASSUME streamType = <<>>, NEW k, ChunkKinds = {k}
      PROVE  IsReply(Streamed) /\ Label(Streamed.headers) = OfKind(k)
  <2>1. k \in Kinds \ {"Empty"} /\ OfKind(k) # <<>>
    BY <1>4, KindsAgree, TypesTell
  <2>2. StreamTypes = {OfKind(k)}
    BY <1>4, KindsAgree
  <2>3. inferred = OfKind(k)
    BY <2>2
  <2> HIDE DEF inferred, OfKind
  <2> QED
    BY <1>1, <1>2, <1>4, <2>1, <2>3, WithHeaderIs
<1>5. ASSUME streamType = <<>>, ~\E k \in ChunkKinds : ChunkKinds = {k}
      PROVE  IsReply(Streamed) /\ Label(Streamed.headers) = TypeOf(Streamed.body)
  <2>1. ~one
    <3> SUFFICES ASSUME NEW t \in StreamTypes, StreamTypes = {t} PROVE FALSE
      OBVIOUS
    <3> HIDE DEF OfKind
    <3>1. PICK k \in ChunkKinds : t = OfKind(k)
      BY KindsAgree
    <3>2. \A j \in ChunkKinds : OfKind(j) = OfKind(k) /\ j \in Kinds /\ k \in Kinds
      BY <3>1, KindsAgree
    <3>3. ChunkKinds = {k}
      BY <3>1, <3>2, TypesTell
    <3> QED
      BY <1>5, <3>3
  <2>2. inferred = <<>>
    BY <2>1
  <2> HIDE DEF inferred
  <2> QED
    BY <1>1, <1>2, <1>5, <2>2
<1>6. streamType = <<>> => (\E k \in ChunkKinds : ChunkKinds = {k}) \/ IsReply(Streamed)
  BY <1>5
<1> HIDE DEF inferred, OfKind, IsReply
<1>7. IsReply(Streamed)
  BY <1>3, <1>4, <1>6
<1> QED
  BY <1>3, <1>4, <1>5, <1>7

\* What ContentTypeTells says of a response, for the type that was asked for and the chunks.
Tells(r, asked, given, kinds) ==
  IF asked # <<>> THEN Label(r.headers) = asked
  ELSE IF given = <<>> /\ \E k \in kinds : kinds = {k} THEN Label(r.headers) = OfKind(CHOOSE k \in kinds : TRUE)
  ELSE Label(r.headers) = TypeOf(r.body)

LEMMA TellsIs ==
  /\ ContentTypeTells <=> (making = "reply" => Tells(reply[1], set, streamType, ChunkKinds))
  /\ ContentTypeTells' <=> (making' = "reply" => Tells(reply'[1], set', streamType', ChunkKinds'))
  BY DEF ContentTypeTells, Tells, Label, ChunkKinds, OfKind

LEMMA NoChunkKinds == NoStream => ChunkKinds = {} /\ streamType = <<>>
  BY DEF NoStream, ChunkKinds, ToSet

\* What is made tells of itself when it turns into a response.
LEMMA MadeTells ==
  ASSUME RepliesInv, IntoResponse
  PROVE  ReplyOk' /\ ContentTypeTells'
<1> USE DEF RepliesInv
<1> DEFINE r == reply'[1]
<1>1. /\ making \in {"handle", "stream", "sse"} /\ making' = "reply"
      /\ UNCHANGED <<handle, chunks, streamType, events>>
      /\ set' = IF making = "sse" THEN <<"text/event-stream">> ELSE set
      /\ ChunkKinds' = ChunkKinds
  BY DEF IntoResponse, ChunkKinds
<1>2. ASSUME NEW q, IsReply(q), reply' = <<q>>,
             events # <<>> => q.body.text = FlattenSeq(RenderedAll(events)),
             Tells(q, set', streamType', ChunkKinds')
      PROVE  ReplyOk' /\ ContentTypeTells'
  <2>1. reply'[1] = q
    BY <1>2
  <2>2. ContentTypeTells'
    BY <1>2, <2>1, TellsIs
  <2>3. \E p : reply' = <<[status |-> p.status, headers |-> p.headers, body |-> p.body]>>
    BY <1>2 DEF IsReply
  <2> QED
    BY <1>1, <1>2, <2>1, <2>2, <2>3 DEF ReplyOk
<1> HIDE DEF RepliesInv
<1>3. CASE making = "handle"
  <2> DEFINE q == Built(handle.status, handle.headers, handle.body)
  <2>1. reply' = <<q>>
    BY <1>3 DEF IntoResponse
  <2>2. /\ IsReply(q) /\ q.body = handle.body
        /\ Label(q.headers) = IF "content-type" \in DOMAIN handle.headers THEN handle.headers["content-type"] ELSE TypeOf(handle.body)
    BY BuiltIs
  <2> HIDE DEF q, TypeOf
  <2>3. events = <<>> /\ ChunkKinds = {} /\ streamType = <<>> /\ set = Label(handle.headers)
        /\ ("content-type" \in DOMAIN handle.headers => set # <<>>)
    BY <1>3, NoChunkKinds DEF RepliesInv, EventsOk, StreamOk, HandleOk
  <2>4. Tells(q, set', streamType', ChunkKinds')
    BY <1>1, <1>3, <2>2, <2>3 DEF Tells, Label
  <2> QED
    BY <1>2, <2>1, <2>2, <2>3, <2>4
<1>4. CASE making = "sse"
  <2>1. reply' = <<Written>>
    BY <1>4 DEF IntoResponse
  <2>2. /\ IsReply(Written) /\ Label(Written.headers) = <<"text/event-stream">>
        /\ Written.body.text = FlattenSeq(RenderedAll(events))
    BY WrittenIs DEF RepliesInv, EventsOk
  <2> DEFINE q == Written
  <2> HIDE DEF q
  <2>3. set' = <<"text/event-stream">> /\ set' # <<>>
    BY <1>1, <1>4
  <2>4. Tells(q, set', streamType', ChunkKinds')
    BY <2>2, <2>3 DEF Tells, q
  <2> QED
    BY <1>2, <2>1, <2>2, <2>4 DEF q
<1>5. CASE making = "stream"
  <2>1. reply' = <<Streamed>>
    BY <1>5 DEF IntoResponse
  <2>2. /\ events = <<>> /\ chunks \in Seq(Bodies) /\ set' = set
        /\ streamType = <<>> => set = <<>>
        /\ streamType # <<>> => \E h \in HeaderSets : /\ h.name = "content-type" /\ streamType = <<h>>
                                                      /\ set = IF h.valid THEN h.value ELSE <<>>
    BY <1>1, <1>5 DEF RepliesInv, EventsOk, StreamOk
  <2> DEFINE q == Streamed
  <2>3. /\ IsReply(q)
        /\ streamType # <<>> => Label(q.headers) = IF streamType[1].valid THEN streamType[1].value ELSE TypeOf(q.body)
        /\ streamType = <<>> =>
             /\ \A k : ChunkKinds = {k} => Label(q.headers) = OfKind(k)
             /\ (~\E k \in ChunkKinds : ChunkKinds = {k}) => Label(q.headers) = TypeOf(q.body)
    BY <2>2, StreamedIs
  <2> HIDE DEF q, TypeOf, OfKind
  <2>4. Tells(q, set', streamType', ChunkKinds')
    <3>1. CASE streamType # <<>>
      <4>1. PICK h \in HeaderSets : h.name = "content-type" /\ streamType = <<h>> /\ set = IF h.valid THEN h.value ELSE <<>>
        BY <2>2, <3>1
      <4>2. streamType[1] = h /\ h.value # <<>>
        BY <4>1, RepliesAssumption
      <4> QED
        BY <1>1, <2>2, <2>3, <3>1, <4>1, <4>2 DEF Tells
    <3>2. CASE streamType = <<>> /\ \E k \in ChunkKinds : ChunkKinds = {k}
      <4>1. PICK k \in ChunkKinds : ChunkKinds = {k}
        BY <3>2
      <4>2. (CHOOSE j \in ChunkKinds : TRUE) = k
        BY <4>1
      <4> QED
        BY <1>1, <2>2, <2>3, <3>2, <4>1, <4>2 DEF Tells
    <3>3. CASE streamType = <<>> /\ ~\E k \in ChunkKinds : ChunkKinds = {k}
      BY <1>1, <2>2, <2>3, <3>3 DEF Tells
    <3> QED
      BY <3>1, <3>2, <3>3
  <2> QED
    BY <1>2, <2>1, <2>2, <2>3, <2>4 DEF q
<1> QED
  BY <1>1, <1>3, <1>4, <1>5

LEMMA ReplyIn == RepliesInv /\ [RepliesNext]_repliesVars => ReplyOk' /\ ContentTypeTells'
<1> SUFFICES ASSUME RepliesInv, [RepliesNext]_repliesVars PROVE ReplyOk' /\ ContentTypeTells'
  OBVIOUS
<1>1. ASSUME NEW h \in HeaderSets, AddHeader(h) PROVE ReplyOk' /\ ContentTypeTells'
  <2>1. /\ making = "reply" /\ making' = "reply" /\ UNCHANGED <<chunks, streamType, events>> /\ set' = Asked(h)
        /\ ChunkKinds' = ChunkKinds
    BY <1>1 DEF AddHeader, ChunkKinds
  <2>2. PICK r : reply = <<[status |-> r.status, headers |-> r.headers, body |-> r.body]>>
    BY <2>1 DEF RepliesInv, ReplyOk
  <2> DEFINE more == Headed(reply[1].headers, h)
             q == [status |-> r.status, headers |-> more, body |-> r.body]
  <2>3. Label(more) = IF h.valid /\ h.name = "content-type" THEN h.value ELSE Label(reply[1].headers)
    BY HeadedLabel
  <2> HIDE DEF more
  <2>4. reply' = <<q>> /\ reply'[1] = q /\ q.headers = more /\ q.body = reply[1].body
    BY <1>1, <2>2 DEF AddHeader, more
  <2>5. h.value # <<>>
    BY RepliesAssumption
  <2>6. ReplyOk'
    <3>1. \E p : reply' = <<[status |-> p.status, headers |-> p.headers, body |-> p.body]>>
      BY <2>4
    <3> HIDE DEF q
    <3> QED
      BY <2>1, <2>4, <3>1 DEF RepliesInv, ReplyOk
  <2>7. Tells(reply[1], set, streamType, ChunkKinds)
    BY <2>1, TellsIs DEF RepliesInv
  <2> HIDE DEF q, TypeOf, OfKind
  <2>8. Tells(q, set', streamType', ChunkKinds')
    BY <2>1, <2>3, <2>4, <2>5, <2>7 DEF Tells, Asked
  <2> QED
    BY <2>1, <2>4, <2>6, <2>8, TellsIs
<1>2. ASSUME NEW code \in StatusCodes, OverrideStatus(code) PROVE ReplyOk' /\ ContentTypeTells'
  <2>1. /\ making = "reply" /\ making' = "reply" /\ UNCHANGED <<chunks, streamType, events, set>>
        /\ ChunkKinds' = ChunkKinds
    BY <1>2 DEF OverrideStatus, ChunkKinds
  <2>2. PICK r : reply = <<[status |-> r.status, headers |-> r.headers, body |-> r.body]>>
    BY <2>1 DEF RepliesInv, ReplyOk
  <2> DEFINE q == [status |-> code, headers |-> r.headers, body |-> r.body]
  <2>3. reply' = <<q>> /\ reply'[1] = q /\ q.headers = reply[1].headers /\ q.body = reply[1].body
    BY <1>2, <2>2 DEF OverrideStatus
  <2>4. ReplyOk'
    <3>1. \E p : reply' = <<[status |-> p.status, headers |-> p.headers, body |-> p.body]>>
      BY <2>3
    <3> HIDE DEF q
    <3> QED
      BY <2>1, <2>3, <3>1 DEF RepliesInv, ReplyOk
  <2>5. Tells(reply[1], set, streamType, ChunkKinds)
    BY <2>1, TellsIs DEF RepliesInv
  <2> HIDE DEF q, TypeOf, OfKind
  <2>6. Tells(q, set', streamType', ChunkKinds')
    BY <2>1, <2>3, <2>5 DEF Tells
  <2> QED
    BY <2>1, <2>3, <2>4, <2>6, TellsIs
<1>3. ASSUME NEW v \in Values, Return(v) PROVE ReplyOk' /\ ContentTypeTells'
  <2> DEFINE q == Turned(v)
  <2>1. /\ making = "nothing" /\ making' = "reply" /\ UNCHANGED <<chunks, streamType, events, set>>
        /\ reply' = <<q>>
    BY <1>3 DEF Return
  <2>2. IsReply(q) /\ Label(q.headers) = TypeOf(q.body)
    BY TurnedIs
  <2> HIDE DEF q, TypeOf
  <2>3. events = <<>> /\ set = <<>> /\ ChunkKinds = {} /\ ChunkKinds' = ChunkKinds
    BY <2>1, NoChunkKinds DEF RepliesInv, EventsOk, StreamOk, HandleOk, ChunkKinds
  <2>4. reply'[1] = q /\ Tells(q, set', streamType', ChunkKinds')
    BY <2>1, <2>2, <2>3 DEF Tells
  <2>5. ReplyOk'
    BY <2>1, <2>2, <2>3 DEF ReplyOk, IsReply
  <2> QED
    BY <2>1, <2>4, <2>5, TellsIs
<1>4. CASE making' # "reply"
  BY <1>4 DEF ReplyOk, ContentTypeTells
<1>5. CASE UNCHANGED <<making, chunks, streamType, events, reply, set>>
  BY <1>5 DEF RepliesInv, ReplyOk, ContentTypeTells
<1>6. CASE RepliesNext
  BY <1>1, <1>2, <1>3, <1>4, <1>5, <1>6, MadeTells
     DEF RepliesNext, Start, SetStatus, SetHeader, SetBody, PushChunk, WithContentType, PushEvent, DataLine
<1> QED
  BY <1>5, <1>6 DEF repliesVars

LEMMA RepliesInvHolds == RepliesSpec => []RepliesInv
<1>1. RepliesInit => RepliesInv
  BY DEF RepliesInit, NoHandle, RepliesInv, EventsOk, StreamOk, NoStream, HandleOk, Label, ReplyOk, ContentTypeTells
<1>2. RepliesInv /\ [RepliesNext]_repliesVars => RepliesInv'
  <2> SUFFICES ASSUME RepliesInv, [RepliesNext]_repliesVars PROVE RepliesInv'
    OBVIOUS
  <2>1. making' \in {"nothing", "handle", "stream", "sse", "reply"}
    BY DEF RepliesInv, RepliesNext, repliesVars, Start, SetStatus, OverrideStatus, SetHeader, AddHeader, SetBody, PushChunk,
           WithContentType, PushEvent, DataLine, IntoResponse, Return
  <2> QED
    BY <2>1, EventsIn, StreamIn, HandleIn, ReplyIn DEF RepliesInv
<1> QED
  BY <1>1, <1>2, PTL DEF RepliesSpec

LEMMA EventsTold ==
  ASSUME RepliesInv, making = "reply", events # <<>>,
         \A i \in DOMAIN events : \A text \in ToSet(events[i].data) \cup ToSet(events[i].comment) : ~LoneCr(text)
  PROVE  Received(reply[1].body.text) = Meant(events).delivered
<1>1. events \in Seq(EventTexts) /\ reply[1].body.text = FlattenSeq(RenderedAll(events))
  BY DEF RepliesInv, EventsOk, ReplyOk
<1>2. ASSUME NEW i \in 1..Len(events) PROVE Readable(events[i])
  <2>1. i \in DOMAIN events
    BY <1>1
  <2> QED
    BY <2>1 DEF Readable, ToSet
<1>3. ReadAll(Between(Reading), FlattenSeq(RenderedAll(events))) = Between(Meant(events))
  BY <1>1, <1>2, StreamRead
<1>4. Received(reply[1].body.text) = ReadAll(Between(Reading), FlattenSeq(RenderedAll(events))).reading.delivered
  BY <1>1 DEF Received
<1> QED
  BY <1>3, <1>4 DEF Between

\* However a handler makes its response, in whatever order it sets status, headers and body, the
\* events of a stream are received as they were made and the content type is the one asked for
\* last, or that of the body or the chunks (response.rs:16-39, 295-310, 401-508, 577-628).
THEOREM RepliesComeThrough == RepliesSpec => []RepliesArrive
<1>1. RepliesInv => RepliesArrive
  <2>1. RepliesInv => EventsArrive
    BY EventsTold DEF EventsArrive
  <2> QED
    BY <2>1 DEF RepliesInv, RepliesArrive
<1> QED
  BY <1>1, RepliesInvHolds, PTL

-----------------------------------------------------------------------------
(* Uploads: the text of a part. *)

Tokens ==
  {Mark, Dashes, Crlf} \cup {Disposition(p) : p \in Parts} \cup {TypeLine(p) : p \in Parts}
    \cup UNION {ToSet(p.content) : p \in Parts}

LEMMA TokensApart ==
  /\ Mark # Dashes /\ Mark # Crlf /\ Crlf # Dashes
  /\ \A p : /\ Disposition(p) # Mark /\ Disposition(p) # Crlf
            /\ TypeLine(p) # Mark /\ TypeLine(p) # Crlf
<1>1. Mark # Dashes /\ Mark # Crlf /\ Crlf # Dashes
  BY DEF Mark, Dashes, Crlf
<1>2. ASSUME NEW p
      PROVE  /\ Disposition(p) # Mark /\ Disposition(p) # Crlf
             /\ TypeLine(p) # Mark /\ TypeLine(p) # Crlf
  <2>1. Len(Mark) = 1 /\ Len(Crlf) = 1 /\ Len(Disposition(p)) = 3 /\ Len(TypeLine(p)) = 2
    BY DEF Mark, Crlf, Disposition, TypeLine
  <2> QED
    BY <2>1
<1> QED
  BY <1>1, <1>2

\* ab is a and then b.
JoinOf(S, a, b, ab) ==
  /\ ab \in Seq(S) /\ Len(ab) = Len(a) + Len(b) /\ Len(a) \in Nat /\ Len(b) \in Nat
  /\ \A i \in 1..Len(a) : ab[i] = a[i]
  /\ \A j \in 1..Len(b) : ab[Len(a) + j] = b[j]

LEMMA ConcatParts ==
  ASSUME NEW S, NEW a \in Seq(S), NEW b \in Seq(S)
  PROVE  JoinOf(S, a, b, a \o b)
<1> DEFINE m == Len(a)  n == Len(b)  ab == a \o b
<1>1. m \in Nat /\ n \in Nat
  OBVIOUS
<1>2. ab \in Seq(S) /\ Len(ab) = m + n /\ \A i \in 1..m + n : ab[i] = IF i <= m THEN a[i] ELSE b[i - m]
  BY ConcatProperties
<1> HIDE DEF m, n, ab
<1>3. \A i \in 1..m : ab[i] = a[i]
  BY <1>1, <1>2
<1>4. ASSUME NEW j \in 1..n PROVE ab[m + j] = b[j]
  <2>1. m + j \in 1..m + n /\ ~(m + j <= m) /\ (m + j) - m = j
    BY <1>1
  <2> QED
    BY <1>2, <2>1
<1> QED
  BY <1>1, <1>2, <1>3, <1>4 DEF m, n, ab, JoinOf

HeadLen(part) == IF part.mime = <<>> THEN 5 ELSE 7

\* What stands where in the text of a part.
Spelled(part, t) ==
  LET h == HeadLen(part)
      c == Len(part.content)
  IN  /\ t \in Seq(Tokens) /\ Len(t) = h + c + 1 /\ c \in Nat
      /\ t[1] = Mark /\ t[2] = Crlf /\ t[3] = Disposition(part) /\ t[4] = Crlf
      /\ part.mime = <<>> => t[5] = Crlf
      /\ part.mime # <<>> => t[5] = TypeLine(part) /\ t[6] = Crlf /\ t[7] = Crlf
      /\ \A j \in 1..c : t[h + j] = part.content[j]
      /\ t[h + c + 1] = Crlf

LEMMA PartTextIs ==
  ASSUME NEW part \in Parts
  PROVE  Spelled(part, PartText(part))
<1> DEFINE D == Disposition(part)
           A == <<Mark, Crlf, D, Crlf>>
           B == IF part.mime = <<>> THEN <<>> ELSE <<TypeLine(part), Crlf>>
           C == <<Crlf>>
           content == part.content
           c == Len(content)
           S == Tokens
           A1 == A \o B
           A2 == A1 \o C
           A3 == A2 \o content
           A4 == A3 \o C
<1>1. PartText(part) = A4
  BY DEF PartText
<1>2. /\ Mark \in S /\ Crlf \in S /\ D \in S /\ TypeLine(part) \in S
      /\ content \in Seq(S)
  <2>1. content \in Seq(ToSet(content)) /\ ToSet(content) \subseteq S
    BY UploadsAssumption DEF Tokens
  <2>2. content \in Seq(S)
    <3> DEFINE T == ToSet(content)
    <3> HIDE DEF T, S
    <3>1. content \in Seq(T) /\ T \subseteq S
      BY <2>1 DEF T
    <3> QED
      BY <3>1, SeqMonotonic
  <2> QED
    BY <2>2 DEF Tokens
<1> HIDE DEF S, D
<1>3. A \in Seq(S) /\ Len(A) = 4 /\ A[1] = Mark /\ A[2] = Crlf /\ A[3] = D /\ A[4] = Crlf
  BY <1>2
<1>4. C \in Seq(S) /\ Len(C) = 1 /\ C[1] = Crlf
  BY <1>2
<1>5. /\ B \in Seq(S)
      /\ part.mime = <<>> => Len(B) = 0
      /\ part.mime # <<>> => Len(B) = 2 /\ B[1] = TypeLine(part) /\ B[2] = Crlf
  <2>1. CASE part.mime = <<>>
    BY <2>1
  <2>2. CASE part.mime # <<>>
    BY <1>2, <2>2
  <2> QED
    BY <2>1, <2>2
<1>6. c \in Nat
  BY <1>2
<1> HIDE DEF A, B, C, content
<1>7. /\ A1 \in Seq(S) /\ Len(A1) = 4 + Len(B)
      /\ A1[1] = Mark /\ A1[2] = Crlf /\ A1[3] = D /\ A1[4] = Crlf
      /\ part.mime # <<>> => A1[5] = TypeLine(part) /\ A1[6] = Crlf
  <2>0. JoinOf(S, A, B, A1)
    BY <1>3, <1>5, ConcatParts
  <2> HIDE DEF A1
  <2>1. /\ A1 \in Seq(S) /\ Len(A1) = Len(A) + Len(B)
        /\ \A i \in 1..Len(A) : A1[i] = A[i]
        /\ \A j \in 1..Len(B) : A1[Len(A) + j] = B[j]
    BY <2>0 DEF JoinOf
  <2>2. ASSUME part.mime # <<>> PROVE A1[5] = TypeLine(part) /\ A1[6] = Crlf
    <3>1. 1 \in 1..Len(B) /\ 2 \in 1..Len(B) /\ A1[4 + 1] = B[1] /\ A1[4 + 2] = B[2]
      BY <1>3, <1>5, <2>1, <2>2
    <3> QED
      BY <1>5, <2>2, <3>1
  <2>3. Len(A1) \in Nat /\ Len(A1) >= 4
    BY <1>3, <1>5, <2>1
  <2> QED
    BY <1>3, <2>1, <2>2, <2>3
<1> HIDE DEF A1
<1> DEFINE h == HeadLen(part)
<1>8. h \in Nat /\ h >= 5 /\ h = Len(A1) + 1 /\ Len(A1) \in Nat
  <2>1. Len(A1) = 4 + (IF part.mime = <<>> THEN 0 ELSE 2)
    BY <1>5, <1>7
  <2>2. h = IF part.mime = <<>> THEN 5 ELSE 7
    BY DEF HeadLen
  <2> HIDE DEF h
  <2> QED
    BY <2>1, <2>2
<1>9. /\ A2 \in Seq(S) /\ Len(A2) = h
      /\ \A i \in 1..Len(A1) : A2[i] = A1[i]
      /\ A2[h] = Crlf
  <2>0. JoinOf(S, A1, C, A2)
    BY <1>4, <1>7, ConcatParts
  <2> HIDE DEF A2
  <2>1. /\ A2 \in Seq(S) /\ Len(A2) = Len(A1) + Len(C)
        /\ \A i \in 1..Len(A1) : A2[i] = A1[i]
        /\ \A j \in 1..Len(C) : A2[Len(A1) + j] = C[j]
    BY <2>0 DEF JoinOf
  <2> HIDE DEF h
  <2>2. 1 \in 1..Len(C)
    BY <1>4
  <2> QED
    BY <1>4, <1>8, <2>1, <2>2
<1> HIDE DEF A2
<1>10. /\ A3 \in Seq(S) /\ Len(A3) = h + c
       /\ \A i \in 1..h : A3[i] = A2[i]
       /\ \A j \in 1..c : A3[h + j] = content[j]
  <2>0. JoinOf(S, A2, content, A3)
    BY <1>2, <1>9, ConcatParts DEF content
  <2> HIDE DEF A3
  <2>1. /\ A3 \in Seq(S) /\ Len(A3) = Len(A2) + Len(content)
        /\ \A i \in 1..Len(A2) : A3[i] = A2[i]
        /\ \A j \in 1..Len(content) : A3[Len(A2) + j] = content[j]
    BY <2>0 DEF JoinOf
  <2> QED
    BY <1>9, <2>1 DEF c
<1> HIDE DEF A3, c
<1>11. /\ A4 \in Seq(S) /\ Len(A4) = h + c + 1
       /\ \A i \in 1..h + c : A4[i] = A3[i]
       /\ A4[h + c + 1] = Crlf
  <2>0. JoinOf(S, A3, C, A4)
    BY <1>4, <1>10, ConcatParts
  <2> HIDE DEF A4
  <2>1. /\ A4 \in Seq(S) /\ Len(A4) = Len(A3) + Len(C)
        /\ \A i \in 1..Len(A3) : A4[i] = A3[i]
        /\ \A j \in 1..Len(C) : A4[Len(A3) + j] = C[j]
    BY <2>0 DEF JoinOf
  <2> HIDE DEF h
  <2>2. 1 \in 1..Len(C)
    BY <1>4
  <2> QED
    BY <1>4, <1>6, <1>8, <1>10, <2>1, <2>2
<1> DEFINE t == A4
<1> HIDE DEF A4, h
<1>12. \A i \in 1..h : t[i] = A2[i]
  BY <1>6, <1>8, <1>10, <1>11
<1>13. \A j \in 1..c : t[h + j] = content[j]
  BY <1>6, <1>8, <1>10, <1>11
<1>14. /\ t[1] = Mark /\ t[2] = Crlf /\ t[3] = D /\ t[4] = Crlf
       /\ part.mime = <<>> => t[5] = Crlf
       /\ part.mime # <<>> => t[5] = TypeLine(part) /\ t[6] = Crlf /\ t[7] = Crlf
  <2>1. \A i \in 1..Len(A1) : t[i] = A1[i]
    BY <1>8, <1>9, <1>12
  <2>2. t[h] = Crlf
    BY <1>8, <1>9, <1>12
  <2>3. t[1] = Mark /\ t[2] = Crlf /\ t[3] = D /\ t[4] = Crlf
    BY <1>7, <1>8, <2>1
  <2>4. CASE part.mime = <<>>
    <3>1. h = 5
      BY <2>4 DEF HeadLen, h
    <3> QED
      BY <2>2, <2>3, <2>4, <3>1
  <2>5. CASE part.mime # <<>>
    <3>1. h = 7 /\ 5 \in 1..Len(A1) /\ 6 \in 1..Len(A1)
      BY <1>8, <2>5 DEF HeadLen, h
    <3> QED
      BY <1>7, <2>1, <2>2, <2>3, <2>5, <3>1
  <2> QED
    BY <2>4, <2>5
<1>15. t \in Seq(S) /\ Len(t) = h + c + 1 /\ t[h + c + 1] = Crlf
  BY <1>11
<1> HIDE DEF t
<1> QED
  BY <1>1, <1>6, <1>13, <1>14, <1>15 DEF Spelled, h, c, content, S, D, t

LEMMA OneMark ==
  ASSUME NEW part \in Parts, ~HasMark(part)
  PROVE  LET t == PartText(part)
         IN  /\ t \in Seq(Tokens) /\ Len(t) \in Nat /\ Len(t) >= 6 /\ t[2] = Crlf
             /\ \A j \in 1..Len(t) : t[j] = Mark <=> j = 1
<1> DEFINE t == PartText(part)
           h == HeadLen(part)
           c == Len(part.content)
<1>1. Spelled(part, t)
  BY PartTextIs
<1> HIDE DEF t
<1>2. /\ t \in Seq(Tokens) /\ Len(t) = h + c + 1 /\ c \in Nat
      /\ t[1] = Mark /\ t[2] = Crlf /\ t[3] = Disposition(part) /\ t[4] = Crlf
      /\ part.mime = <<>> => t[5] = Crlf
      /\ part.mime # <<>> => t[5] = TypeLine(part) /\ t[6] = Crlf /\ t[7] = Crlf
      /\ \A j \in 1..c : t[h + j] = part.content[j]
      /\ t[h + c + 1] = Crlf
  BY <1>1 DEF Spelled
<1>3. h = IF part.mime = <<>> THEN 5 ELSE 7
  BY DEF HeadLen
<1>4. \A j \in 1..c : part.content[j] # Mark
  BY DEF HasMark
<1> HIDE DEF h, c
<1>5. ASSUME NEW j \in 1..Len(t), j # 1 PROVE t[j] # Mark
  <2>1. CASE j <= h
    <3>1. CASE part.mime = <<>>
      <4>1. j \in {2, 3, 4, 5}
        BY <1>3, <1>5, <2>1, <3>1
      <4> QED
        BY <1>2, <3>1, <4>1, TokensApart
    <3>2. CASE part.mime # <<>>
      <4>1. j \in {2, 3, 4, 5, 6, 7}
        BY <1>3, <1>5, <2>1, <3>2
      <4> QED
        BY <1>2, <3>2, <4>1, TokensApart
    <3> QED
      BY <3>1, <3>2
  <2>2. CASE j > h /\ j # h + c + 1
    <3>1. j - h \in 1..c /\ h + (j - h) = j
      BY <1>2, <1>3, <2>2
    <3> QED
      BY <1>2, <1>4, <3>1
  <2>3. CASE j = h + c + 1
    BY <1>2, <2>3, TokensApart
  <2> QED
    BY <1>2, <1>3, <2>1, <2>2, <2>3
<1> QED
  BY <1>2, <1>3, <1>5 DEF t

-----------------------------------------------------------------------------
(* Uploads: the payload. *)

\* at[k] is where the k-th part begins, and the last of at where the parts end.
Layout(ps, text, at) ==
  LET n == Len(ps)
  IN  /\ at \in [1..n + 1 -> Nat] /\ at[1] = 1
      /\ \A j, k \in 1..n + 1 : j < k => at[j] < at[k]
      /\ \A k \in 1..n : at[k + 1] = at[k] + Len(PartText(ps[k]))
      /\ \A k \in 1..n : \A j \in 1..Len(PartText(ps[k])) : text[at[k] + j - 1] = PartText(ps[k])[j]
      /\ (\A k \in 1..n : ~HasMark(ps[k])) =>
           \A i \in 1..at[n + 1] - 1 : text[i] = Mark <=> \E k \in 1..n : i = at[k]

\* What comes behind the parts does not change where they are.
LEMMA LayoutKept ==
  ASSUME NEW ps \in Seq(Parts), NEW text, NEW at, Layout(ps, text, at),
         NEW other, \A i \in 1..at[Len(ps) + 1] - 1 : other[i] = text[i]
  PROVE  Layout(ps, other, at)
<1> DEFINE n == Len(ps)
<1>1. n \in Nat /\ n + 1 \in 1..n + 1
  OBVIOUS
<1>0. ASSUME NEW k \in 1..n PROVE ps[k] \in Parts /\ Len(PartText(ps[k])) \in Nat
  <2>1. ps[k] \in Parts
    OBVIOUS
  <2> QED
    BY <2>1, PartTextIs DEF Spelled
<1>2. /\ at \in [1..n + 1 -> Nat] /\ at[1] = 1
      /\ \A j, k \in 1..n + 1 : j < k => at[j] < at[k]
      /\ \A k \in 1..n : at[k + 1] = at[k] + Len(PartText(ps[k]))
      /\ \A k \in 1..n : \A j \in 1..Len(PartText(ps[k])) : text[at[k] + j - 1] = PartText(ps[k])[j]
      /\ (\A k \in 1..n : ~HasMark(ps[k])) =>
           \A i \in 1..at[n + 1] - 1 : text[i] = Mark <=> \E k \in 1..n : i = at[k]
  BY DEF Layout
<1> HIDE DEF n
<1>3. ASSUME NEW k \in 1..n, NEW j \in 1..Len(PartText(ps[k]))
      PROVE  other[at[k] + j - 1] = PartText(ps[k])[j]
  <2> DEFINE t == PartText(ps[k])
  <2>2. Len(t) \in Nat
    BY <1>0
  <2>3. k \in 1..n + 1 /\ k + 1 \in 1..n + 1
    BY <1>1
  <2>4. at[k] >= 1 /\ at[k] \in Nat /\ at[k + 1] \in Nat /\ at[n + 1] \in Nat
    <3>1. 1 \in 1..n + 1 /\ (k = 1 \/ 1 < k)
      BY <1>1
    <3>2. k = 1 \/ at[1] < at[k]
      BY <1>2, <2>3, <3>1
    <3> QED
      BY <1>1, <1>2, <2>3, <3>2
  <2>5. at[k + 1] <= at[n + 1]
    <3> DEFINE b == k + 1
               d == n + 1
    <3>1. b \in 1..n + 1 /\ d \in 1..n + 1 /\ (b = d \/ b < d)
      BY <1>1
    <3>2. \A x, y \in 1..n + 1 : x < y => at[x] < at[y]
      BY <1>2
    <3>3. at[b] \in Nat /\ at[d] \in Nat
      BY <2>4
    <3> HIDE DEF b, d
    <3>4. b = d \/ at[b] < at[d]
      BY <3>1, <3>2
    <3>5. at[b] <= at[d]
      BY <3>3, <3>4
    <3> QED
      BY <3>5 DEF b, d
  <2> HIDE DEF t
  <2>6. at[k + 1] = at[k] + Len(t) /\ j \in 1..Len(t)
    BY <1>2 DEF t
  <2> DEFINE a == at[k]  b == at[k + 1]  e == at[n + 1]  l == Len(t)
  <2>7. a >= 1 /\ a \in Nat /\ b \in Nat /\ e \in Nat /\ b <= e /\ b = a + l /\ l \in Nat /\ j \in 1..l
    BY <2>2, <2>4, <2>5, <2>6
  <2>8. text[a + j - 1] = t[j] /\ \A i \in 1..e - 1 : other[i] = text[i]
    BY <1>1, <1>2 DEF t, n
  <2> HIDE DEF a, b, e, l
  <2>9. a + j - 1 \in 1..e - 1
    BY <2>7
  <2>10. other[a + j - 1] = t[j]
    BY <2>8, <2>9
  <2> QED
    BY <2>10 DEF a, t
<1>4. (\A k \in 1..n : ~HasMark(ps[k])) =>
        \A i \in 1..at[n + 1] - 1 : other[i] = Mark <=> \E k \in 1..n : i = at[k]
  <2> DEFINE e == at[n + 1]
  <2>1. \A i \in 1..e - 1 : other[i] = text[i]
    BY DEF n
  <2>2. (\A k \in 1..n : ~HasMark(ps[k])) => \A i \in 1..e - 1 : text[i] = Mark <=> \E k \in 1..n : i = at[k]
    BY <1>2
  <2> HIDE DEF e
  <2> QED
    BY <2>1, <2>2 DEF e
<1> QED
  BY <1>2, <1>3, <1>4 DEF Layout, n

LEMMA LayoutStarts == Layout(<<>>, <<>>, <<1>>)
  BY DEF Layout

LEMMA LayoutGrows ==
  ASSUME NEW ps \in Seq(Parts), NEW text \in Seq(Tokens), NEW at, Layout(ps, text, at),
         Len(text) = at[Len(ps) + 1] - 1, NEW part \in Parts
  PROVE  \E more : /\ Layout(Append(ps, part), text \o PartText(part), more)
                   /\ Len(text \o PartText(part)) = more[Len(ps) + 2] - 1
<1> DEFINE n == Len(ps)
           t == PartText(part)
           l == Len(t)
           e == at[n + 1]
           all == Append(ps, part)
           both == text \o t
           more == [k \in 1..n + 2 |-> IF k <= n + 1 THEN at[k] ELSE e + l]
<1>1. n \in Nat /\ t \in Seq(Tokens) /\ l \in Nat /\ l >= 6
  <2>1. Spelled(part, t)
    BY PartTextIs
  <2> HIDE DEF t
  <2>2. t \in Seq(Tokens) /\ Len(t) = HeadLen(part) + Len(part.content) + 1 /\ Len(part.content) \in Nat
    BY <2>1 DEF Spelled
  <2>3. HeadLen(part) \in Nat /\ HeadLen(part) >= 5
    BY DEF HeadLen
  <2> QED
    BY <2>2, <2>3
<1>2. Layout(ps, both, at) /\ JoinOf(Tokens, text, t, both)
  <2>1. JoinOf(Tokens, text, t, both)
    BY <1>1, ConcatParts
  <2>2. \A i \in 1..at[Len(ps) + 1] - 1 : both[i] = text[i]
    BY <2>1 DEF JoinOf
  <2> HIDE DEF both
  <2> QED
    BY <2>1, <2>2, LayoutKept
<1>3. Len(all) = n + 1 /\ (\A k \in 1..n : all[k] = ps[k]) /\ all[n + 1] = part
  BY <1>1, AppendProperties
<1> HIDE DEF n, t, all, both
<1>4. /\ at \in [1..n + 1 -> Nat] /\ at[1] = 1
      /\ \A j, k \in 1..n + 1 : j < k => at[j] < at[k]
      /\ \A k \in 1..n : at[k + 1] = at[k] + Len(PartText(ps[k]))
      /\ \A k \in 1..n : \A j \in 1..Len(PartText(ps[k])) : both[at[k] + j - 1] = PartText(ps[k])[j]
      /\ (\A k \in 1..n : ~HasMark(ps[k])) =>
           \A i \in 1..at[n + 1] - 1 : both[i] = Mark <=> \E k \in 1..n : i = at[k]
  BY <1>2 DEF Layout, n
<1>5. /\ e \in Nat /\ e >= 1 /\ Len(text) = e - 1 /\ Len(both) = e - 1 + l
      /\ \A j \in 1..l : both[e - 1 + j] = t[j]
  <2>1. e \in Nat /\ Len(text) = e - 1 /\ Len(text) \in Nat
    BY <1>1, <1>4 DEF n
  <2> HIDE DEF e, l
  <2>2. Len(both) = Len(text) + Len(t) /\ \A j \in 1..Len(t) : both[Len(text) + j] = t[j]
    BY <1>2 DEF JoinOf
  <2> QED
    BY <2>1, <2>2, SMTT(30) DEF l
<1>6. /\ \A k \in 1..n + 1 : more[k] = at[k]
      /\ more[n + 2] = e + l /\ more[n + 1] = e
  BY <1>1
<1>7. more \in [1..n + 2 -> Nat] /\ more[1] = 1
  <2>1. e + l \in Nat
    <3> HIDE DEF e, l
    <3> QED
      BY <1>1, <1>5
  <2>2. 1 \in 1..n + 1
    BY <1>1
  <2> QED
    BY <1>1, <1>4, <2>1, <2>2
<1> HIDE DEF e, l, more
<1>8. ASSUME NEW j \in 1..n + 2, NEW k \in 1..n + 2, j < k PROVE more[j] < more[k]
  <2>1. j \in 1..n + 1
    BY <1>1, <1>8
  <2>2. CASE k \in 1..n + 1
    BY <1>4, <1>6, <1>8, <2>1, <2>2
  <2>3. CASE k = n + 2
    <3>1. j = n + 1 \/ (j < n + 1 /\ n + 1 \in 1..n + 1)
      BY <1>1, <2>1
    <3>2. at[j] \in Nat /\ at[j] <= e
      BY <1>4, <1>5, <2>1, <3>1 DEF e
    <3> QED
      BY <1>1, <1>5, <1>6, <2>1, <2>3, <3>2
  <2> QED
    BY <1>1, <2>2, <2>3
<1>9. ASSUME NEW k \in 1..n + 1
      PROVE  /\ more[k + 1] = more[k] + Len(PartText(all[k]))
             /\ \A j \in 1..Len(PartText(all[k])) : both[more[k] + j - 1] = PartText(all[k])[j]
  <2>1. CASE k \in 1..n
    <3>1. k + 1 \in 1..n + 1 /\ all[k] = ps[k]
      BY <1>1, <1>3, <2>1
    <3> QED
      BY <1>4, <1>6, <2>1, <3>1, SMTT(30)
  <2>2. CASE k = n + 1
    <3>1. all[k] = part /\ PartText(part) = t /\ Len(t) = l /\ more[k] = e /\ more[k + 1] = e + l
      <4>1. k + 1 = n + 2
        BY <1>1, <2>2
      <4> QED
        BY <1>3, <1>6, <2>2, <4>1 DEF t, l
    <3>2. ASSUME NEW j \in 1..l PROVE both[e + j - 1] = t[j]
      <4>1. e + j - 1 = e - 1 + j
        BY <1>1, <1>5
      <4> QED
        BY <1>5, <4>1
    <3> QED
      BY <3>1, <3>2
  <2>3. k \in 1..n \/ k = n + 1
    BY <1>1
  <2> QED
    BY <2>1, <2>2, <2>3
<1>10. ASSUME \A k \in 1..n + 1 : ~HasMark(all[k]), NEW i \in 1..more[n + 2] - 1
       PROVE  both[i] = Mark <=> \E k \in 1..n + 1 : i = more[k]
  <2>1. (\A k \in 1..n : ~HasMark(ps[k])) /\ ~HasMark(part)
    <3>1. \A k \in 1..n : k \in 1..n + 1 /\ all[k] = ps[k]
      BY <1>1, <1>3
    <3>2. n + 1 \in 1..n + 1
      BY <1>1
    <3> QED
      BY <1>3, <1>10, <3>1, <3>2
  <2>2. i \in Nat /\ i >= 1 /\ i <= e + l - 1
    BY <1>1, <1>5, <1>6
  <2>3. CASE i <= e - 1
    <3>1. i \in 1..e - 1 /\ i # e
      BY <1>5, <2>2, <2>3
    <3>2. both[i] = Mark <=> \E k \in 1..n : i = at[k]
      BY <1>4, <2>1, <3>1 DEF e
    <3>3. (\E k \in 1..n : i = at[k]) <=> \E k \in 1..n + 1 : i = more[k]
      <4>1. \A k \in 1..n + 1 : k \in 1..n \/ k = n + 1
        BY <1>1
      <4>2. \A k \in 1..n : k \in 1..n + 1
        BY <1>1
      <4> QED
        BY <1>6, <3>1, <4>1, <4>2
    <3> QED
      BY <3>2, <3>3
  <2>4. CASE i > e - 1
    <3> DEFINE j == i - (e - 1)
    <3>1. j \in 1..l /\ i = e - 1 + j /\ (j = 1 <=> i = e)
      BY <1>1, <1>5, <2>2, <2>4
    <3> HIDE DEF j
    <3>2. both[i] = Mark <=> j = 1
      <4>1. t[j] = Mark <=> j = 1
        BY <2>1, <3>1, OneMark DEF t, l
      <4> QED
        BY <1>5, <3>1, <4>1
    <3>3. (\E k \in 1..n + 1 : i = more[k]) <=> i = e
      <4>1. ASSUME NEW k \in 1..n + 1, i = more[k] PROVE i = e
        <5>1. k = n + 1 \/ (k < n + 1 /\ n + 1 \in 1..n + 1)
          BY <1>1
        <5>2. at[k] \in Nat /\ (k < n + 1 => at[k] < e)
          BY <1>4, <5>1 DEF e
        <5> QED
          BY <1>5, <1>6, <2>2, <2>4, <4>1, <5>1, <5>2
      <4>2. n + 1 \in 1..n + 1
        BY <1>1
      <4> QED
        BY <1>6, <4>1, <4>2
    <3> QED
      BY <3>1, <3>2, <3>3
  <2> QED
    BY <1>5, <2>2, <2>3, <2>4
<1>11. Layout(all, both, more)
  <2>1. (n + 1) + 1 = n + 2
    BY <1>1
  <2> QED
    BY <1>3, <1>7, <1>8, <1>9, <1>10, <2>1, SMTT(30) DEF Layout
<1>12. Len(both) = more[n + 2] - 1
  BY <1>1, <1>5, <1>6
<1> QED
  BY <1>11, <1>12 DEF all, both, t, n

-----------------------------------------------------------------------------
(* Uploads: the markers. *)

Rising(at, m) == at \in [1..m -> Nat] /\ \A j, k \in 1..m : j < k => at[j] < at[k]

FirstOf(at, k) == {at[j] : j \in 1..k}

LEMMA RisingCount ==
  ASSUME NEW m \in Nat, NEW at, Rising(at, m), NEW k \in 0..m
  PROVE  IsFiniteSet(FirstOf(at, k)) /\ Cardinality(FirstOf(at, k)) = k
<1> DEFINE Good(j) == IsFiniteSet(FirstOf(at, j)) /\ Cardinality(FirstOf(at, j)) = j
           S == {j \in Nat : j <= m => Good(j)}
<1>1. 0 \in S
  <2>1. FirstOf(at, 0) = {}
    BY DEF FirstOf
  <2> QED
    BY <2>1, FS_EmptySet
<1>2. ASSUME NEW j \in S PROVE j + 1 \in S
  <2> SUFFICES ASSUME j + 1 <= m PROVE Good(j + 1)
    OBVIOUS
  <2>1. j \in Nat /\ Good(j) /\ j + 1 \in 1..m
    OBVIOUS
  <2>2. FirstOf(at, j + 1) = FirstOf(at, j) \cup {at[j + 1]}
    <3>1. \A i \in 1..j + 1 : i \in 1..j \/ i = j + 1
      BY <2>1
    <3>2. \A i \in 1..j : i \in 1..j + 1
      BY <2>1
    <3>3. j + 1 \in 1..j + 1
      BY <2>1
    <3> QED
      BY <3>1, <3>2, <3>3 DEF FirstOf
  <2>3. at[j + 1] \notin FirstOf(at, j)
    <3>1. \A i \in 1..j : i \in 1..m /\ i < j + 1
      BY <2>1
    <3>2. \A i \in 1..j : at[i] < at[j + 1] /\ at[i] \in Nat /\ at[j + 1] \in Nat
      BY <2>1, <3>1 DEF Rising
    <3> QED
      BY <3>2 DEF FirstOf
  <2> QED
    BY <2>1, <2>2, <2>3, FS_AddElement
<1>3. S = Nat
  <2> HIDE DEF S
  <2>1. S \subseteq Nat
    BY DEF S
  <2> QED
    BY <1>1, <1>2, <2>1, EveryNumber
<1>4. \A j \in Nat : j <= m => Good(j)
  BY <1>3
<1> QED
  BY <1>4

LEMMA MarksAre ==
  ASSUME payload \in Seq(Tokens), NEW m \in Nat, NEW at, Rising(at, m),
         \A k \in 1..m : at[k] \in 1..Len(payload),
         \A i \in 1..Len(payload) : payload[i] = Mark <=> \E k \in 1..m : i = at[k]
  PROVE  Marks = [k \in 1..m |-> at[k]]
<1> DEFINE L == Len(payload)
<1>1. L \in Nat /\ DOMAIN payload = 1..L
  OBVIOUS
<1>2. /\ at \in [1..m -> Nat] /\ \A j, k \in 1..m : j < k => at[j] < at[k]
      /\ \A k \in 1..m : at[k] \in 1..L
      /\ \A i \in 1..L : payload[i] = Mark <=> \E k \in 1..m : i = at[k]
  BY DEF Rising
<1> HIDE DEF L
<1>3. ASSUME NEW k \in 1..m PROVE MarksTo(at[k]) = FirstOf(at, k) /\ Cardinality(MarksTo(at[k])) = k
  <2> DEFINE e == at[k]
  <2>1. e \in 1..L /\ \A j \in 1..e : j \in 1..L
    BY <1>1, <1>2
  <2>2. \A j \in 1..k : j \in 1..m /\ (j = k \/ j < k)
    OBVIOUS
  <2>3. ASSUME NEW j \in 1..k PROVE at[j] \in 1..e
    BY <1>1, <1>2, <2>2
  <2>4. ASSUME NEW j \in 1..m, at[j] \in 1..e PROVE j \in 1..k
    <3>1. j \in 1..k \/ k < j
      OBVIOUS
    <3>2. k < j => e < at[j]
      BY <1>2
    <3>3. e \in Nat /\ at[j] \in Nat /\ at[j] <= e
      BY <1>2, <2>4
    <3> QED
      BY <3>1, <3>2, <3>3
  <2> HIDE DEF e
  <2>5. MarksTo(e) = FirstOf(at, k)
    <3>1. \A i \in 1..e : payload[i] = Mark <=> \E j \in 1..m : i = at[j]
      BY <1>2, <2>1
    <3>2. \A i \in MarksTo(e) : i \in FirstOf(at, k)
      BY <2>4, <3>1 DEF MarksTo, FirstOf
    <3>3. \A i \in FirstOf(at, k) : i \in MarksTo(e)
      BY <2>2, <2>3, <3>1 DEF MarksTo, FirstOf
    <3> QED
      BY <3>2, <3>3
  <2>6. k \in 0..m
    OBVIOUS
  <2> QED
    BY <2>5, <2>6, RisingCount DEF e
<1>4. Cardinality(MarksTo(L)) = m
  <2>1. MarksTo(L) = FirstOf(at, m)
    BY <1>2 DEF MarksTo, FirstOf
  <2>2. m \in 0..m
    OBVIOUS
  <2> QED
    BY <2>1, <2>2, RisingCount
<1>5. ASSUME NEW k \in 1..m
      PROVE  (CHOOSE i \in 1..L : payload[i] = Mark /\ Cardinality(MarksTo(i)) = k) = at[k]
  <2>1. at[k] \in 1..L /\ payload[at[k]] = Mark /\ Cardinality(MarksTo(at[k])) = k
    BY <1>2, <1>3
  <2>2. ASSUME NEW i \in 1..L, payload[i] = Mark, Cardinality(MarksTo(i)) = k PROVE i = at[k]
    <3>1. PICK j \in 1..m : i = at[j]
      BY <1>2, <2>2
    <3>2. Cardinality(MarksTo(i)) = j
      BY <1>3, <3>1
    <3> QED
      BY <2>2, <3>1, <3>2
  <2> QED
    BY <2>1, <2>2
<1>6. Marks = [k \in 1..m |-> CHOOSE i \in 1..L : payload[i] = Mark /\ Cardinality(MarksTo(i)) = k]
  BY <1>1, <1>4 DEF Marks, L
<1> QED
  BY <1>5, <1>6

-----------------------------------------------------------------------------
(* Uploads: a section. *)

\* The text of a part without the marker, the line end behind it and the last one.
SectionText(t) == [j \in 1..Len(t) - 3 |-> t[j + 2]]

LEMMA EndsTaken ==
  ASSUME NEW raw \in Seq(Tokens), NEW t \in Seq(Tokens), Len(t) \in Nat, Len(t) >= 6, Len(raw) = Len(t) - 1,
         \A j \in 1..Len(raw) : raw[j] = t[j + 1], t[2] = Crlf, t[Len(t)] = Crlf
  PROVE  WithoutSuffix(WithoutPrefix(raw)) = SectionText(t)
<1> DEFINE l == Len(t)
           r == Len(raw)
           rest == Tail(raw)
           all == Front(rest)
<1>1. l \in Nat /\ l >= 6 /\ r = l - 1 /\ r \in Nat /\ 1 \in 1..r
  OBVIOUS
<1>2. raw # <<>> /\ raw[1] = Crlf
  BY <1>1
<1>3. rest \in Seq(Tokens) /\ Len(rest) = r - 1 /\ \A j \in 1..r - 1 : rest[j] = raw[j + 1]
  BY <1>1, <1>2, HeadTailProperties
<1>4. WithoutPrefix(raw) = rest
  BY <1>2 DEF WithoutPrefix
<1> HIDE DEF l, rest
<1>5. Len(rest) = l - 2 /\ l - 2 \in 1..l - 2 /\ rest # <<>>
  BY <1>1, <1>3
<1>6. \A j \in 1..l - 2 : rest[j] = t[j + 2]
  <2>1. ASSUME NEW j \in 1..l - 2 PROVE rest[j] = t[j + 2]
    <3>1. j \in 1..r - 1 /\ j + 1 \in 1..r /\ (j + 1) + 1 = j + 2
      BY <1>1
    <3> QED
      BY <1>3, <3>1
  <2> QED
    BY <2>1
<1>7. rest[l - 2] = Crlf
  <2>1. (l - 2) + 2 = l
    BY <1>1
  <2> QED
    BY <1>5, <1>6, <2>1 DEF l
<1>8. WithoutSuffix(rest) = all
  BY <1>5, <1>7 DEF WithoutSuffix, Last
<1>9. all = SubSeq(rest, 1, l - 3)
  <2>1. Len(rest) - 1 = l - 3
    BY <1>1, <1>5
  <2> QED
    BY <2>1 DEF Front
<1>10. all = [j \in 1..l - 3 |-> rest[j]]
  <2>1. l - 3 \in Nat /\ (l - 3) + 1 - 1 = l - 3 /\ \A j \in 1..l - 3 : 1 + j - 1 = j
    BY <1>1
  <2> QED
    BY <1>3, <1>5, <1>9, <2>1 DEF SubSeq
<1>11. \A j \in 1..l - 3 : rest[j] = t[j + 2]
  BY <1>1, <1>6
<1> QED
  BY <1>4, <1>8, <1>10, <1>11 DEF SectionText, l

\* What a section of a part is read as.
ReadAs(part, s) ==
  /\ Seams(s) # {}
  /\ HeadersReadable(s)
  /\ FieldOf(s) = part.field
  /\ FilenameOf(s) = IF part.filename = <<>> THEN <<>> ELSE <<part.filename[1]>>
  /\ MimeOf(s) = part.mime
  /\ Content(s) = part.content

\* The lines of a part end at g, and its content begins behind g + 1.
HeadAt(part, s, g) ==
  /\ g \in {2, 4} /\ s \in Seq(Tokens) /\ Len(part.content) \in Nat
  /\ Len(s) = g + 1 + Len(part.content)
  /\ g = 2 <=> part.mime = <<>>
  /\ s[1] = Disposition(part) /\ s[g] = Crlf /\ s[g + 1] = Crlf
  /\ g = 4 => s[2] = Crlf /\ s[3] = TypeLine(part)
  /\ \A j \in 1..Len(part.content) : s[g + 1 + j] = part.content[j]

LEMMA FirstSeam ==
  ASSUME NEW part, NEW s, NEW g, HeadAt(part, s, g)
  PROVE  g \in Seams(s) /\ HeaderEnd(s) = g
<1> DEFINE c == Len(part.content)
           D == Disposition(part)
           T == TypeLine(part)
           l == Len(s)
<1>1. g \in {2, 4} /\ c \in Nat /\ l = g + 1 + c
  BY DEF HeadAt
<1>2. /\ s[1] = D /\ s[g] = Crlf /\ s[g + 1] = Crlf
      /\ g = 4 => s[2] = Crlf /\ s[3] = T
  BY DEF HeadAt
<1>3. D # Crlf /\ T # Crlf
  BY TokensApart
<1>4. Seams(s) = {i \in 1..(l - 1) : s[i] = Crlf /\ s[i + 1] = Crlf}
  BY DEF Seams
<1> HIDE DEF c, D, T, l
<1>5. g \in 1..(l - 1)
  BY <1>1
<1>6. ASSUME NEW i \in 1..(l - 1), s[i] = Crlf, s[i + 1] = Crlf PROVE g <= i
  <2>1. i \in Nat /\ i >= 1
    BY <1>1
  <2>2. i # 1
    BY <1>2, <1>3, <1>6
  <2>3. CASE g = 2
    BY <2>1, <2>2, <2>3
  <2>4. CASE g = 4
    <3>1. i # 3
      BY <1>2, <1>3, <1>6, <2>4
    <3>2. i # 2
      <4>1. i = 2 => s[3] = Crlf
        BY <1>6
      <4> QED
        BY <1>2, <1>3, <2>4, <4>1
    <3> QED
      BY <2>1, <2>2, <2>4, <3>1, <3>2
  <2> QED
    BY <1>1, <2>3, <2>4
<1>7. g \in Seams(s) /\ \A i \in Seams(s) : g <= i /\ i \in Int
  BY <1>1, <1>2, <1>4, <1>5, <1>6
<1>8. g \in Int
  BY <1>1
<1>9. (CHOOSE x \in Seams(s) : \A y \in Seams(s) : x <= y) = g
  <2>1. ASSUME NEW x \in Seams(s), \A y \in Seams(s) : x <= y PROVE x = g
    BY <1>7, <1>8, <2>1
  <2> QED
    BY <1>7, <2>1
<1> QED
  BY <1>7, <1>9 DEF HeaderEnd, Min

LEMMA LinesOf ==
  ASSUME NEW part, NEW s, NEW g, HeadAt(part, s, g)
  PROVE  LET lines == HeaderLines(s)
         IN  /\ lines # <<>> /\ Len(lines) = g - 1 /\ DOMAIN lines = 1..g - 1
             /\ lines[1] = Disposition(part)
             /\ g = 4 => lines[2] = Crlf /\ lines[3] = TypeLine(part)
<1> DEFINE c == Len(part.content)
           l == Len(s)
           h == g - 1
           lines == SubSeq(s, 1, h)
<1>1. g \in {2, 4} /\ c \in Nat /\ l = g + 1 + c /\ s \in Seq(Tokens)
  BY DEF HeadAt
<1>2. HeaderLines(s) = lines
  BY FirstSeam DEF HeaderLines
<1>3. lines \in Seq(Tokens) /\ Len(lines) = h /\ \A j \in 1..h : lines[j] = s[j]
  <2> HIDE DEF c, l
  <2>1. 1 \in 1..l + 1 /\ h \in 1 - 1..l /\ h - 1 + 1 = h /\ \A j \in 1..h : 1 + j - 1 = j
    BY <1>1
  <2> HIDE DEF h, lines
  <2>2. lines \in Seq(Tokens) /\ Len(lines) = h - 1 + 1 /\ \A j \in 1..h - 1 + 1 : lines[j] = s[1 + j - 1]
    BY <1>1, <2>1, SubSeqProperties DEF l, lines
  <2> QED
    BY <2>1, <2>2
<1>4. h \in Nat /\ h >= 1 /\ (g = 4 => h = 3)
  BY <1>1
<1> HIDE DEF c, l
<1>7. /\ s[1] = Disposition(part)
      /\ g = 4 => s[2] = Crlf /\ s[3] = TypeLine(part)
  BY DEF HeadAt
<1> HIDE DEF lines
<1>8. lines # <<>> /\ DOMAIN lines = 1..h /\ lines[1] = Disposition(part)
  BY <1>3, <1>4, <1>7
<1>9. ASSUME g = 4 PROVE lines[2] = Crlf /\ lines[3] = TypeLine(part)
  <2>1. 2 \in 1..h /\ 3 \in 1..h
    BY <1>4, <1>9
  <2> HIDE DEF h
  <2> QED
    BY <1>3, <1>7, <1>9, <2>1
<1> QED
  BY <1>2, <1>3, <1>8, <1>9

LEMMA HeaderRead ==
  ASSUME NEW part \in Parts, NEW s, NEW g, HeadAt(part, s, g)
  PROVE  ReadAs(part, s)
<1> DEFINE c == Len(part.content)
           D == Disposition(part)
           T == TypeLine(part)
           lines == HeaderLines(s)
<1>1. g \in {2, 4} /\ c \in Nat /\ (g = 2 <=> part.mime = <<>>)
  BY DEF HeadAt
<1>3. /\ D[1] = "content-disposition" /\ D[2] = part.field /\ D[3] = part.filename
      /\ T[1] = "content-type" /\ T[2] = part.mime /\ Crlf[1] = "CRLF"
  BY DEF Disposition, TypeLine, Crlf
<1>7. /\ lines # <<>> /\ Len(lines) = g - 1 /\ DOMAIN lines = 1..g - 1 /\ lines[1] = D
      /\ g = 4 => lines[2] = Crlf /\ lines[3] = T
  BY LinesOf
<1>4. g \in Seams(s) /\ HeaderEnd(s) = g
  BY FirstSeam
<1> HIDE DEF c, D, T, lines
<1>5. \A i \in 1..g - 1 : i = 1 \/ (g = 4 /\ (i = 2 \/ i = 3))
  <2>1. CASE g = 2
    BY <2>1
  <2>2. CASE g = 4
    BY <2>2
  <2> QED
    BY <1>1, <2>1, <2>2
<1>6. 1 \in 1..g - 1 /\ (g = 4 => 3 \in 1..g - 1)
  BY <1>1
<1>8. HeadersReadable(s)
  <2>1. Len(lines) % 2 = 1
    BY <1>1, <1>7
  <2>2. ASSUME NEW i \in 1..g - 1
        PROVE  IF i % 2 = 1 THEN lines[i][1] \in {"content-disposition", "content-type"} ELSE lines[i] = Crlf
    <3>2. 1 % 2 = 1 /\ 2 % 2 # 1 /\ 3 % 2 = 1
      OBVIOUS
    <3> QED
      BY <1>3, <1>5, <1>7, <3>2
  <2> QED
    BY <1>7, <2>1, <2>2 DEF HeadersReadable, lines
<1>9. LineOf(s, "content-disposition") = D
  <2> DEFINE mine == {i \in DOMAIN lines : lines[i][1] = "content-disposition"}
  <2>1. mine = {1}
    <3>1. \A i \in 1..g - 1 : lines[i][1] = "content-disposition" => i = 1
      BY <1>3, <1>5, <1>7
    <3> QED
      BY <1>3, <1>6, <1>7, <3>1
  <2>2. Max({1}) = 1
    BY DEF Max
  <2>3. LineOf(s, "content-disposition") = IF mine = {} THEN <<"content-disposition", <<>>, <<>>>> ELSE lines[Max(mine)]
    BY DEF LineOf, lines
  <2> HIDE DEF mine
  <2> QED
    BY <1>7, <2>1, <2>2, <2>3
<1>10. LineOf(s, "content-type")[2] = part.mime
  <2> DEFINE mine == {i \in DOMAIN lines : lines[i][1] = "content-type"}
  <2>1. LineOf(s, "content-type") = IF mine = {} THEN <<"content-type", <<>>, <<>>>> ELSE lines[Max(mine)]
    BY DEF LineOf, lines
  <2>0. \A i \in 1..g - 1 : lines[i][1] = "content-type" => g = 4 /\ i = 3
    BY <1>3, <1>5, <1>7
  <2>2. CASE g = 2
    <3>1. mine = {}
      BY <1>7, <2>0, <2>2
    <3> HIDE DEF mine
    <3> QED
      BY <1>1, <2>1, <2>2, <3>1
  <2>3. CASE g = 4
    <3>1. mine = {3}
      BY <1>3, <1>6, <1>7, <2>0, <2>3
    <3>2. Max({3}) = 3
      BY DEF Max
    <3> HIDE DEF mine
    <3> QED
      BY <1>3, <1>7, <2>1, <2>3, <3>1, <3>2
  <2> QED
    BY <1>1, <2>2, <2>3
<1>11. Content(s) = part.content
  <2> DEFINE x == part.content
             l == Len(s)
             y == SubSeq(s, g + 2, l)
  <2>1. Content(s) = y
    BY <1>4 DEF Content
  <2>0. l = g + 1 + c /\ \A j \in 1..c : s[g + 1 + j] = x[j]
    BY DEF HeadAt, c
  <2>2. Len(y) = l - (g + 2) + 1 /\ y \in Seq(Tokens) /\ \A j \in 1..l - (g + 2) + 1 : y[j] = s[g + 2 + j - 1]
    <3>1. s \in Seq(Tokens)
      BY DEF HeadAt
    <3> HIDE DEF l
    <3>2. g + 2 \in 1..l + 1 /\ l \in (g + 2) - 1..l
      BY <1>1, <2>0
    <3> HIDE DEF y
    <3> QED
      BY <3>1, <3>2, SubSeqProperties DEF l, y
  <2>3. x = [j \in 1..c |-> x[j]]
    <3>1. x \in Seq(ToSet(x))
      BY UploadsAssumption
    <3> QED
      BY <3>1 DEF c
  <2> HIDE DEF x, y, l
  <2>4. l - (g + 2) + 1 = c /\ \A j \in 1..c : g + 2 + j - 1 = g + 1 + j
    BY <1>1, <2>0
  <2>6. DOMAIN y = 1..c /\ y = [j \in DOMAIN y |-> y[j]]
    BY <2>2, <2>4
  <2>7. \A j \in 1..c : y[j] = x[j]
    BY <2>0, <2>2, <2>4
  <2>5. y = x
    BY <2>3, <2>6, <2>7
  <2> QED
    BY <2>1, <2>5 DEF x
<1>12. FieldOf(s) = part.field /\ FilenameOf(s) = (IF part.filename = <<>> THEN <<>> ELSE <<part.filename[1]>>)
  BY <1>3, <1>9 DEF FieldOf, FilenameOf
<1>13. MimeOf(s) = part.mime
  BY <1>10 DEF MimeOf
<1> QED
  BY <1>4, <1>8, <1>11, <1>12, <1>13 DEF ReadAs

LEMMA PartRead ==
  ASSUME NEW part \in Parts
  PROVE  ReadAs(part, SectionText(PartText(part)))
<1> DEFINE t == PartText(part)
           h == HeadLen(part)
           c == Len(part.content)
           g == h - 3
           s == SectionText(t)
<1>1. Spelled(part, t)
  BY PartTextIs
<1> HIDE DEF t
<1>2. /\ t \in Seq(Tokens) /\ Len(t) = h + c + 1 /\ c \in Nat
      /\ t[3] = Disposition(part) /\ t[4] = Crlf
      /\ part.mime = <<>> => t[5] = Crlf
      /\ part.mime # <<>> => t[5] = TypeLine(part) /\ t[6] = Crlf /\ t[7] = Crlf
      /\ \A j \in 1..c : t[h + j] = part.content[j]
  BY <1>1 DEF Spelled
<1>3. h = IF part.mime = <<>> THEN 5 ELSE 7
  BY DEF HeadLen
<1>4. s = [j \in 1..Len(t) - 3 |-> t[j + 2]]
  BY DEF SectionText
<1> HIDE DEF h, c, s
<1> DEFINE l == h + c - 2
<1>5. Len(t) - 3 = l /\ l \in Nat /\ l = g + 1 + c /\ g \in {2, 4} /\ (g = 2 <=> part.mime = <<>>)
  BY <1>2, <1>3
<1>6. s = [j \in 1..l |-> t[j + 2]]
  BY <1>4, <1>5
<1>7. \A j \in 1..l : t[j + 2] \in Tokens
  <2>1. \A j \in 1..l : j + 2 \in 1..Len(t)
    BY <1>2, <1>3
  <2> QED
    BY <1>2, <2>1
<1> HIDE DEF l, g
<1>8. s \in Seq(Tokens) /\ Len(s) = l
  <2>1. s \in [1..l -> Tokens]
    BY <1>6, <1>7
  <2>2. s \in Seq(Tokens) /\ DOMAIN s = 1..l
    BY <1>5, <2>1
  <2> QED
    BY <1>5, <2>2
<1>9. \A j \in 1..l : s[j] = t[j + 2]
  BY <1>6
<1>10. 1 \in 1..l /\ 2 \in 1..l /\ 3 \in 1..l /\ (g = 4 => 4 \in 1..l /\ 5 \in 1..l)
  BY <1>2, <1>5
<1>11. s[1] = t[3] /\ s[2] = t[4] /\ s[3] = t[5] /\ (g = 4 => s[4] = t[6] /\ s[5] = t[7])
  BY <1>9, <1>10
<1>12. /\ s[1] = Disposition(part) /\ s[g] = Crlf /\ s[g + 1] = Crlf
       /\ g = 4 => s[2] = Crlf /\ s[3] = TypeLine(part)
  <2>1. CASE g = 2
    BY <1>2, <1>5, <1>11, <2>1
  <2>2. CASE g = 4
    BY <1>2, <1>5, <1>11, <2>2
  <2> QED
    BY <1>5, <2>1, <2>2
<1>13. \A j \in 1..c : s[g + 1 + j] = part.content[j]
  <2>1. ASSUME NEW j \in 1..c PROVE s[g + 1 + j] = part.content[j]
    <3>1. g + 1 + j \in 1..l /\ g + 1 + j + 2 = h + j
      BY <1>2, <1>3, <1>5 DEF g
    <3> QED
      BY <1>2, <1>9, <3>1
  <2> QED
    BY <2>1
<1>14. HeadAt(part, s, g)
  BY <1>2, <1>5, <1>8, <1>12, <1>13 DEF HeadAt, c
<1> QED
  BY <1>14, HeaderRead DEF s, t

\* What lets a part pass: the limits are asked of files alone.
Passes(part) == part.field # <<>> /\ (part.filename # <<>> => WithinLimits(part))

\* What the interceptor says of a section is what the limits say of its part.
LEMMA FaultIs ==
  ASSUME NEW part \in Parts, NEW s, ReadAs(part, s), NoSemicolon(part)
  PROVE  /\ Fault(s) = "" <=> Passes(part)
         /\ part.field # <<>> =>
              FileOf(s) = IF part.filename = <<>> \/ part.field # <<wanted.field>> THEN <<>>
                          ELSE <<[filename |-> part.filename, mime |-> part.mime, content |-> part.content]>>
<1>1. /\ Seams(s) # {} /\ HeadersReadable(s) /\ FieldOf(s) = part.field
      /\ FilenameOf(s) = IF part.filename = <<>> THEN <<>> ELSE <<part.filename[1]>>
      /\ MimeOf(s) = part.mime /\ Content(s) = part.content
  BY DEF ReadAs
<1>2. FilenameOf(s) = <<>> <=> part.filename = <<>>
  BY <1>1
<1>3. FilenameOf(s) = part.filename
  BY <1>1 DEF NoSemicolon
<1>4. Fault(s) = "" <=> Passes(part)
  <2>1. CASE part.filename = <<>>
    BY <1>1, <1>2, <2>1 DEF Fault, Passes
  <2>2. CASE part.filename # <<>>
    BY <1>1, <1>2, <2>2 DEF Fault, Passes, WithinLimits
  <2> QED
    BY <2>1, <2>2
<1>5. part.field # <<>> => (part.field[1] = wanted.field <=> part.field = <<wanted.field>>)
  BY UploadsAssumption
<1>6. FileOf(s) = IF part.filename = <<>> \/ part.field[1] # wanted.field THEN <<>>
                  ELSE <<[filename |-> part.filename, mime |-> part.mime, content |-> part.content]>>
  <2>1. CASE part.filename = <<>>
    BY <1>2, <2>1 DEF FileOf
  <2>2. CASE part.filename # <<>>
    BY <1>1, <1>2, <1>3, <2>2 DEF FileOf
  <2> QED
    BY <2>1, <2>2
<1> QED
  BY <1>4, <1>5, <1>6

-----------------------------------------------------------------------------
(* Uploads: the sections of a payload. *)

LEMMA SectionIs ==
  ASSUME NEW ps \in Seq(Parts), payload \in Seq(Tokens), NEW at, Layout(ps, payload, at),
         at[Len(ps) + 1] <= Len(payload) + 1,
         NEW k \in 1..Len(ps), Marks[k] = at[k], Marks[k + 1] = at[k + 1]
  PROVE  Section(k) = SectionText(PartText(ps[k]))
<1> DEFINE n == Len(ps)
           t == PartText(ps[k])
           l == Len(t)
           L == Len(payload)
           a == at[k]
           e == at[n + 1]
           raw == SubSeq(payload, Marks[k] + 1, Marks[k + 1] - 1)
<1>1. n \in Nat /\ L \in Nat /\ k \in 1..n
  OBVIOUS
<1>2. ps[k] \in Parts
  OBVIOUS
<1>3. /\ at \in [1..n + 1 -> Nat] /\ at[1] = 1
      /\ \A i, j \in 1..n + 1 : i < j => at[i] < at[j]
      /\ at[k + 1] = a + l
      /\ \A j \in 1..l : payload[a + j - 1] = t[j]
  BY DEF Layout
<1>4. Spelled(ps[k], t)
  BY <1>2, PartTextIs
<1>5. e <= L + 1
  OBVIOUS
<1> HIDE DEF t, n
<1>6. t \in Seq(Tokens) /\ l \in Nat /\ l >= 6 /\ t[2] = Crlf /\ t[l] = Crlf
  <2> DEFINE h == HeadLen(ps[k])
             c == Len(ps[k].content)
  <2>1. h \in {5, 7}
    BY DEF HeadLen
  <2>2. t \in Seq(Tokens) /\ l = h + c + 1 /\ c \in Nat /\ t[2] = Crlf /\ t[h + c + 1] = Crlf
    BY <1>4 DEF Spelled
  <2> HIDE DEF h, c, l
  <2>3. l \in Nat /\ l >= 6 /\ t[l] = Crlf
    BY <2>1, <2>2
  <2> QED
    BY <2>2, <2>3
<1>7. a \in Nat /\ a >= 1 /\ at[k + 1] \in Nat /\ at[k + 1] <= e /\ e \in Nat
  <2>1. k \in 1..n + 1 /\ 1 \in 1..n + 1 /\ k + 1 \in 1..n + 1 /\ n + 1 \in 1..n + 1
    BY <1>1
  <2>2. (k = 1 \/ 1 < k) /\ (k + 1 = n + 1 \/ k + 1 < n + 1)
    BY <1>1
  <2>3. at[1] \in Nat /\ a \in Nat /\ at[k + 1] \in Nat /\ e \in Nat
    BY <1>3, <2>1
  <2>4. k = 1 \/ at[1] < a
    BY <1>3, <2>1, <2>2
  <2>5. k + 1 = n + 1 \/ at[k + 1] < e
    BY <1>3, <2>1, <2>2
  <2> HIDE DEF a, e
  <2> QED
    BY <1>3, <2>3, <2>4, <2>5 DEF a, e
<1>11. Marks[k] = a /\ Marks[k + 1] = a + l
  BY <1>3
<1> HIDE DEF a, e, l, L
<1>8. raw = SubSeq(payload, a + 1, a + l - 1)
  <2> DEFINE b == Marks[k] + 1
             d == Marks[k + 1] - 1
  <2>1. b = a + 1 /\ d = a + l - 1
    BY <1>1, <1>6, <1>7, <1>11
  <2>2. raw = SubSeq(payload, b, d)
    OBVIOUS
  <2> HIDE DEF b, d, raw
  <2> QED
    BY <2>1, <2>2
<1> HIDE DEF raw
<1>9. raw \in Seq(Tokens) /\ Len(raw) = l - 1 /\ \A j \in 1..l - 1 : raw[j] = t[j + 1]
  <2> DEFINE b == a + 1
             d == a + l - 1
  <2>1. /\ b \in Int /\ d \in Int /\ b <= d /\ d - b + 1 = l - 1
        /\ \A i \in b..d : i \in 1..L
    BY <1>3, <1>5, <1>6, <1>7, <1>1
  <2>2. \A i \in 1..L : payload[i] \in Tokens
    BY DEF L
  <2>3. \A j \in 1..l - 1 : b + j - 1 = a + (j + 1) - 1 /\ j + 1 \in 1..l
    BY <1>6, <1>7
  <2>4. raw = SubSeq(payload, b, d)
    BY <1>8
  <2> HIDE DEF b, d
  <2>5. /\ raw \in Seq(Tokens) /\ Len(raw) = d - b + 1
        /\ \A j \in 1..d - b + 1 : raw[j] = payload[b + j - 1]
    BY <2>1, <2>2, <2>4, SubSeqProperties
  <2>6. \A j \in 1..l - 1 : raw[j] = t[j + 1]
    BY <1>3, <2>1, <2>3, <2>5
  <2> QED
    BY <2>1, <2>5, <2>6
<1>10. WithoutSuffix(WithoutPrefix(raw)) = SectionText(t)
  BY <1>6, <1>9, EndsTaken DEF l
<1> QED
  BY <1>10 DEF Section, raw, t

\* How many of them are not beyond a point.
LEMMA CutPoint ==
  ASSUME NEW m \in Nat, NEW at, Rising(at, m), NEW point \in Nat
  PROVE  \E c \in 0..m : \A k \in 1..m : k <= c <=> at[k] <= point
<1> DEFINE Good(j) == \E c \in 0..j : \A k \in 1..j : k <= c <=> at[k] <= point
           S == {j \in Nat : j <= m => Good(j)}
<1>1. 0 \in S
  <2>1. Good(0)
    <3>1. 0 \in 0..0 /\ \A k \in 1..0 : FALSE
      OBVIOUS
    <3> QED
      BY <3>1
  <2> QED
    BY <2>1
<1>2. ASSUME NEW j \in S PROVE j + 1 \in S
  <2> SUFFICES ASSUME j + 1 <= m PROVE Good(j + 1)
    OBVIOUS
  <2>1. j \in Nat /\ Good(j) /\ j + 1 \in 1..m
    OBVIOUS
  <2>2. PICK c \in 0..j : \A k \in 1..j : k <= c <=> at[k] <= point
    BY <2>1
  <2>3. \A k \in 1..j + 1 : at[k] \in Nat /\ (k \in 1..j \/ k = j + 1) /\ (k \in 1..j => at[k] < at[j + 1])
    BY <2>1 DEF Rising
  <2>4. CASE at[j + 1] <= point
    <3>1. \A k \in 1..j + 1 : k <= j + 1 /\ at[k] <= point
      BY <2>1, <2>3, <2>4
    <3>2. j + 1 \in 0..j + 1
      BY <2>1
    <3> QED
      BY <3>1, <3>2
  <2>5. CASE ~(at[j + 1] <= point)
    <3>1. \A k \in 1..j + 1 : k <= c <=> at[k] <= point
      BY <2>1, <2>2, <2>3, <2>5
    <3>2. c \in 0..j + 1
      BY <2>1
    <3> QED
      BY <3>1, <3>2
  <2> QED
    BY <2>4, <2>5
<1>3. S = Nat
  <2> HIDE DEF S
  <2>1. S \subseteq Nat
    BY DEF S
  <2> QED
    BY <1>1, <1>2, <2>1, EveryNumber
<1>4. \A j \in Nat : j <= m => Good(j)
  BY <1>3
<1>5. m <= m
  OBVIOUS
<1> HIDE DEF Good
<1>6. Good(m)
  BY <1>4, <1>5
<1> QED
  BY <1>6 DEF Good

LEMMA AtBounds ==
  ASSUME NEW ps \in Seq(Parts), NEW text, NEW at, Layout(ps, text, at)
  PROVE  LET n == Len(ps)
         IN  /\ Rising(at, n + 1) /\ n \in Nat
             /\ \A k \in 1..n + 1 : at[k] \in Nat /\ 1 <= at[k] /\ at[k] <= at[n + 1]
             /\ \A k \in 1..n : at[k] + 1 < at[n + 1] /\ text[at[k] + 1] = Crlf
<1> DEFINE n == Len(ps)
           e == at[n + 1]
<1>1. n \in Nat
  OBVIOUS
<1>2. /\ at \in [1..n + 1 -> Nat] /\ at[1] = 1
      /\ \A j, k \in 1..n + 1 : j < k => at[j] < at[k]
      /\ \A k \in 1..n : at[k + 1] = at[k] + Len(PartText(ps[k]))
      /\ \A k \in 1..n : \A j \in 1..Len(PartText(ps[k])) : text[at[k] + j - 1] = PartText(ps[k])[j]
  BY DEF Layout
<1>3. \A k \in 1..n : ps[k] \in Parts
  OBVIOUS
<1> HIDE DEF n
<1>4. Rising(at, n + 1)
  BY <1>2 DEF Rising
<1>5. ASSUME NEW k \in 1..n + 1 PROVE at[k] \in Nat /\ 1 <= at[k] /\ at[k] <= e
  <2>1. 1 \in 1..n + 1 /\ n + 1 \in 1..n + 1 /\ (k = 1 \/ 1 < k) /\ (k = n + 1 \/ k < n + 1)
    BY <1>1
  <2>2. at[k] \in Nat /\ e \in Nat
    BY <1>2, <2>1
  <2>3. k = 1 \/ at[1] < at[k]
    BY <1>2, <2>1
  <2>4. k = n + 1 \/ at[k] < e
    BY <1>2, <2>1
  <2> QED
    BY <1>2, <2>2, <2>3, <2>4
<1>6. ASSUME NEW k \in 1..n PROVE at[k] + 1 < e /\ text[at[k] + 1] = Crlf
  <2> DEFINE t == PartText(ps[k])
             l == Len(t)
             a == at[k]
  <2>1. k \in 1..n + 1 /\ k + 1 \in 1..n + 1
    BY <1>1
  <2>2. at[k + 1] = a + l /\ \A j \in 1..l : text[a + j - 1] = t[j]
    BY <1>2
  <2>3. Spelled(ps[k], t)
    BY <1>3, PartTextIs
  <2> HIDE DEF t
  <2>4. l = HeadLen(ps[k]) + Len(ps[k].content) + 1 /\ Len(ps[k].content) \in Nat /\ t[2] = Crlf
    BY <2>3 DEF Spelled
  <2>5. HeadLen(ps[k]) \in {5, 7}
    BY DEF HeadLen
  <2> HIDE DEF l
  <2>6. l \in Nat /\ l >= 6
    BY <2>4, <2>5, SMTT(30)
  <2>7. a \in Nat /\ at[k + 1] <= e /\ e \in Nat /\ at[k + 1] \in Nat
    <3> DEFINE b == k + 1
    <3>1. b \in 1..n + 1 /\ n + 1 \in 1..n + 1
      BY <1>1, <2>1
    <3> HIDE DEF b
    <3>2. at[b] <= e /\ at[b] \in Nat
      BY <1>5, <3>1
    <3>3. e \in Nat /\ a \in Nat
      BY <1>5, <2>1, <3>1
    <3> QED
      BY <3>2, <3>3 DEF b
  <2> HIDE DEF a, e
  <2>8. 2 \in 1..l /\ a + 2 - 1 = a + 1
    BY <2>6, <2>7
  <2>9. text[a + 2 - 1] = t[2]
    BY <2>2, <2>8
  <2>10. text[a + 1] = Crlf
    BY <2>4, <2>8, <2>9
  <2>11. a + 1 < e
    BY <2>2, <2>6, <2>7
  <2> QED
    BY <2>10, <2>11 DEF a
<1> QED
  BY <1>1, <1>4, <1>5, <1>6 DEF n

\* The payload of a client that has closed it.
Closed(ps, text, at) ==
  LET n == Len(ps)
  IN  /\ Layout(ps, text, at) /\ Len(text) = at[n + 1] + 1
      /\ text[at[n + 1]] = Mark /\ text[at[n + 1] + 1] = Dashes

LEMMA ClosedMarks ==
  ASSUME NEW ps \in Seq(Parts), NEW text \in Seq(Tokens), NEW at, Closed(ps, text, at),
         \A k \in 1..Len(ps) : ~HasMark(ps[k])
  PROVE  /\ \A k \in 1..Len(ps) + 1 : at[k] \in 1..Len(text)
         /\ \A i \in 1..Len(text) : text[i] = Mark <=> \E k \in 1..Len(ps) + 1 : i = at[k]
<1> DEFINE n == Len(ps)
           e == at[n + 1]
           L == Len(text)
<1>1. /\ n \in Nat /\ L \in Nat /\ n + 1 \in 1..n + 1
      /\ \A k \in 1..n + 1 : at[k] \in Nat /\ 1 <= at[k] /\ at[k] <= e
      /\ \A k \in 1..n : at[k] + 1 < e
  <2>1. Layout(ps, text, at)
    BY DEF Closed
  <2> QED
    BY <2>1, AtBounds
<1>2. /\ L = e + 1 /\ text[e] = Mark /\ text[e + 1] = Dashes
      /\ \A i \in 1..e - 1 : text[i] = Mark <=> \E k \in 1..n : i = at[k]
  BY DEF Closed, Layout
<1> HIDE DEF n, L
<1>3. \A k \in 1..n + 1 : at[k] \in 1..L
  BY <1>1, <1>2
<1>4. \A k \in 1..n + 1 : k \in 1..n \/ k = n + 1
  BY <1>1
<1>5. \A k \in 1..n : k \in 1..n + 1
  BY <1>1
<1>6. ASSUME NEW i \in 1..L PROVE text[i] = Mark <=> \E k \in 1..n + 1 : i = at[k]
  <2>0. e \in Nat
    BY <1>1
  <2>1. CASE i <= e - 1
    <3>1. i \in 1..e - 1 /\ i # e
      BY <1>1, <1>2, <2>0, <2>1
    <3> QED
      BY <1>2, <1>4, <1>5, <3>1
  <2>2. CASE i = e
    BY <1>1, <1>2, <2>2
  <2>3. CASE i = e + 1
    <3>1. \A k \in 1..n + 1 : i # at[k]
      BY <1>1, <2>0, <2>3
    <3> QED
      BY <1>2, <2>3, <3>1, TokensApart
  <2> QED
    BY <1>1, <1>2, <2>0, <2>1, <2>2, <2>3
<1> QED
  BY <1>3, <1>6 DEF n, L

\* A payload none of whose markers closes it.
OpenMarks(text, m, at) ==
  /\ Rising(at, m) /\ \A k \in 1..m : at[k] \in 1..Len(text)
  /\ \A i \in 1..Len(text) : text[i] = Mark <=> \E k \in 1..m : i = at[k]
  /\ \A k \in 1..m : at[k] < Len(text) => text[at[k] + 1] # Dashes

LEMMA CutOpen ==
  ASSUME NEW ps \in Seq(Parts), NEW text \in Seq(Tokens), NEW at, Closed(ps, text, at),
         \A k \in 1..Len(ps) : ~HasMark(ps[k]), NEW size \in 0..(Len(text) - 1)
  PROVE  \E m \in Nat : \E cut : OpenMarks(SubSeq(text, 1, size), m, cut)
<1> DEFINE n == Len(ps)
           e == at[n + 1]
           L == Len(text)
           part == SubSeq(text, 1, size)
<1>1. /\ n \in Nat /\ L \in Nat /\ n + 1 \in 1..n + 1 /\ Rising(at, n + 1)
      /\ \A k \in 1..n + 1 : at[k] \in Nat /\ 1 <= at[k] /\ at[k] <= e
      /\ \A k \in 1..n : at[k] + 1 < e /\ text[at[k] + 1] = Crlf
  <2>1. Layout(ps, text, at)
    BY DEF Closed
  <2> QED
    BY <2>1, AtBounds
<1>2. L = e + 1 /\ size \in Nat /\ size <= L - 1
  BY <1>1 DEF Closed
<1>3. \A i \in 1..L : text[i] = Mark <=> \E k \in 1..n + 1 : i = at[k]
  BY ClosedMarks
<1>4. Len(part) = size /\ \A i \in 1..size : part[i] = text[i]
  <2>1. \A i \in 1..size : i \in 1..L
    BY <1>2
  <2>2. \A i \in 1..L : text[i] \in Tokens
    OBVIOUS
  <2>3. size - 1 + 1 = size /\ (~(1 <= size) => size = 0) /\ \A i \in 1..size : 1 + i - 1 = i
    BY <1>2
  <2> HIDE DEF L, part
  <2>4. /\ Len(part) = IF 1 <= size THEN size - 1 + 1 ELSE 0
        /\ \A i \in 1..size - 1 + 1 : part[i] = text[1 + i - 1]
    BY <1>2, <2>1, <2>2, SubSeqProperties DEF part
  <2> QED
    BY <2>3, <2>4
<1> HIDE DEF n, L, part
<1>5. PICK m \in 0..n + 1 : \A k \in 1..n + 1 : k <= m <=> at[k] <= size
  <2>1. n + 1 \in Nat
    BY <1>1
  <2> QED
    BY <1>1, <1>2, <2>1, CutPoint
<1> DEFINE cut == [k \in 1..m |-> at[k]]
<1>6. m \in Nat /\ \A k \in 1..m : k \in 1..n + 1
  BY <1>1
<1>7. \A k \in 1..m : cut[k] = at[k] /\ at[k] \in 1..size
  BY <1>1, <1>2, <1>5, <1>6
<1>8. Rising(cut, m)
  <2>1. \A j, k \in 1..n + 1 : j < k => at[j] < at[k]
    BY <1>1 DEF Rising
  <2> QED
    BY <1>1, <1>6, <1>7, <2>1 DEF Rising
<1> HIDE DEF cut
<1>9. ASSUME NEW i \in 1..size PROVE part[i] = Mark <=> \E k \in 1..m : i = cut[k]
  <2>1. i \in 1..L /\ part[i] = text[i]
    BY <1>1, <1>2, <1>4
  <2>2. ASSUME NEW k \in 1..n + 1, i = at[k] PROVE k \in 1..m
    <3>1. k <= m
      BY <1>5, <2>2
    <3> QED
      BY <1>6, <3>1
  <2>3. text[i] = Mark <=> \E k \in 1..n + 1 : i = at[k]
    BY <1>3, <2>1
  <2>4. \A k \in 1..m : k \in 1..n + 1 /\ cut[k] = at[k]
    BY <1>6, <1>7
  <2> QED
    BY <2>1, <2>2, <2>3, <2>4
<1>10. ASSUME NEW k \in 1..m, cut[k] < size PROVE part[cut[k] + 1] # Dashes
  <2>1. k \in 1..n + 1 /\ cut[k] = at[k] /\ at[k] \in Nat /\ e \in Nat
    BY <1>1, <1>6, <1>7
  <2>2. k # n + 1
    BY <1>2, <1>10, <2>1
  <2>3. k \in 1..n
    BY <1>1, <2>1, <2>2
  <2>4. at[k] + 1 \in 1..size
    BY <1>2, <1>10, <2>1
  <2>5. part[at[k] + 1] = Crlf
    BY <1>1, <1>4, <2>3, <2>4
  <2> QED
    BY <2>1, <2>5, TokensApart
<1>11. OpenMarks(part, m, cut)
  BY <1>4, <1>7, <1>8, <1>9, <1>10 DEF OpenMarks
<1> QED
  BY <1>6, <1>11 DEF part

\* A payload without a closing marker has no files.
LEMMA OpenRefused ==
  ASSUME payload \in Seq(Tokens), NEW m \in Nat, NEW at, OpenMarks(payload, m, at)
  PROVE  Opened = -1 /\ (Marks = <<>> => Files = <<>>)
<1> DEFINE L == Len(payload)
<1>1. Marks = [k \in 1..m |-> at[k]]
  BY MarksAre DEF OpenMarks
<1>2. \A k \in 1..m : at[k] < L => payload[at[k] + 1] # Dashes
  BY DEF OpenMarks
<1> HIDE DEF L
<1>3. Closing = {}
  BY <1>1, <1>2 DEF Closing, L
<1>4. Opened = -1
  BY <1>3 DEF Opened
<1>5. ASSUME Marks = <<>> PROVE Files = <<>>
  <2>1. Len(Marks) = 0 /\ Opened < 0
    BY <1>4, <1>5
  <2>2. 1..(IF Opened < 0 THEN Len(Marks) - 1 ELSE Opened) = {}
    BY <2>1
  <2>3. DOMAIN Sections = {}
    BY <2>2 DEF Sections
  <2>4. [k \in DOMAIN Sections |-> FileOf(Sections[k])] = <<>>
    BY <2>3
  <2> QED
    BY <2>4, FlattenNone DEF Files
<1> QED
  BY <1>4, <1>5

\* The sections of a closed payload are the parts that the client wrote.
LEMMA ClosedSections ==
  ASSUME payload \in Seq(Tokens), parts \in Seq(Parts), NEW at, Closed(parts, payload, at),
         \A k \in 1..Len(parts) : ~HasMark(parts[k])
  PROVE  /\ Opened = Len(parts)
         /\ Sections = [k \in 1..Len(parts) |-> SectionText(PartText(parts[k]))]
<1> DEFINE n == Len(parts)
           e == at[n + 1]
           L == Len(payload)
           m == n + 1
<1>1. /\ n \in Nat /\ L \in Nat /\ m \in 1..m /\ m \in Nat /\ Rising(at, m)
      /\ \A k \in 1..m : at[k] \in Nat /\ 1 <= at[k] /\ at[k] <= e
      /\ \A k \in 1..n : at[k] + 1 < e /\ payload[at[k] + 1] = Crlf
  <2>1. Layout(parts, payload, at)
    BY DEF Closed
  <2> QED
    BY <2>1, AtBounds
<1>2. L = e + 1 /\ payload[e + 1] = Dashes /\ Layout(parts, payload, at)
  BY DEF Closed
<1>3. /\ \A k \in 1..m : at[k] \in 1..L
      /\ \A i \in 1..L : payload[i] = Mark <=> \E k \in 1..m : i = at[k]
  BY ClosedMarks
<1>4. Marks = [k \in 1..m |-> at[k]]
  <2> HIDE DEF m
  <2> QED
    BY <1>1, <1>3, MarksAre DEF L
<1>5. \A k \in 1..m : k \in 1..n \/ k = m
  BY <1>1
<1>6. \A k \in 1..n : k \in 1..m /\ k + 1 \in 1..m /\ k # m
  BY <1>1
<1> HIDE DEF n, L
<1>7. Closing = {m}
  <2>1. \A k \in 1..n : payload[at[k] + 1] # Dashes
    BY <1>1, TokensApart
  <2>2. e < L /\ e \in Nat
    BY <1>1, <1>2
  <2>3. Closing = {k \in 1..m : at[k] < L /\ payload[at[k] + 1] = Dashes}
    BY <1>4 DEF Closing, L
  <2>4. m \in {k \in 1..m : at[k] < L /\ payload[at[k] + 1] = Dashes}
    BY <1>1, <1>2, <2>2
  <2> QED
    BY <1>5, <2>1, <2>3, <2>4
<1>8. Opened = n
  <2>1. Min({m}) = m
    BY <1>1 DEF Min
  <2>2. Opened = m - 1
    BY <1>7, <2>1 DEF Opened
  <2> QED
    BY <1>1, <2>2
<1>9. ASSUME NEW k \in 1..n PROVE Section(k) = SectionText(PartText(parts[k]))
  <2>1. Marks[k] = at[k] /\ Marks[k + 1] = at[k + 1]
    BY <1>4, <1>6
  <2>2. at[Len(parts) + 1] <= Len(payload) + 1
    BY <1>1, <1>2 DEF n, L
  <2> QED
    BY <1>2, <2>1, <2>2, SectionIs DEF n
<1>10. Sections = [k \in 1..n |-> Section(k)]
  <2>1. ~(Opened < 0)
    BY <1>1, <1>8
  <2> QED
    BY <1>8, <2>1 DEF Sections
<1> QED
  BY <1>8, <1>9, <1>10 DEF n

LEMMA ClosedRead ==
  ASSUME payload \in Seq(Tokens), parts \in Seq(Parts), NEW at, Closed(parts, payload, at),
         \A k \in 1..Len(parts) : ~HasMark(parts[k]) /\ NoSemicolon(parts[k])
  PROVE  /\ ~Broken
         /\ Faulty = {} <=> \A i \in DOMAIN parts : Passes(parts[i])
         /\ Faulty = {} => Files = FilesSent
<1> DEFINE n == Len(parts)
           TextOf(k) == SectionText(PartText(parts[k]))
           SentOf(k) == IF parts[k].filename = <<>> \/ parts[k].field # <<wanted.field>> THEN <<>>
                      ELSE <<[filename |-> parts[k].filename, mime |-> parts[k].mime, content |-> parts[k].content]>>
<1>1. n \in Nat /\ DOMAIN parts = 1..n /\ \A k \in 1..n : parts[k] \in Parts
  OBVIOUS
<1>2. Opened = n /\ Sections = [k \in 1..n |-> TextOf(k)]
  BY ClosedSections
<1> HIDE DEF n
<1>3. ~Broken
  BY <1>1, <1>2 DEF Broken
<1>4. ASSUME NEW k \in 1..n
      PROVE  (Fault(TextOf(k)) = "" <=> Passes(parts[k])) /\ (parts[k].field # <<>> => FileOf(TextOf(k)) = SentOf(k))
  <2>1. parts[k] \in Parts /\ ReadAs(parts[k], TextOf(k)) /\ NoSemicolon(parts[k])
    BY <1>1, PartRead
  <2> HIDE DEF TextOf
  <2> QED
    BY <2>1, FaultIs
<1> HIDE DEF TextOf, SentOf
<1>5. DOMAIN Sections = 1..n /\ \A k \in 1..n : Sections[k] = TextOf(k)
  BY <1>2
<1>6. Faulty = {} <=> \A i \in 1..n : Passes(parts[i])
  BY <1>4, <1>5 DEF Faulty
<1>7. ASSUME Faulty = {} PROVE Files = FilesSent
  <2>1. \A k \in 1..n : parts[k].field # <<>>
    BY <1>6, <1>7 DEF Passes
  <2>2. [k \in DOMAIN Sections |-> FileOf(Sections[k])] = [k \in 1..n |-> SentOf(k)]
    BY <1>4, <1>5, <2>1
  <2> QED
    BY <1>1, <2>2 DEF Files, FilesSent, SentOf
<1> QED
  BY <1>1, <1>3, <1>6, <1>7

LEMMA FilesSentIs == ASSUME parts \in Seq(Parts) PROVE Len(FilesSent) \in Nat /\ (FilesSent = <<>> <=> Len(FilesSent) = 0)
<1> DEFINE n == Len(parts)
           File(k) == [filename |-> parts[k].filename, mime |-> parts[k].mime, content |-> parts[k].content]
           S == {File(k) : k \in 1..n}
           SentOf(k) == IF parts[k].filename = <<>> \/ parts[k].field # <<wanted.field>> THEN <<>> ELSE <<File(k)>>
           seqs == [k \in 1..n |-> SentOf(k)]
<1>1. n \in Nat /\ DOMAIN parts = 1..n
  OBVIOUS
<1>2. FilesSent = FlattenSeq(seqs)
  BY <1>1 DEF FilesSent
<1> HIDE DEF n, File
<1>3. ASSUME NEW k \in 1..n PROVE SentOf(k) \in Seq(S)
  <2>1. File(k) \in S
    OBVIOUS
  <2> HIDE DEF S
  <2> QED
    BY <2>1
<1> HIDE DEF S, SentOf
<1>4. seqs \in Seq(Seq(S))
  BY <1>1, <1>3
<1> HIDE DEF seqs
<1>5. <<>> \in Seq(S)
  OBVIOUS
<1>6. FilesSent \in Seq(S)
  BY <1>2, <1>4, <1>5, FlattenOneMore
<1> QED
  BY <1>6

UploadType ==
  /\ parts \in Seq(Parts) /\ payload \in Seq(Tokens)
  /\ sending \in {"writing", "closed", "sent"} /\ truncated \in BOOLEAN
  /\ sending # "sent" => ~truncated /\ outcome = <<>>

\* What has been written stands in the payload, or what is left of it closes nothing.
PayloadKept ==
  /\ sending = "writing" => \E at : Layout(parts, payload, at) /\ Len(payload) = at[Len(parts) + 1] - 1
  /\ sending # "writing" /\ ~truncated => \E at : Closed(parts, payload, at)
  /\ truncated /\ (\A k \in 1..Len(parts) : ~HasMark(parts[k])) =>
       \E m \in Nat : \E at : OpenMarks(payload, m, at)

UploadInv == UploadType /\ PayloadKept /\ UploadsIntact

LEMMA UploadStarts == UploadInit => UploadInv
<1> SUFFICES ASSUME UploadInit PROVE UploadInv
  OBVIOUS
<1>1. parts = <<>> /\ payload = <<>> /\ sending = "writing" /\ truncated = FALSE /\ outcome = <<>>
  BY DEF UploadInit
<1>2. UploadType
  <2>1. parts \in Seq(Parts)
    BY <1>1
  <2>2. payload \in Seq(Tokens)
    BY <1>1
  <2> QED
    BY <1>1, <2>1, <2>2 DEF UploadType
<1>3. PayloadKept
  <2> DEFINE at == <<1>>
  <2>1. at[0 + 1] - 1 = 0
    OBVIOUS
  <2> HIDE DEF at
  <2>2. Layout(parts, payload, at)
    BY <1>1, LayoutStarts DEF at
  <2>3. Len(payload) = at[Len(parts) + 1] - 1
    BY <1>1, <2>1
  <2> QED
    BY <1>1, <2>2, <2>3 DEF PayloadKept
<1> QED
  BY <1>1, <1>2, <1>3 DEF UploadInv, UploadsIntact

LEMMA PartWritten == ASSUME UploadInv, NEW part \in Parts, WritePart(part) PROVE UploadInv'
<1>1. /\ sending = "writing" /\ parts' = Append(parts, part) /\ payload' = payload \o PartText(part)
      /\ sending' = sending /\ truncated' = truncated /\ outcome' = outcome
  BY DEF WritePart
<1>2. UploadType /\ PayloadKept
  BY DEF UploadInv
<1>3. ~truncated /\ outcome = <<>> /\ parts \in Seq(Parts) /\ payload \in Seq(Tokens)
  BY <1>1, <1>2 DEF UploadType
<1>4. PICK at : Layout(parts, payload, at) /\ Len(payload) = at[Len(parts) + 1] - 1
  BY <1>1, <1>2 DEF PayloadKept
<1>5. PartText(part) \in Seq(Tokens)
  BY PartTextIs DEF Spelled
<1>6. parts' \in Seq(Parts) /\ payload' \in Seq(Tokens) /\ Len(parts') + 1 = Len(parts) + 2
  <2> HIDE DEF PartText
  <2> QED
    BY <1>1, <1>3, <1>5
<1>7. PICK more : Layout(parts', payload', more) /\ Len(payload') = more[Len(parts) + 2] - 1
  BY <1>1, <1>3, <1>4, LayoutGrows
<1>8. PayloadKept'
  BY <1>1, <1>3, <1>6, <1>7 DEF PayloadKept
<1> QED
  BY <1>1, <1>2, <1>3, <1>6, <1>8 DEF UploadInv, UploadType, UploadsIntact

LEMMA PayloadClosed == ASSUME UploadInv, Close PROVE UploadInv'
<1> DEFINE n == Len(parts)
           L == Len(payload)
           tail == <<Mark, Dashes>>
<1>1. /\ sending = "writing" /\ payload' = payload \o tail /\ sending' = "closed"
      /\ parts' = parts /\ truncated' = truncated /\ outcome' = outcome
  BY DEF Close
<1>2. UploadType /\ PayloadKept
  BY DEF UploadInv
<1>3. ~truncated /\ outcome = <<>> /\ parts \in Seq(Parts) /\ payload \in Seq(Tokens) /\ L \in Nat
  BY <1>1, <1>2 DEF UploadType
<1>4. PICK at : Layout(parts, payload, at) /\ L = at[n + 1] - 1
  BY <1>1, <1>2 DEF PayloadKept
<1>5. tail \in Seq(Tokens) /\ Len(tail) = 2 /\ tail[1] = Mark /\ tail[2] = Dashes /\ 1 \in 1..2 /\ 2 \in 1..2
  BY DEF Tokens
<1> HIDE DEF tail
<1>6. /\ payload' \in Seq(Tokens) /\ Len(payload') = L + 2
      /\ \A i \in 1..L : payload'[i] = payload[i]
      /\ payload'[L + 1] = Mark /\ payload'[L + 2] = Dashes
  <2>1. JoinOf(Tokens, payload, tail, payload')
    BY <1>1, <1>3, <1>5, ConcatParts
  <2>2. /\ payload' \in Seq(Tokens) /\ Len(payload') = Len(payload) + Len(tail)
        /\ \A i \in 1..Len(payload) : payload'[i] = payload[i]
        /\ \A j \in 1..Len(tail) : payload'[Len(payload) + j] = tail[j]
    BY <2>1 DEF JoinOf
  <2> QED
    BY <1>5, <2>2
<1>7. at[n + 1] \in Nat
  BY <1>3, <1>4, AtBounds
<1>8. Layout(parts', payload', at)
  <2>1. \A i \in 1..at[Len(parts) + 1] - 1 : payload'[i] = payload[i]
    BY <1>4, <1>6
  <2> QED
    BY <1>1, <1>3, <1>4, <2>1, LayoutKept
<1>9. Closed(parts', payload', at)
  <2>1. at[n + 1] = L + 1 /\ at[n + 1] + 1 = L + 2
    BY <1>3, <1>4, <1>7
  <2> HIDE DEF L
  <2> QED
    BY <1>1, <1>6, <1>8, <2>1 DEF Closed
<1>10. PayloadKept'
  BY <1>1, <1>3, <1>9 DEF PayloadKept
<1> QED
  BY <1>1, <1>2, <1>3, <1>6, <1>10 DEF UploadInv, UploadType, UploadsIntact

LEMMA EndLost == ASSUME UploadInv, LoseEnd PROVE UploadInv'
<1>1. /\ sending = "closed" /\ truncated' = TRUE /\ sending' = "sent" /\ parts' = parts /\ outcome' = outcome
  BY DEF LoseEnd
<1>2. PICK size \in 0..(Len(payload) - 1) : payload' = SubSeq(payload, 1, size)
  BY DEF LoseEnd
<1>3. UploadType /\ PayloadKept
  BY DEF UploadInv
<1>4. ~truncated /\ outcome = <<>> /\ parts \in Seq(Parts) /\ payload \in Seq(Tokens)
  BY <1>1, <1>3 DEF UploadType
<1>5. PICK at : Closed(parts, payload, at)
  BY <1>1, <1>3, <1>4 DEF PayloadKept
<1>6. payload' \in Seq(Tokens)
  <2>1. \A i \in 1..size : payload[i] \in Tokens
    BY <1>4
  <2> QED
    BY <1>2, <2>1, SubSeqProperties
<1>7. (\A k \in 1..Len(parts) : ~HasMark(parts[k])) => \E m \in Nat : \E cut : OpenMarks(payload', m, cut)
  BY <1>2, <1>4, <1>5, CutOpen
<1>8. PayloadKept'
  BY <1>1, <1>7 DEF PayloadKept
<1> QED
  BY <1>1, <1>3, <1>4, <1>6, <1>8 DEF UploadInv, UploadType, UploadsIntact

LEMMA PayloadSent == ASSUME UploadInv, Send PROVE UploadInv'
<1>1. /\ sending = "closed" /\ sending' = "sent" /\ payload' = payload /\ parts' = parts
      /\ truncated' = truncated /\ outcome' = outcome
  BY DEF Send
<1>2. UploadType /\ PayloadKept
  BY DEF UploadInv
<1>3. ~truncated /\ outcome = <<>>
  BY <1>1, <1>2 DEF UploadType
<1> QED
  BY <1>1, <1>2, <1>3 DEF UploadInv, UploadType, PayloadKept, UploadsIntact

LEMMA FilesExtracted == ASSUME UploadInv, Extract PROVE UploadInv'
<1> DEFINE clean == \A i \in DOMAIN parts : ~HasMark(parts[i]) /\ NoSemicolon(parts[i])
           passed == \A i \in DOMAIN parts : Passes(parts[i])
           fits == wanted.boundary /\ ~Over(Len(payload), limits.whole)
<1>1. /\ sending = "sent" /\ sending' = sending /\ payload' = payload /\ parts' = parts
      /\ truncated' = truncated /\ limits' = limits /\ wanted' = wanted
  BY DEF Extract
<1>2. UploadType /\ PayloadKept
  BY DEF UploadInv
<1>3. parts \in Seq(Parts) /\ payload \in Seq(Tokens)
  BY <1>2 DEF UploadType
<1>4. \/ /\ outcome'[1].ok = FALSE
         /\ ~fits \/ Broken \/ Faulty # {} \/ Files = <<>> \/ (~wanted.many /\ Len(Files) > 1)
      \/ /\ outcome'[1].ok = TRUE /\ outcome'[1].files = Files
         /\ fits /\ ~Broken /\ Faulty = {} /\ Files # <<>> /\ (wanted.many \/ ~(Len(Files) > 1))
  <2>1. outcome' =
          IF ~wanted.boundary THEN Failed("content type")
          ELSE IF Over(Len(payload), limits.whole) THEN Failed("stream too large")
          ELSE IF Broken THEN Failed("invalid")
          ELSE IF Faulty # {} THEN Failed(Fault(Sections[Min(Faulty)]))
          ELSE IF Files = <<>> THEN Failed("missing file")
          ELSE IF ~wanted.many /\ Len(Files) > 1 THEN Failed("too many files")
          ELSE <<[ok |-> TRUE, files |-> Files]>>
    BY DEF Extract
  <2>2. \A why : Failed(why)[1].ok = FALSE
    BY DEF Failed
  <2> QED
    BY <2>1, <2>2
<1>5. clean => \A k \in 1..Len(parts) : ~HasMark(parts[k]) /\ NoSemicolon(parts[k])
  BY <1>3
<1>6. ASSUME clean, truncated PROVE ~outcome'[1].ok
  <2>1. PICK m \in Nat : \E at : OpenMarks(payload, m, at)
    BY <1>2, <1>5, <1>6 DEF PayloadKept
  <2>2. Opened = -1 /\ (Marks = <<>> => Files = <<>>)
    BY <1>3, <2>1, OpenRefused
  <2>3. Broken \/ Files = <<>>
    BY <2>2 DEF Broken
  <2> QED
    BY <1>4, <2>3
<1>7. ASSUME clean, ~truncated
      PROVE  /\ outcome'[1].ok <=> fits /\ passed /\ EnoughFiles
             /\ outcome'[1].ok => outcome'[1].files = FilesSent
  <2>1. PICK at : Closed(parts, payload, at)
    BY <1>1, <1>2, <1>7 DEF PayloadKept
  <2>2. ~Broken /\ (Faulty = {} <=> passed) /\ (Faulty = {} => Files = FilesSent)
    BY <1>3, <1>5, <1>7, <2>1, ClosedRead
  <2>3. Len(FilesSent) \in Nat /\ (FilesSent = <<>> <=> Len(FilesSent) = 0)
    BY <1>3, FilesSentIs
  <2> HIDE DEF passed, fits
  <2>4. FilesSent # <<>> => (Len(FilesSent) = 1 <=> ~(Len(FilesSent) > 1))
    <3> DEFINE f == Len(FilesSent)
    <3>1. f \in Nat /\ (FilesSent # <<>> => f # 0)
      BY <2>3
    <3> HIDE DEF f
    <3>2. f # 0 => (f = 1 <=> ~(f > 1))
      BY <3>1
    <3> QED
      BY <3>1, <3>2 DEF f
  <2> QED
    BY <1>4, <2>2, <2>4 DEF EnoughFiles
<1>8. ASSUME clean, ~truncated
      PROVE  /\ outcome'[1].ok =>
                  /\ fits /\ EnoughFiles /\ outcome'[1].files = FilesSent
                  /\ \A i \in DOMAIN parts : parts[i].filename # <<>> => WithinLimits(parts[i])
             /\ fits /\ EnoughFiles /\ (\A i \in DOMAIN parts : WithinLimits(parts[i])) => outcome'[1].ok
  <2>1. passed => \A i \in DOMAIN parts : parts[i].filename # <<>> => WithinLimits(parts[i])
    BY DEF Passes
  <2>2. (\A i \in DOMAIN parts : WithinLimits(parts[i])) => passed
    BY DEF Passes, WithinLimits
  <2> HIDE DEF passed, fits
  <2> QED
    BY <1>7, <1>8, <2>1, <2>2
<1>9. UploadsIntact'
  <2>1. /\ \A part : HasMark(part)' = HasMark(part) /\ WithinLimits(part)' = WithinLimits(part)
        /\ \A part : NoSemicolon(part)' = NoSemicolon(part)
        /\ FilesSent' = FilesSent /\ EnoughFiles' = EnoughFiles
        /\ Over(Len(payload), limits.whole)' = Over(Len(payload), limits.whole)
    BY <1>1 DEF WithinLimits, Limit, Over, FilesSent, EnoughFiles
  <2> QED
    BY <1>1, <1>6, <1>8, <2>1 DEF UploadsIntact
<1> QED
  BY <1>1, <1>2, <1>9 DEF UploadInv, UploadType, PayloadKept

\* The files an action is given are those that were sent for its field, with their names, in
\* order and byte for byte, and no file of the payload breaks a limit then; a payload whose parts
\* break none is given, and one that lost its end is refused.  For any limits, any number
\* of parts and any contents without the marker, and file names without a semicolon
\* (upload.rs:458-710).
THEOREM UploadsArrive == UploadSpec => []UploadsIntact
<1>1. UploadInit => UploadInv
  BY UploadStarts
<1>2. UploadInv /\ [UploadNext]_uploadVars => UploadInv'
  <2> SUFFICES ASSUME UploadInv, [UploadNext]_uploadVars PROVE UploadInv'
    OBVIOUS
  <2>1. CASE UploadNext
    <3>1. ASSUME NEW p \in Parts, WritePart(p) PROVE UploadInv'
      BY <3>1, PartWritten
    <3> QED
      BY <2>1, <3>1, PayloadClosed, EndLost, PayloadSent, FilesExtracted DEF UploadNext
  <2>2. CASE UNCHANGED uploadVars
    <3>1. /\ parts' = parts /\ payload' = payload /\ sending' = sending /\ truncated' = truncated
          /\ limits' = limits /\ wanted' = wanted /\ outcome' = outcome
      BY <2>2 DEF uploadVars
    <3>2. UploadsIntact'
      <4>1. UploadsIntact
        BY DEF UploadInv
      <4> QED
        BY <3>1, <4>1 DEF UploadsIntact, HasMark, NoSemicolon, WithinLimits, Limit, Over, FilesSent, EnoughFiles
    <3> QED
      BY <3>1, <3>2 DEF UploadInv, UploadType, PayloadKept
  <2> QED
    BY <2>1, <2>2
<1>3. UploadInv => UploadsIntact
  BY DEF UploadInv
<1> QED
  BY <1>1, <1>2, <1>3, PTL DEF UploadSpec
=============================================================================

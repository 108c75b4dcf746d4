-------------------------------- MODULE Rooms --------------------------------
(***************************************************************************)
(* The registries of nivasa-websocket/src/lib.rs. A behaviour is the life  *)
(* of one registry, `registry` says of which type: NamespaceRegistry has   *)
(* `namespaces`, ClientEventRegistry and ServerEventRegistry have          *)
(* `inboxes`, RoomEventRegistry has both and one namespace.                *)
(***************************************************************************)
EXTENDS Naturals, Sequences, FiniteSets, Functions

CONSTANTS
  Namespaces, RoomNames, Clients, Events,
  OwnNamespace,   \* the namespace a RoomEventRegistry was made with
  MaxInbox        \* events an inbox holds at most in an instance

ASSUME RoomsAssumption == OwnNamespace \in Namespaces /\ MaxInbox \in Nat

VARIABLES
  registry,     \* namespace, client, server or room
  namespaces,   \* namespace -> room -> set of clients, for those that exist
  inboxes,      \* client -> events, for the clients that have an inbox
  returned      \* what the last call returned

roomsVars == <<registry, namespaces, inboxes, returned>>

Nothing == [x \in {} |-> {}]

RoomsInit ==
  /\ registry \in {"namespace", "client", "server", "room"}
  /\ namespaces = Nothing
  /\ inboxes = Nothing
  /\ returned = 0

At(map, key, default) == IF key \in DOMAIN map THEN map[key] ELSE default
Put(map, key, value) == [k \in DOMAIN map \cup {key} |-> IF k = key THEN value ELSE map[k]]
\* Retain of a map: what stays are the entries that are not empty.
Kept(map, empty) == Restrict(map, {k \in DOMAIN map : map[k] # empty})
Flag(b) == returned' = IF b THEN 1 ELSE 0

-----------------------------------------------------------------------------
(* RoomRegistry: one namespace. *)

JoinRoom(rooms, room, c) == Put(rooms, room, At(rooms, room, {}) \cup {c})

LeaveRoom(rooms, room, c) ==
  IF room \notin DOMAIN rooms THEN rooms ELSE Kept([rooms EXCEPT ![room] = @ \ {c}], {})

Members(rooms, room) == At(rooms, room, {})

-----------------------------------------------------------------------------
(* NamespaceRegistry: join, leave and disconnect, also through client(). *)

RoomsOf(n) == At(namespaces, n, Nothing)
MembersOf(n, room) == Members(RoomsOf(n), room)

JoinNamespace(n, room, c) ==
  /\ namespaces' = Put(namespaces, n, JoinRoom(RoomsOf(n), room, c))
  /\ Flag(c \notin MembersOf(n, room))

\* Mutant: disconnect looks at one namespace only.
Without_OneNamespace(c) ==
  LET first == CHOOSE n \in Namespaces : \A k \in DOMAIN namespaces : n \in DOMAIN namespaces
  IN  Kept([n \in DOMAIN namespaces |->
              IF n = first THEN Kept([room \in DOMAIN namespaces[n] |-> namespaces[n][room] \ {c}], {})
              ELSE namespaces[n]], Nothing)

\* The rooms that remain when a client is taken out of every one of them.
Without(c) ==
  Kept([n \in DOMAIN namespaces |->
          Kept([room \in DOMAIN namespaces[n] |-> namespaces[n][room] \ {c}], {})], Nothing)

InSomeRoom(c) ==
  \E n \in DOMAIN namespaces : \E room \in DOMAIN namespaces[n] : c \in namespaces[n][room]

Join(n, room, c) ==
  /\ registry = "namespace"
  /\ JoinNamespace(n, room, c)
  /\ UNCHANGED <<registry, inboxes>>

Leave(n, room, c) ==
  /\ registry = "namespace"
  /\ namespaces' = IF n \notin DOMAIN namespaces THEN namespaces
                   ELSE Kept([namespaces EXCEPT ![n] = LeaveRoom(@, room, c)], Nothing)
  /\ Flag(c \in MembersOf(n, room))
  /\ UNCHANGED <<registry, inboxes>>

Disconnect(c) ==
  /\ registry = "namespace"
  /\ namespaces' = Without(c)
  /\ Flag(InSomeRoom(c))
  /\ UNCHANGED <<registry, inboxes>>

-----------------------------------------------------------------------------
(* Inboxes of connected clients. *)

Connect(c) ==
  /\ registry \in {"server", "room"}
  /\ inboxes' = Put(inboxes, c, At(inboxes, c, <<>>))
  /\ UNCHANGED <<registry, namespaces, returned>>

Drop(c) == inboxes' = Restrict(inboxes, DOMAIN inboxes \ {c})

ServerDisconnect(c) ==
  /\ registry = "server"
  /\ Drop(c)
  /\ Flag(c \in DOMAIN inboxes)
  /\ UNCHANGED <<registry, namespaces>>

\* Every inbox of the audience that exists gets the event.
Push(audience, e) ==
  LET reached == audience \cap DOMAIN inboxes
  IN  /\ \A c \in reached : Len(inboxes[c]) < MaxInbox
      /\ inboxes' = [c \in DOMAIN inboxes |->
                       IF c \in reached THEN Append(inboxes[c], e) ELSE inboxes[c]]
      /\ returned' = Cardinality(reached)
      /\ UNCHANGED <<registry, namespaces>>

ServerEmit(e) == registry = "server" /\ Push(DOMAIN inboxes, e)

\* ClientEventHandle::emit makes the inbox when there is none.
ClientEmit(c, e) ==
  /\ registry = "client"
  /\ Len(At(inboxes, c, <<>>)) < MaxInbox
  /\ inboxes' = Put(inboxes, c, Append(At(inboxes, c, <<>>), e))
  /\ returned' = Len(inboxes'[c])
  /\ UNCHANGED <<registry, namespaces>>

-----------------------------------------------------------------------------
(* RoomEventRegistry: rooms of its own namespace and inboxes. *)

RoomJoin(room, c) ==
  /\ registry = "room"
  /\ JoinNamespace(OwnNamespace, room, c)
  /\ UNCHANGED <<registry, inboxes>>

RoomDisconnect(c) ==
  /\ registry = "room"
  /\ Drop(c)
  /\ namespaces' = Without(c)
  /\ Flag(c \in DOMAIN inboxes \/ InSomeRoom(c))
  /\ UNCHANGED registry

RoomEmit(room, e) == registry = "room" /\ Push(MembersOf(OwnNamespace, room), e)

RoomsNext ==
  \/ \E c \in Clients : Connect(c) \/ Disconnect(c) \/ ServerDisconnect(c) \/ RoomDisconnect(c)
  \/ \E n \in Namespaces, room \in RoomNames, c \in Clients : Join(n, room, c) \/ Leave(n, room, c)
  \/ \E room \in RoomNames, c \in Clients : RoomJoin(room, c)
  \/ \E room \in RoomNames, e \in Events : RoomEmit(room, e)
  \/ \E c \in Clients, e \in Events : ClientEmit(c, e)
  \/ \E e \in Events : ServerEmit(e)

RoomsSpec == RoomsInit /\ [][RoomsNext]_roomsVars

-----------------------------------------------------------------------------
(* Properties. *)

\* Who is in which room, and what has been sent to whom, as Membership sees them.
Relation == {m \in Namespaces \X RoomNames \X Clients : m[3] \in MembersOf(m[1], m[2])}
Sent == [c \in Clients |-> [online |-> c \in DOMAIN inboxes, events |-> At(inboxes, c, <<>>)]]

Abstract == INSTANCE Membership WITH members <- Relation, received <- Sent

\* Nested maps that are filled, emptied and pruned by join, leave, disconnect and emit keep to the
\* relation of members and to exactly-once delivery, and the calls return what happened.
RoomsImplement == Abstract!Spec

\* No room or namespace outlives its last member: has_namespace and is_empty tell the truth, and
\* the maps do not grow with rooms that were left.
NoEmptyRooms ==
  \A n \in DOMAIN namespaces :
    namespaces[n] # Nothing /\ \A room \in DOMAIN namespaces[n] : namespaces[n][room] # {}

\* The maps implement the relation, and forget what nobody is in any more.
RoomsKept == RoomsImplement /\ []NoEmptyRooms
=============================================================================

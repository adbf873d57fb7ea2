------------------------- MODULE NotificationServer -------------------------
(***************************************************************************)
(* The notification channel of port 8080: the accept loop, one             *)
(* handle_client thread per accepted socket, the linked list of online     *)
(* clients that every thread edits under ctx->lock, and the listener       *)
(* thread of each client that dials, takes one packet as the greeting and  *)
(* then hands every packet to its on_message callback.                     *)
(*                                                                         *)
(* A handler thread is named by the descriptor it owns: the thread closes  *)
(* it last, so at most one thread has it at a time and the kernel may hand *)
(* it out again afterwards.  The two write() calls that make up a packet   *)
(* are one step here.                                                      *)
(***************************************************************************)
EXTENDS Integers, FiniteSets, Sequences, SequencesExt

CONSTANTS
    Devices,        \* identifiers that clients register under
    AdminConsole,   \* the identifier "ADMIN_CONSOLE", a device or not
    Fds,            \* descriptors the notification socket may hand out
    Payloads,       \* bodies sent with server_send_to_device
    Hello, Notice,  \* the greeting and the join/leave messages
    NoFd, NoDevice,
    MaxDrops,       \* bound: connections that break
    MaxCrashes      \* bound: crashes of the server process

ASSUME FdsAssumption == IsFiniteSet(Fds) /\ NoFd \notin Fds
ASSUME DevicesAssumption == NoDevice \notin Devices
ASSUME BoundsAssumption == MaxDrops \in Nat /\ MaxCrashes \in Nat

Packets == Payloads \union {Hello, Notice}

VARIABLES
    registry,   \* ctx->head: the nodes, newest first
    active,     \* ctx->active_clients
    pc,         \* where the handler thread of a descriptor stands
    device,     \* its local device_id
    client,     \* the listener thread: "down", "greeting" or "listening"
    sock,       \* the server end of a client's connection
    inbox,      \* packets written to that connection and not yet read
    handled,    \* history: packets given to on_message
    swallowed,  \* history: packets read as the greeting
    drops, crashes

registryVars == <<registry, active, pc, device>>
clientVars   == <<client, sock, inbox, handled, swallowed>>
budgetVars   == <<drops, crashes>>
serverVars   == <<registryVars, clientVars, budgetVars>>

(***************************************************************************)
(* The linked list.                                                        *)
(***************************************************************************)
Node(d, fd) == [device |-> d, socket |-> fd]

NodesOf(list, d) == {i \in DOMAIN list : list[i].device = d}

\* What a walk from the head finds first; meant for a device that is listed.
FirstNode(list, d) ==
    CHOOSE i \in NodesOf(list, d) : \A j \in NodesOf(list, d) : i <= j

AddClient(list, d, fd) == <<Node(d, fd)>> \o list

\* Slips: taking every node of the device; never taking the head.
RemoveClientEveryNode(list, d) == SelectSeq(list, LAMBDA n : n.device # d)

RemoveClientPastHead(list, d) ==
    IF NodesOf(list, d) = {} \/ FirstNode(list, d) = 1
      THEN list ELSE RemoveAt(list, FirstNode(list, d))

RemoveClient(list, d) ==
    IF NodesOf(list, d) = {} THEN list ELSE RemoveAt(list, FirstNode(list, d))

Listed(d) == NodesOf(registry, d) # {}

\* The socket server_send_to_device writes to.
Route(d) == registry[FirstNode(registry, d)].socket

\* The walk of server_get_online_users stops after active_clients nodes.
OnlineUsers ==
    [i \in 1..(IF Len(registry) < active THEN Len(registry) ELSE active)
        |-> registry[i].device]

(***************************************************************************)
(* Sockets.  The result of write() is ignored, so a packet written to a    *)
(* connection with nobody at the other end is lost without a trace.        *)
(***************************************************************************)
PeerGone(fd) == \A d \in Devices : sock[d] # fd

Write(fd, p) ==
    inbox' = [d \in Devices |->
                IF sock[d] = fd THEN Append(inbox[d], p) ELSE inbox[d]]

\* broadcast_message: only nodes named ADMIN_CONSOLE, never the sender's own.
BroadcastNodes(sender) ==
    IF sender = AdminConsole THEN {} ELSE NodesOf(registry, AdminConsole)

Broadcast(sender, p) ==
    inbox' = [d \in Devices |->
        inbox[d] \o [i \in 1..Cardinality({n \in BroadcastNodes(sender) :
                                             registry[n].socket = sock[d]})
                       |-> p]]

SendToDevice(d, p) == IF Listed(d) THEN Write(Route(d), p) ELSE UNCHANGED inbox

(***************************************************************************)
(* The handler thread: "free" stands for a closed descriptor.              *)
(***************************************************************************)
HandlerStates == {"free", "recv_id", "announce", "on_connect", "greet",
                  "serve", "announce_left", "retire", "close"}

\* Threads between add_client_to_list and remove_client_from_list.
Registered == {fd \in Fds : pc[fd] \in {"announce", "on_connect", "greet", "serve"}}

\* Threads that active_clients counts and that have no node on the list.
Unlisted == {fd \in Fds : pc[fd] \in {"recv_id", "announce_left", "retire"}}

Init ==
    /\ registry = <<>>
    /\ active = 0
    /\ pc = [fd \in Fds |-> "free"]
    /\ device = [fd \in Fds |-> NoDevice]
    /\ client = [d \in Devices |-> "down"]
    /\ sock = [d \in Devices |-> NoFd]
    /\ inbox = [d \in Devices |-> <<>>]
    /\ handled = [d \in Devices |-> {}]
    /\ swallowed = [d \in Devices |-> {}]
    /\ drops = 0
    /\ crashes = 0

(* The client dials and sends its identifier; the accept loop takes the    *)
(* connection, counts it and starts a thread.                              *)
Connect(d, fd) ==
    /\ client[d] = "down"
    /\ pc[fd] = "free"
    /\ client' = [client EXCEPT ![d] = "greeting"]
    /\ sock' = [sock EXCEPT ![d] = fd]
    /\ active' = active + 1
    /\ pc' = [pc EXCEPT ![fd] = "recv_id"]
    /\ device' = [device EXCEPT ![fd] = d]
    /\ UNCHANGED <<registry, inbox, handled, swallowed, budgetVars>>

(* The identifier may still be in the socket after the peer has gone.      *)
Register(fd) ==
    /\ pc[fd] = "recv_id"
    /\ registry' = AddClient(registry, device[fd], fd)
    /\ pc' = [pc EXCEPT ![fd] = "announce"]
    /\ UNCHANGED <<active, device, clientVars, budgetVars>>

\* Slip: leaving through the end of the thread, the counter already lowered.
RecvIdFailsCountedTwice(fd) ==
    /\ pc[fd] = "recv_id"
    /\ PeerGone(fd)
    /\ active' = active - 1
    /\ pc' = [pc EXCEPT ![fd] = "retire"]
    /\ UNCHANGED <<registry, device, clientVars, budgetVars>>

(* The peer broke off before its identifier arrived: the thread closes the *)
(* socket and returns, and active_clients keeps counting it.               *)
RecvIdFails(fd) ==
    /\ pc[fd] = "recv_id"
    /\ PeerGone(fd)
    /\ pc' = [pc EXCEPT ![fd] = "free"]
    /\ device' = [device EXCEPT ![fd] = NoDevice]
    /\ UNCHANGED <<registry, active, clientVars, budgetVars>>

AnnounceOnline(fd) ==
    /\ pc[fd] = "announce"
    /\ Broadcast(device[fd], Notice)
    /\ pc' = [pc EXCEPT ![fd] = "on_connect"]
    /\ UNCHANGED <<registry, active, device, client, sock, handled, swallowed,
                   budgetVars>>

(* ctx->on_connect returns.                                                *)
OnConnectReturns(fd) ==
    /\ pc[fd] = "on_connect"
    /\ pc' = [pc EXCEPT ![fd] = "greet"]
    /\ UNCHANGED <<registry, active, device, clientVars, budgetVars>>

SendHello(fd) ==
    /\ pc[fd] = "greet"
    /\ Write(fd, Hello)
    /\ pc' = [pc EXCEPT ![fd] = "serve"]
    /\ UNCHANGED <<registry, active, device, client, sock, handled, swallowed,
                   budgetVars>>

\* Slip: leaving the loop although the connection is still there.
UnregisterAnyTime(fd) ==
    /\ pc[fd] = "serve"
    /\ registry' = RemoveClient(registry, device[fd])
    /\ pc' = [pc EXCEPT ![fd] = "announce_left"]
    /\ UNCHANGED <<active, device, clientVars, budgetVars>>

(* recv_packet reports the end of the connection and the thread takes the  *)
(* first node of its device off the list.                                  *)
Unregister(fd) ==
    /\ pc[fd] = "serve"
    /\ PeerGone(fd)
    /\ registry' = RemoveClient(registry, device[fd])
    /\ pc' = [pc EXCEPT ![fd] = "announce_left"]
    /\ UNCHANGED <<active, device, clientVars, budgetVars>>

AnnounceOffline(fd) ==
    /\ pc[fd] = "announce_left"
    /\ Broadcast(device[fd], Notice)
    /\ pc' = [pc EXCEPT ![fd] = "retire"]
    /\ UNCHANGED <<registry, active, device, client, sock, handled, swallowed,
                   budgetVars>>

Retire(fd) ==
    /\ pc[fd] = "retire"
    /\ active' = active - 1
    /\ pc' = [pc EXCEPT ![fd] = "close"]
    /\ UNCHANGED <<registry, device, clientVars, budgetVars>>

CloseSocket(fd) ==
    /\ pc[fd] = "close"
    /\ pc' = [pc EXCEPT ![fd] = "free"]
    /\ device' = [device EXCEPT ![fd] = NoDevice]
    /\ UNCHANGED <<registry, active, clientVars, budgetVars>>

(***************************************************************************)
(* The listener thread of a client.                                        *)
(***************************************************************************)
ReadGreeting(d) ==
    /\ client[d] = "greeting"
    /\ inbox[d] # <<>>
    /\ swallowed' = [swallowed EXCEPT ![d] = @ \union {Head(inbox[d])}]
    /\ inbox' = [inbox EXCEPT ![d] = Tail(@)]
    /\ client' = [client EXCEPT ![d] = "listening"]
    /\ UNCHANGED <<registryVars, sock, handled, budgetVars>>

OnMessage(d) ==
    /\ client[d] = "listening"
    /\ inbox[d] # <<>>
    /\ handled' = [handled EXCEPT ![d] = @ \union {Head(inbox[d])}]
    /\ inbox' = [inbox EXCEPT ![d] = Tail(@)]
    /\ UNCHANGED <<registryVars, client, sock, swallowed, budgetVars>>

(* The server end is gone and everything it sent has been read.            *)
ConnectionClosed(d) ==
    /\ client[d] # "down"
    /\ sock[d] = NoFd
    /\ inbox[d] = <<>>
    /\ client' = [client EXCEPT ![d] = "down"]
    /\ UNCHANGED <<registryVars, sock, inbox, handled, swallowed,
                   budgetVars>>

(***************************************************************************)
(* Failures: a connection breaks or a client process restarts, with what   *)
(* was in flight to it lost; the server process dies and starts again.     *)
(***************************************************************************)
Drop(d) ==
    /\ drops < MaxDrops
    /\ client[d] # "down"
    /\ client' = [client EXCEPT ![d] = "down"]
    /\ sock' = [sock EXCEPT ![d] = NoFd]
    /\ inbox' = [inbox EXCEPT ![d] = <<>>]
    /\ drops' = drops + 1
    /\ UNCHANGED <<registryVars, handled, swallowed, crashes>>

ServerCrash ==
    /\ crashes < MaxCrashes
    /\ crashes' = crashes + 1
    /\ registry' = <<>>
    /\ active' = 0
    /\ pc' = [fd \in Fds |-> "free"]
    /\ device' = [fd \in Fds |-> NoDevice]
    /\ sock' = [d \in Devices |-> NoFd]
    /\ UNCHANGED <<client, inbox, handled, swallowed, drops>>

(***************************************************************************)
(* HandlerStep is all of handle_client but the callback.                   *)
(***************************************************************************)
HandlerStep(fd) ==
    \/ Register(fd) \/ RecvIdFails(fd) \/ AnnounceOnline(fd) \/ SendHello(fd)
    \/ Unregister(fd) \/ AnnounceOffline(fd) \/ Retire(fd) \/ CloseSocket(fd)

ClientStep(d) ==
    \/ \E fd \in Fds : Connect(d, fd)
    \/ ReadGreeting(d) \/ OnMessage(d) \/ ConnectionClosed(d)

Next ==
    \/ \E fd \in Fds : HandlerStep(fd) \/ OnConnectReturns(fd)
    \/ \E d \in Devices : ClientStep(d) \/ Drop(d)
    \/ ServerCrash

Spec == Init /\ [][Next]_serverVars

(***************************************************************************)
(* Properties.                                                             *)
(***************************************************************************)
RegistryTypeOK ==
    /\ registry \in Seq([device : Devices, socket : Fds])
    /\ active \in Nat
    /\ pc \in [Fds -> HandlerStates]
    /\ device \in [Fds -> Devices \union {NoDevice}]
    /\ \A fd \in Fds : pc[fd] # "free" => device[fd] \in Devices

(* Every variable has its type; a thread that is running knows its device. *)
TypeOK ==
    /\ RegistryTypeOK
    /\ client \in [Devices -> {"down", "greeting", "listening"}]
    /\ sock \in [Devices -> Fds \union {NoFd}]
    /\ inbox \in [Devices -> Seq(Packets)]
    /\ handled \in [Devices -> SUBSET Packets]
    /\ swallowed \in [Devices -> SUBSET Packets]
    /\ drops \in 0..MaxDrops
    /\ crashes \in 0..MaxCrashes

(* The threads of a device that are between adding and removing a node.    *)
RegisteredFor(d) == {fd \in Registered : device[fd] = d}

(* The list holds as many nodes of a device as there are threads of that   *)
(* device between add_client_to_list and remove_client_from_list, although *)
(* a thread removes by name and may take another thread's node: however    *)
(* reconnections overlap, the names listed are the names being served.     *)
NodePerThread ==
    \A d \in Devices :
        Cardinality(NodesOf(registry, d)) = Cardinality(RegisteredFor(d))

(* A device being served by some thread is found by a walk of the list,    *)
(* from the moment it is added until that thread removes a node: sending   *)
(* to it from the connect callback cannot miss.                            *)
ServedIsListed == \A fd \in Registered : Listed(device[fd])

(* Each node, and each thread that has not added one yet or has removed    *)
(* one, is counted by active_clients, whoever removes whose node: the      *)
(* counter cannot go below zero, and the walk of server_get_online_users,  *)
(* which it bounds, reports every node.  A thread that returns before it   *)
(* reads an identifier is counted forever, hence no equality.              *)
ActiveCoversThreads == Len(registry) + Cardinality(Unlisted) <= active

(* A connection has a living thread at its server end, running for that    *)
(* device, that has not begun to leave; and no two clients share it.       *)
ConnectedIsServed ==
    /\ \A d \in Devices : sock[d] # NoFd =>
         /\ device[sock[d]] = d
         /\ pc[sock[d]] \in {"recv_id", "announce", "on_connect", "greet", "serve"}
    /\ \A d, e \in Devices : d # e /\ sock[d] # NoFd => sock[d] # sock[e]
=============================================================================

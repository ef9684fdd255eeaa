----------------------------- MODULE Conversation -----------------------------
(***************************************************************************)
(* The conversation of one order: MessagesService, MessagesGateway and the *)
(* OrderConversation component of a browser tab per user.                  *)
(*                                                                         *)
(* A thread learns of messages by three ways that do not wait for each     *)
(* other: the list it asks for when it is mounted, the list it asks for    *)
(* after sending, and what the gateway pushes to sockets in the order's    *)
(* room.                                                                   *)
(*                                                                         *)
(* Browsers meet only in what they store, so the users outside Tabs are no *)
(* more than their messages.  The thread is one order's: on another        *)
(* order's page another one is mounted.  Typing, read receipts, bells and  *)
(* mail are left out.                                                      *)
(***************************************************************************)
EXTENDS Naturals, SequencesExt

CONSTANTS
  Users,       \* those who write
  Tabs,        \* the users whose browsers are looked at, one tab each
  Role,        \* the role of each user
  None,
  MaxMessages, \* bound: messages posted
  MaxLoads,    \* bound: lists a thread has asked for at a time
  MaxDrops     \* bound: connections lost, per user

ASSUME ConversationAssumption ==
  /\ Tabs \subseteq Users
  /\ MaxMessages \in Nat /\ MaxLoads \in Nat \ {0} /\ MaxDrops \in Nat
  /\ None \notin Nat

VARIABLES
  message, \* the messages, in the order in which they are stored
  post,    \* each user's POST on the server: 0, then the message that it stored
  tab,     \* per user: is the thread mounted, its messages, its send button
  load,    \* the lists that each mounted thread has asked for
  socket,  \* per user: the connection, the join on its way, member of the room
  push,    \* messages on their way to each socket
  lapse    \* history: since its last list a thread may have missed something

vars == <<message, post, tab, load, socket, push, lapse>>

Ids == 1..MaxMessages
Loads == 1..MaxLoads

\* A message: who wrote it, is it internal, whom of those looked at does it mention.
Messages == [author : Users, isInternal : BOOLEAN, mentions : SUBSET Tabs]

\* What is asked for, and whether `send` awaits it; the number of messages that the
\* database held when it answered; and, as a history, whether the thread learned of
\* anything meanwhile.
NoLoad == [state |-> "NONE", stored |-> 0, overtaken |-> FALSE, awaited |-> FALSE]
Asked(awaited) == [state |-> "ASKED", stored |-> 0, overtaken |-> FALSE, awaited |-> awaited]

Thread == [mounted : BOOLEAN, messages : Seq(Ids), send : {"IDLE", "SENDING", "RELOADING", "STUCK"}]
Load == [state : {"NONE", "ASKED", "ANSWERED"}, stored : 0..MaxMessages,
         overtaken : BOOLEAN, awaited : BOOLEAN]
Socket == [state : {"OFFLINE", "CONNECTED", "READY"}, join : {"NONE", "BUFFERED", "SENT"},
           inRoom : BOOLEAN, drops : 0..MaxDrops]

TypeOK ==
  /\ message \in Seq(Messages) /\ Len(message) <= MaxMessages
  /\ post \in [Users -> {None, 0} \cup Ids]
  /\ tab \in [Tabs -> Thread]
  /\ load \in [Tabs -> [Loads -> Load]]
  /\ socket \in [Tabs -> Socket]
  /\ push \in [Tabs -> Seq(Ids)]
  /\ lapse \in [Tabs -> BOOLEAN]

Unmounted == [mounted |-> FALSE, messages |-> <<>>, send |-> "IDLE"]
NoLoads == [l \in Loads |-> NoLoad]

Init ==
  /\ message = <<>>
  /\ post = [u \in Users |-> None]
  /\ tab = [u \in Tabs |-> Unmounted]
  /\ load = [u \in Tabs |-> NoLoads]
  /\ socket = [u \in Tabs |-> [state |-> "OFFLINE", join |-> "NONE", inRoom |-> FALSE, drops |-> 0]]
  /\ push = [u \in Tabs |-> <<>>]
  /\ lapse = [u \in Tabs |-> TRUE]

-----------------------------------------------------------------------------
(* Visibility *)

RestrictedRoles == {"FACTORY_MANAGER", "FACTORY_VIEWER", "STONE_MANAGER"}

\* isMessageVisible
Visible(u, m) ==
  \/ ~m.isInternal
  \/ Role[u] \notin RestrictedRoles \cup {"CUSTOMER"}
  \/ Role[u] \in RestrictedRoles /\ (m.author = u \/ u \in m.mentions)

\* Bug: everybody in the room is sent everything.
PushedToAll(u, m) == TRUE

\* Bug: those who are mentioned are forgotten.
PushedToStaff(u, m) == ~m.isInternal \/ Role[u] \notin RestrictedRoles \cup {"CUSTOMER"}

\* The gateway's rule for sockets.
PushedTo(u, m) == Visible(u, m)

\* getMessages, when k messages are stored: the oldest first.
VisibleList(u, k) ==
  LET visible == {i \in 1..k : Visible(u, message[i])}
  IN  CHOOSE list \in SeqOf(visible, k) :
        /\ ToSet(list) = visible
        /\ \A i, j \in DOMAIN list : i < j => list[i] < list[j]

-----------------------------------------------------------------------------
(* The browser *)

Overtaken(u) ==
  [l \in Loads |-> [load[u][l] EXCEPT !.overtaken = load[u][l].state # "NONE"]]

FreeLoad(u) == CHOOSE l \in Loads : load[u][l].state = "NONE"
HasFreeLoad(u) == \E l \in Loads : load[u][l].state = "NONE"
LoadAsked(u, awaited) == load' = [load EXCEPT ![u][FreeLoad(u)] = Asked(awaited)]

\* The thread is mounted: the list is asked for, the room is joined.  A client that
\* is not connected keeps the event and sends it when it is.
Mount(u) ==
  /\ ~tab[u].mounted
  /\ tab' = [tab EXCEPT ![u] = [Unmounted EXCEPT !.mounted = TRUE]]
  /\ LoadAsked(u, FALSE)
  /\ socket' = [socket EXCEPT ![u].join = IF @ # "NONE" THEN @
                                          ELSE IF socket[u].state = "OFFLINE" THEN "BUFFERED" ELSE "SENT"]
  /\ lapse' = [lapse EXCEPT ![u] = TRUE]
  /\ UNCHANGED <<message, post, push>>

\* Answers to a thread that is gone are dropped.  A join on its way may reach the
\* room after the leave.
Unmount(u) ==
  /\ tab[u].mounted
  /\ tab' = [tab EXCEPT ![u] = Unmounted]
  /\ load' = [load EXCEPT ![u] = NoLoads]
  /\ socket' = [socket EXCEPT ![u].inRoom = FALSE]
  /\ UNCHANGED <<message, post, push, lapse>>

\* setMessages with the list, or with the empty list if the server answered with an
\* error; a send that awaited it is over.
Answered(u, l, list) ==
  /\ tab' = [tab EXCEPT ![u].messages = list,
                        ![u].send = IF load[u][l].awaited THEN "IDLE" ELSE @]
  /\ load' = [load EXCEPT ![u] = [Overtaken(u) EXCEPT ![l] = NoLoad]]
  /\ UNCHANGED <<message, post, socket, push>>

ReceiveList(u, l) ==
  /\ load[u][l].state = "ANSWERED"
  /\ Answered(u, l, VisibleList(u, load[u][l].stored))
  /\ lapse' = [lapse EXCEPT ![u] = load[u][l].overtaken]

ReceiveError(u, l) ==
  /\ load[u][l].state # "NONE"
  /\ Answered(u, l, <<>>)
  /\ lapse' = [lapse EXCEPT ![u] = TRUE]

\* No answer, or one that cannot be read: the thread keeps what it shows, and a send
\* that awaited the list never ends.
LoseList(u, l) ==
  /\ load[u][l].state # "NONE"
  /\ tab' = [tab EXCEPT ![u].send = IF load[u][l].awaited THEN "STUCK" ELSE @]
  /\ load' = [load EXCEPT ![u][l] = NoLoad]
  /\ UNCHANGED <<message, post, socket, push, lapse>>

\* Bug: what is pushed is appended whether it is there or not.
ShownAgain(shown, i) == Append(shown, i)

Shown(shown, i) == IF Contains(shown, i) THEN shown ELSE Append(shown, i)

\* onNewMessage; without a thread nobody listens.
ReceivePush(u) ==
  /\ push[u] # <<>>
  /\ push' = [push EXCEPT ![u] = Tail(@)]
  /\ IF tab[u].mounted
     THEN /\ tab' = [tab EXCEPT ![u].messages = Shown(@, Head(push[u]))]
          /\ load' = [load EXCEPT ![u] = Overtaken(u)]
     ELSE UNCHANGED <<tab, load>>
  /\ UNCHANGED <<message, post, socket, lapse>>

\* send, and what follows the answer of the server, whatever it is.  Without an
\* answer the button stays disabled.
Send(u) ==
  /\ Role[u] # "FACTORY_VIEWER"
  /\ tab[u].mounted /\ tab[u].send = "IDLE" /\ post[u] = None
  /\ tab' = [tab EXCEPT ![u].send = "SENDING"]
  /\ post' = [post EXCEPT ![u] = 0]
  /\ UNCHANGED <<message, load, socket, push, lapse>>

\* Somebody whose browser is not looked at.
SendElsewhere(u) ==
  /\ Role[u] # "FACTORY_VIEWER" /\ post[u] = None
  /\ post' = [post EXCEPT ![u] = 0]
  /\ UNCHANGED <<message, tab, load, socket, push, lapse>>

Reload(u) ==
  /\ tab[u].send = "SENDING" /\ post[u] # 0
  /\ HasFreeLoad(u)
  /\ tab' = [tab EXCEPT ![u].send = "RELOADING"]
  /\ LoadAsked(u, TRUE)
  /\ UNCHANGED <<message, post, socket, push, lapse>>

AnswerLost(u) ==
  /\ tab[u].send = "SENDING"
  /\ tab' = [tab EXCEPT ![u].send = "STUCK"]
  /\ UNCHANGED <<message, post, load, socket, push, lapse>>

-----------------------------------------------------------------------------
(* The server *)

Answer(u, l) ==
  /\ load[u][l].state = "ASKED"
  /\ load' = [load EXCEPT ![u][l] = [@ EXCEPT !.state = "ANSWERED", !.stored = Len(message)]]
  /\ UNCHANGED <<message, post, tab, socket, push, lapse>>

\* postMessage stores the message, or fails before it does; a customer's is never
\* internal.
Store(u) ==
  /\ post[u] = 0
  /\ \/ /\ Len(message) < MaxMessages
        /\ \E m \in Messages :
             /\ m.author = u
             /\ Role[u] = "CUSTOMER" => ~m.isInternal
             /\ message' = Append(message, m)
        /\ post' = [post EXCEPT ![u] = Len(message')]
     \/ post' = [post EXCEPT ![u] = None] /\ UNCHANGED message
  /\ UNCHANGED <<tab, load, socket, push, lapse>>

\* broadcastNewMessage is not waited for: the room is looked up later.
Broadcast(u) ==
  /\ post[u] \in Ids
  /\ LET i == post[u]
     IN  /\ push' = [v \in Tabs |->
                       IF socket[v].inRoom /\ PushedTo(v, message[i]) THEN Append(push[v], i) ELSE push[v]]
         /\ lapse' = [v \in Tabs |-> lapse[v] \/ ~socket[v].inRoom]
         /\ load' = [v \in Tabs |-> IF socket[v].inRoom THEN load[v] ELSE Overtaken(v)]
  /\ post' = [post EXCEPT ![u] = None]
  /\ UNCHANGED <<message, tab, socket>>

\* The transport is up; what the client has buffered is sent at once, while
\* handleConnection still looks up the user.
Connect(u) ==
  /\ socket[u].state = "OFFLINE"
  /\ socket' = [socket EXCEPT ![u].state = "CONNECTED",
                              ![u].join = IF @ = "BUFFERED" THEN "SENT" ELSE @]
  /\ UNCHANGED <<message, post, tab, load, push, lapse>>

Authenticate(u) ==
  /\ socket[u].state = "CONNECTED"
  /\ socket' = [socket EXCEPT ![u].state = "READY"]
  /\ UNCHANGED <<message, post, tab, load, push, lapse>>

\* joinOrder: nothing happens while the user is not known.
JoinOrder(u) ==
  /\ socket[u].join = "SENT"
  /\ socket' = [socket EXCEPT ![u].join = "NONE", ![u].inRoom = @ \/ socket[u].state = "READY"]
  /\ UNCHANGED <<message, post, tab, load, push, lapse>>

\* The network fails or the server restarts: rooms, and what is on its way, are gone.
\* Nobody joins again when the connection is back.
Disconnect(u) ==
  /\ socket[u].state # "OFFLINE" /\ socket[u].drops < MaxDrops
  /\ socket' = [socket EXCEPT ![u] = [state |-> "OFFLINE", join |-> "NONE", inRoom |-> FALSE,
                                      drops |-> @.drops + 1]]
  /\ push' = [push EXCEPT ![u] = <<>>]
  /\ lapse' = [lapse EXCEPT ![u] = @ \/ push[u] # <<>>]
  /\ load' = IF push[u] # <<>> THEN [load EXCEPT ![u] = Overtaken(u)] ELSE load
  /\ UNCHANGED <<message, post, tab>>

-----------------------------------------------------------------------------

Browser(u) ==
  \/ Mount(u) \/ Unmount(u) \/ Send(u) \/ Reload(u) \/ AnswerLost(u) \/ ReceivePush(u)
  \/ \E l \in Loads : ReceiveList(u, l) \/ ReceiveError(u, l) \/ LoseList(u, l)

Gateway(u) == Connect(u) \/ Authenticate(u) \/ JoinOrder(u) \/ Disconnect(u)

Next ==
  \/ \E u \in Tabs : Browser(u) \/ Gateway(u) \/ \E l \in Loads : Answer(u, l)
  \/ \E u \in Users \ Tabs : SendElsewhere(u)
  \/ \E u \in Users : Store(u) \/ Broadcast(u)

Spec == Init /\ [][Next]_vars

-----------------------------------------------------------------------------
(* What holds *)

\* No message is shown twice, although lists, pushes and the list after a send bring
\* the same ones in any order.
NoDuplicates == \A u \in Tabs : IsInjective(tab[u].messages)

\* The two ways of a message to a browser apply one rule: what the list hides from a
\* reader is not pushed to her either.
OnlyVisibleShown ==
  \A u \in Tabs : \A i \in ToSet(tab[u].messages) : Visible(u, message[i])

Settled(u) ==
  /\ tab[u].mounted /\ push[u] = <<>>
  /\ \A l \in Loads : load[u][l].state = "NONE"
  /\ \A v \in Users : post[v] \notin Ids

\* A thread whose last list was not overtaken by a push or another list, and whose
\* socket has been in the room for every message since, shows all that its reader
\* may see.
SettledThreadIsComplete ==
  \A u \in Tabs : Settled(u) /\ ~lapse[u] =>
    ToSet(tab[u].messages) = {i \in DOMAIN message : Visible(u, message[i])}

-----------------------------------------------------------------------------
(* What the comments say and the code does not keep *)

\* OrderConversation: joined to the order's room for as long as the thread is mounted.
JoinedWhileMounted ==
  \A u \in Tabs :
    tab[u].mounted /\ socket[u].state = "READY" /\ socket[u].join = "NONE" => socket[u].inRoom
=============================================================================

--------------------------- MODULE WsConnections ---------------------------
(***************************************************************************)
(* ConnectionManager of src/notification/ws.py for one user, with the      *)
(* coroutines of its sockets (notification_websocket) and one running      *)
(* send_to_user.  A coroutine keeps the list it looked up across awaits:   *)
(* disconnect takes an emptied list out of the dictionary, and the next    *)
(* connect puts a new one there.  The old one stays empty, so "the list I  *)
(* hold" is the current one or, an epoch later, the empty sequence.        *)
(***************************************************************************)
EXTENDS Naturals, Sequences, Functions

CONSTANTS
    MaxSockets,      \* bound: sockets the user ever opens
    MaxConns         \* connections kept per user: 3 in the code

ASSUME WsAssumption == MaxSockets \in Nat /\ MaxConns \in Nat \ {0}

VARIABLES
    active,      \* _active[user_id], or the empty sequence
    epoch,       \* which list object that is
    socket,      \* per socket: where its coroutine is
    late,        \* connections that were registered by a connect whose list had
                 \* been dropped while it waited, since the current one exists
    sending      \* send_to_user: position, list, sockets it reached, stale ones

ws_vars == <<active, epoch, socket, late, sending>>

Sockets == 1..MaxSockets
Fresh == [at |-> "new", epoch |-> 0]
NoSend == [on |-> FALSE, pos |-> 0, epoch |-> 0, sent |-> {}, again |-> {}, stale |-> {}]

WsInit ==
    /\ active = <<>>
    /\ epoch = 0
    /\ socket = [w \in Sockets |-> Fresh]
    /\ late = 0
    /\ sending = NoSend

View(e) == IF e = epoch THEN active ELSE <<>>

\* Mutant: the sockets stay in the list.
Disconnected_kept(W) == UNCHANGED <<active, epoch, late>>

\* list.remove for every socket of W that is in the list.
Without(s, W) ==
    LET F[i \in 0..Len(s)] == IF i = 0 THEN <<>>
                              ELSE IF s[i] \in W THEN F[i - 1]
                              ELSE Append(F[i - 1], s[i])
    IN  F[Len(s)]

\* disconnect(user_id, ws) for every socket of W; an emptied list is dropped.
Disconnected(W) ==
    LET rest == Without(active, W)
    IN  /\ active' = rest
        /\ IF rest = <<>> /\ active # <<>>
           THEN /\ epoch' = epoch + 1
                /\ late' = 0
           ELSE UNCHANGED <<epoch, late>>

\* Mutant: the new connection is put first.
RegisteredFirst(w) == <<w>> \o active

Registered(w) == Append(active, w)

\* Mutant: the room is looked for once, before the first await.
GoOnOnce(w, e) ==
    LET conns == View(e)
    IN  IF Len(conns) >= MaxConns /\ socket[w].at = "new"
        THEN /\ active' = Tail(active)
             /\ socket' = [socket EXCEPT ![w] = [at |-> "evicting", epoch |-> e],
                                         ![Head(conns)] = [at |-> "closed", epoch |-> 0]]
             /\ UNCHANGED late
        ELSE /\ active' = Registered(w)
             /\ socket' = [socket EXCEPT ![w] = [at |-> "open", epoch |-> 0]]
             /\ late' = IF e = epoch THEN late ELSE late + 1

\* From one await of connect to the next: evict the oldest connection and wait
\* until it is closed, or register w.  The evicted socket leaves its receive
\* loop, and its own disconnect then finds nothing to remove.
GoOn(w, e) ==
    LET conns == View(e)
    IN  IF Len(conns) >= MaxConns
        THEN /\ active' = Tail(active)
             /\ socket' = [socket EXCEPT ![w] = [at |-> "evicting", epoch |-> e],
                                         ![Head(conns)] = [at |-> "closed", epoch |-> 0]]
             /\ UNCHANGED late
        ELSE /\ active' = Registered(w)
             /\ socket' = [socket EXCEPT ![w] = [at |-> "open", epoch |-> 0]]
             /\ late' = IF e = epoch THEN late ELSE late + 1

\* connect after ws.accept(); sockets are numbered as they arrive.
connect(w) ==
    /\ socket[w].at = "new"
    /\ \A v \in Sockets : v < w => socket[v].at # "new"
    /\ GoOn(w, epoch)
    /\ UNCHANGED <<epoch, sending>>

\* old_ws.close() has returned.
connect_resumed(w) ==
    /\ socket[w].at = "evicting"
    /\ GoOn(w, socket[w].epoch)
    /\ UNCHANGED <<epoch, sending>>

\* The peer is gone: receive_text raises and the coroutine disconnects.
disconnect(w) ==
    /\ socket[w].at = "open"
    /\ socket' = [socket EXCEPT ![w] = [at |-> "closed", epoch |-> 0]]
    /\ Disconnected({w})
    /\ UNCHANGED sending

\* send_to_user looks up the list and starts to iterate over it.
send_to_user ==
    /\ ~sending.on
    /\ active # <<>>
    /\ sending' = [NoSend EXCEPT !.on = TRUE, !.pos = 1, !.epoch = epoch]
    /\ UNCHANGED <<active, epoch, socket, late>>

\* One send_text: the iterator takes what is at its position by now.  It may
\* raise, and does so when the socket is closed.
SendNext(raises) ==
    LET conns == View(sending.epoch)
        w     == conns[sending.pos]
    IN  /\ sending.on
        /\ sending.pos <= Len(conns)
        /\ socket[w].at # "open" => raises
        /\ sending' = [sending EXCEPT
                         !.pos = @ + 1,
                         !.sent = @ \union {w},
                         !.again = IF w \in sending.sent THEN @ \union {w} ELSE @,
                         !.stale = IF raises THEN @ \union {w} ELSE @]
        /\ UNCHANGED <<active, epoch, socket, late>>

\* The end of the list: the sockets whose send raised are taken out, though
\* their coroutines still wait for messages.
SendEnds ==
    /\ sending.on
    /\ sending.pos > Len(View(sending.epoch))
    /\ sending' = NoSend
    /\ UNCHANGED socket
    /\ Disconnected(sending.stale)

WsNext ==
    \/ \E w \in Sockets : connect(w) \/ connect_resumed(w) \/ disconnect(w)
    \/ send_to_user
    \/ \E raises \in BOOLEAN : SendNext(raises)
    \/ SendEnds

WsSpec == WsInit /\ [][WsNext]_ws_vars

-----------------------------------------------------------------------------
WsTypeOK ==
    /\ active \in Seq(Sockets)
    /\ \A w \in Sockets : socket[w].at \in {"new", "evicting", "open", "closed"}
    /\ IsInjective(active)
    /\ \A i \in DOMAIN active : socket[active[i]].at = "open"

\* A user has at most MaxConns registered connections, however many connects
\* wait for the close of an evicted socket at once: each looks again when it
\* goes on.  Only a connect whose list was emptied and dropped while it waited
\* looks at the wrong list, and each such one adds at most one connection.
AtMostMaxConns == Len(active) <= MaxConns + late

\* One notification reaches a connection at most once, although the list is
\* changed under the iterator: a removal can only make it skip, and a new
\* connection comes behind it.
NoDuplicateSends == sending.again = {}

=============================================================================

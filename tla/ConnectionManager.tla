------------------------- MODULE ConnectionManager -------------------------
(***************************************************************************)
(* RabbitMQConnectionManager and the ReconnectManager it drives: one       *)
(* connection with one channel in it, kept alive by recoverActiveChannel() *)
(* and taken down by disconnect().                                         *)
(*                                                                         *)
(* connect(), disconnect() and recoverActiveChannel() are async functions: *)
(* calls of them interleave at their awaits.  A call is a frame: Main is   *)
(* BlinkApp.start() and, later, stop(); every recovery started by a        *)
(* 'close' event is a frame of Recovery.  A frame at a Running place holds *)
(* the event loop; at any other place it awaits an event or a timer.       *)
(***************************************************************************)
EXTENDS Naturals, FiniteSets

CONSTANTS
  Link,        \* identities of connections; each carries one channel
  Recovery,    \* frames for calls of recoverActiveChannel()
  NoLink,      \* the `false` in this.connection and this.channel
  Main,        \* the frame of start() and stop()
  MaxLoss,     \* bound: connections cut and channels killed
  MayStop      \* does the application call stop()?

ASSUME LinkAssumption == NoLink \notin Link
ASSUME FrameAssumption == Main \notin Recovery
ASSUME BoundAssumption == MaxLoss \in Nat /\ MayStop \in BOOLEAN

VARIABLES
  socket,         \* per link: its TCP/AMQP connection
  chan,           \* per link: its channel
  onChannel,      \* links whose channel has the 'close' listener
  onConnection,   \* links whose connection has it
  connection, channel, connected, recoveryLock,   \* the manager's fields
  executionLock, interrupted,                     \* ReconnectManager's
  pc,             \* per frame: where it is
  await,          \* per frame: the link whose reply it awaits
  unheard,        \* links that closed before anybody listened to them
  stopMidway,     \* did stop() begin while a recovery was in progress?
  losses

network == <<socket, chan, losses>>
listeners == <<onChannel, onConnection>>
manager == <<connection, channel, connected, recoveryLock>>
reconnect == <<executionLock, interrupted>>
frames  == <<pc, await>>
history == <<unheard, stopMidway>>
vars == <<network, listeners, manager, reconnect, frames, history>>

Frame   == {Main} \cup Recovery
\* "cut" and "killed": gone at the broker's end, unknown to the client.
SocketState  == {"unused", "open", "closing", "cut", "shut"}
ChannelState == {"unused", "opening", "open", "closing", "killed", "shut"}

Running == {"disconnect", "closeChannel", "closeConnection", "loop", "enable"}
Waiting == {"polling", "awaitChannel", "awaitConnection",
            "awaitTCP", "awaitOpen", "opened", "pause"}
Resting == {"idle", "up", "stopped"}

Quiet == \A f \in Frame : pc[f] \notin Running
Goto(f, place) == pc' = [pc EXCEPT ![f] = place]

Init ==
  /\ socket = [l \in Link |-> "unused"]
  /\ chan = [l \in Link |-> "unused"]
  /\ onChannel = {}
  /\ onConnection = {}
  /\ connection = NoLink
  /\ channel = NoLink
  /\ connected = FALSE
  /\ recoveryLock = FALSE
  /\ executionLock = TRUE      \* start() has called connect()
  /\ interrupted = FALSE
  /\ pc = [f \in Frame |-> IF f = Main THEN "loop" ELSE "idle"]
  /\ await = [f \in Frame |-> NoLink]
  /\ unheard = {}
  /\ stopMidway = FALSE
  /\ losses = 0

-----------------------------------------------------------------------------
(* connect(): ReconnectManager.reconnect(createActiveChannel), then        *)
(* enableAutoRecovery().                                                   *)
\* Mutant: reconnect() does not look at interrupted.
TryAlways(f) ==
  /\ pc[f] = "loop"
  /\ Goto(f, "awaitTCP")
  /\ UNCHANGED <<network, listeners, manager, reconnect, await, history>>

\* The head of reconnect()'s loop.
TryOrGiveUp(f) ==
  /\ pc[f] = "loop"
  /\ IF interrupted
       THEN executionLock' = FALSE /\ Goto(f, "idle")
       ELSE Goto(f, "awaitTCP") /\ UNCHANGED executionLock
  /\ UNCHANGED <<network, listeners, manager, interrupted, await, history>>

TCPRefused(f) ==
  /\ Quiet
  /\ pc[f] = "awaitTCP"
  /\ Goto(f, "pause")
  /\ UNCHANGED <<network, listeners, manager, reconnect, await, history>>

\* establishTCPConnection() succeeds; a channel is asked for at once.
TCPConnected(f, l) ==
  /\ Quiet
  /\ pc[f] = "awaitTCP"
  /\ socket[l] = "unused"
  /\ socket' = [socket EXCEPT ![l] = "open"]
  /\ chan' = [chan EXCEPT ![l] = "opening"]
  /\ connection' = l
  /\ await' = [await EXCEPT ![f] = l]
  /\ Goto(f, "awaitOpen")
  /\ UNCHANGED <<losses, listeners, channel, connected, recoveryLock, reconnect, history>>

\* The broker's reply: from here the channel can close, although nobody
\* listens before createActiveChannel() and connect() have resumed.
ChannelOpened(f) ==
  /\ Quiet
  /\ pc[f] = "awaitOpen"
  /\ chan[await[f]] = "opening"
  /\ socket[await[f]] = "open"
  /\ chan' = [chan EXCEPT ![await[f]] = "open"]
  /\ Goto(f, "opened")
  /\ UNCHANGED <<socket, losses, listeners, manager, reconnect, await, history>>

ChannelRefused(f) ==
  /\ Quiet
  /\ pc[f] = "awaitOpen"
  /\ chan[await[f]] = "shut"
  /\ Goto(f, "pause")
  /\ UNCHANGED <<network, listeners, manager, reconnect, await, history>>

\* createActiveChannel() resumes and returns true; so does reconnect().
ActiveChannelCreated(f) ==
  /\ Quiet
  /\ pc[f] = "opened"
  /\ channel' = await[f]
  /\ connected' = TRUE
  /\ executionLock' = FALSE
  /\ Goto(f, "enable")
  /\ UNCHANGED <<network, listeners, connection, recoveryLock, interrupted, await, history>>
\* Mutant: the recovery lock stays.
EnabledButLocked(f) ==
  /\ pc[f] = "enable"
  /\ onChannel' = onChannel \cup {channel}
  /\ onConnection' = onConnection \cup ({connection} \ {NoLink})
  /\ Goto(f, IF f = Main THEN "up" ELSE "idle")
  /\ UNCHANGED <<network, manager, reconnect, await, history>>

\* Mutant: the connection is taken to be there.
EnabledRegardless(f) ==
  /\ pc[f] = "enable"
  /\ recoveryLock' = FALSE
  /\ onChannel' = onChannel \cup {channel}
  /\ onConnection' = onConnection \cup {connection}
  /\ Goto(f, IF f = Main THEN "up" ELSE "idle")
  /\ UNCHANGED <<network, connection, channel, connected, reconnect, await, history>>

\* With no connection any more, the second listener is a TypeError: the
\* lock is released and the channel listened to nevertheless.
EnableAutoRecovery(f) ==
  /\ pc[f] = "enable"
  /\ recoveryLock' = FALSE
  /\ onChannel' = onChannel \cup {channel}
  /\ onConnection' = onConnection \cup ({connection} \ {NoLink})
  /\ Goto(f, IF f = Main THEN "up" ELSE "idle")
  /\ UNCHANGED <<network, connection, channel, connected, reconnect, await, history>>

\* The delay between two attempts is over.
PauseOver(f) ==
  /\ Quiet
  /\ pc[f] = "pause"
  /\ Goto(f, "loop")
  /\ UNCHANGED <<network, listeners, manager, reconnect, await, history>>

-----------------------------------------------------------------------------
(* disconnect() *)
\* Mutant: disconnect() does not lock auto recovery.
InterruptUnlocked(f) ==
  /\ pc[f] = "disconnect"
  /\ interrupted' = (interrupted \/ executionLock)
  /\ Goto(f, IF executionLock THEN "polling" ELSE "closeChannel")
  /\ UNCHANGED <<network, listeners, manager, executionLock, await, history>>

\* Lock auto recovery, then ReconnectManager.interrupt().
Interrupt(f) ==
  /\ pc[f] = "disconnect"
  /\ recoveryLock' = TRUE
  /\ interrupted' = (interrupted \/ executionLock)
  /\ Goto(f, IF executionLock THEN "polling" ELSE "closeChannel")
  /\ UNCHANGED <<network, listeners, connection, channel, connected, executionLock,
                 await, history>>

\* interrupt()'s polling timer finds reconnect() finished.
Interrupted(f) ==
  /\ Quiet
  /\ pc[f] = "polling"
  /\ ~executionLock
  /\ interrupted' = FALSE
  /\ Goto(f, "closeChannel")
  /\ UNCHANGED <<network, listeners, manager, executionLock, await, history>>

\* channel.close(): a handshake, if the client believes the channel open,
\* or an error, of the call or of a missing channel, that is ignored.
CloseChannel(f) ==
  /\ pc[f] = "closeChannel"
  /\ IF channel # NoLink /\ chan[channel] \in {"open", "killed"}
       THEN /\ chan' = [chan EXCEPT ![channel] = IF @ = "open" THEN "closing" ELSE @]
            /\ await' = [await EXCEPT ![f] = channel]
            /\ Goto(f, "awaitChannel")
       ELSE Goto(f, "closeConnection") /\ UNCHANGED <<chan, await>>
  /\ UNCHANGED <<socket, losses, listeners, manager, reconnect, history>>

ChannelCloseReturned(f) ==
  /\ Quiet
  /\ pc[f] = "awaitChannel"
  /\ chan[await[f]] = "shut"
  /\ Goto(f, "closeConnection")
  /\ UNCHANGED <<network, listeners, manager, reconnect, await, history>>

\* What follows disconnect(): stop() is over, a recovery connects.
AfterDisconnect(f) ==
  /\ connection' = NoLink
  /\ connected' = FALSE
  /\ executionLock' = (executionLock \/ f # Main)
  /\ Goto(f, IF f = Main THEN "stopped" ELSE "loop")
\* Mutant: a recovery replaces the channel and forgets the connection.
ConnectionForgotten(f) ==
  /\ pc[f] = "closeConnection"
  /\ channel' = NoLink
  /\ AfterDisconnect(f)
  /\ UNCHANGED <<socket, await>>
  /\ UNCHANGED <<chan, losses, listeners, recoveryLock, interrupted, history>>

\* this.channel = false, then connection.close(), likewise.
CloseConnection(f) ==
  /\ pc[f] = "closeConnection"
  /\ channel' = NoLink
  /\ IF connection # NoLink /\ socket[connection] \in {"open", "cut"}
       THEN /\ socket' = [socket EXCEPT ![connection] = IF @ = "open" THEN "closing" ELSE @]
            /\ await' = [await EXCEPT ![f] = connection]
            /\ Goto(f, "awaitConnection")
            /\ UNCHANGED <<connection, connected, executionLock>>
       ELSE AfterDisconnect(f) /\ UNCHANGED <<socket, await>>
  /\ UNCHANGED <<chan, losses, listeners, recoveryLock, interrupted, history>>

ConnectionCloseReturned(f) ==
  /\ Quiet
  /\ pc[f] = "awaitConnection"
  /\ socket[await[f]] = "shut"
  /\ AfterDisconnect(f)
  /\ UNCHANGED <<network, listeners, channel, recoveryLock, interrupted, await, history>>

\* The application stops: BlinkApp.stop() calls broker.disconnect().
Stop ==
  /\ MayStop
  /\ Quiet
  /\ pc[Main] = "up"
  /\ Goto(Main, "disconnect")
  /\ stopMidway' = (\E r \in Recovery : pc[r] # "idle")
  /\ UNCHANGED <<network, listeners, manager, reconnect, await, unheard>>

-----------------------------------------------------------------------------
(* The network, and the 'close' events it causes *)

CutConnection(l) ==
  /\ Quiet
  /\ socket[l] \in {"open", "closing"}
  /\ losses < MaxLoss
  /\ losses' = losses + 1
  /\ socket' = [socket EXCEPT ![l] = "cut"]
  /\ UNCHANGED <<chan, listeners, manager, reconnect, frames, history>>

\* RabbitMQ kills a channel and leaves its connection.
KillChannel(l) ==
  /\ Quiet
  /\ socket[l] = "open" /\ chan[l] = "open"
  /\ losses < MaxLoss
  /\ losses' = losses + 1
  /\ chan' = [chan EXCEPT ![l] = "killed"]
  /\ UNCHANGED <<socket, listeners, manager, reconnect, frames, history>>
\* Mutant: recoverActiveChannel() does not look at its lock.
EmitUnlocked(heard) ==
  IF heard
    THEN /\ recoveryLock' = TRUE
         /\ connected' = FALSE
         /\ \E r \in Recovery : pc[r] = "idle" /\ Goto(r, "disconnect")
    ELSE UNCHANGED <<recoveryLock, connected, pc>>

\* A listener calls recoverActiveChannel(), which the lock may turn away.
Emit(heard) ==
  IF heard /\ ~recoveryLock
    THEN /\ recoveryLock' = TRUE
         /\ connected' = FALSE
         /\ \E r \in Recovery : pc[r] = "idle" /\ Goto(r, "disconnect")
    ELSE UNCHANGED <<recoveryLock, connected, pc>>

\* The channel's own end: a CloseOk, or the broker's Close.
ChannelCloses(l) ==
  /\ Quiet
  /\ socket[l] = "open"
  /\ chan[l] \in {"closing", "killed"}
  /\ chan' = [chan EXCEPT ![l] = "shut"]
  /\ Emit(l \in onChannel)
  /\ unheard' = IF l \in onChannel THEN unheard ELSE unheard \cup {l}
  /\ UNCHANGED <<socket, losses, listeners, connection, channel, reconnect, await,
                 stopMidway>>

\* The connection's end (CloseOk or a dead socket), its channel's with it.
ConnectionCloses(l) ==
  /\ Quiet
  /\ socket[l] \in {"closing", "cut"}
  /\ socket' = [socket EXCEPT ![l] = "shut"]
  /\ chan' = [chan EXCEPT ![l] = "shut"]
  /\ Emit(l \in onConnection \/ (l \in onChannel /\ chan[l] # "shut"))
  /\ unheard' = IF l \in onConnection \cup onChannel \/ chan[l] = "opening"
                  THEN unheard ELSE unheard \cup {l}
  /\ UNCHANGED <<losses, listeners, connection, channel, reconnect, await, stopMidway>>

-----------------------------------------------------------------------------

Connect(f) ==
  \/ TryOrGiveUp(f)
  \/ TCPRefused(f)
  \/ \E l \in Link : TCPConnected(f, l)
  \/ ChannelOpened(f)
  \/ ChannelRefused(f)
  \/ ActiveChannelCreated(f)
  \/ EnableAutoRecovery(f)
  \/ PauseOver(f)

Disconnect(f) ==
  \/ Interrupt(f)
  \/ Interrupted(f)
  \/ CloseChannel(f)
  \/ ChannelCloseReturned(f)
  \/ CloseConnection(f)
  \/ ConnectionCloseReturned(f)

Network(l) ==
  \/ CutConnection(l)
  \/ KillChannel(l)
  \/ ChannelCloses(l)
  \/ ConnectionCloses(l)

Next ==
  \/ \E f \in Frame : Connect(f) \/ Disconnect(f)
  \/ Stop
  \/ \E l \in Link : Network(l)

Spec == Init /\ [][Next]_vars

\* The event loop serves every callback that is ready (strongly, because a
\* frame that runs disables the others meanwhile); the broker answers what
\* it was asked, or the client learns that the connection is gone.  A broker
\* may be away for as long as it likes, and nobody has to stop anything.
Fairness ==
  /\ \A f \in Frame : SF_vars(Connect(f) \/ Disconnect(f))
  /\ SF_vars(\E l \in Link : ChannelCloses(l) \/ ConnectionCloses(l))

FairSpec == Spec /\ Fairness

\* The broker comes back: an attempt that is repeated for ever succeeds.
BrokerReturns == \A f \in Frame : SF_vars(\E l \in Link : TCPConnected(f, l))

-----------------------------------------------------------------------------
(* Properties *)

\* Fields, sockets and frames keep their types; no frame leaves the places of
\* connect(), disconnect() and recoverActiveChannel().
TypeOK ==
  /\ socket \in [Link -> SocketState]
  /\ chan \in [Link -> ChannelState]
  /\ onChannel \subseteq Link /\ onConnection \subseteq Link
  /\ connection \in Link \cup {NoLink} /\ channel \in Link \cup {NoLink}
  /\ connected \in BOOLEAN /\ recoveryLock \in BOOLEAN
  /\ executionLock \in BOOLEAN /\ interrupted \in BOOLEAN
  /\ pc \in [Frame -> Running \cup Waiting \cup Resting]
  /\ await \in [Frame -> Link \cup {NoLink}]
  /\ unheard \subseteq Link
  /\ stopMidway \in BOOLEAN
  /\ losses \in 0..MaxLoss

Recovering == {r \in Recovery : pc[r] # "idle"}

\* recoverActiveChannel(): "we need to execute this only once", however many
\* events of however many links ask for it.
OneRecovery == Cardinality(Recovering) <= 1

\* A stop() that finds no recovery in progress is final: whatever events its
\* own closing handshakes cause, nothing is reconnected or left open.
CleanStop ==
  pc[Main] = "stopped" /\ ~stopMidway =>
    /\ Recovering = {}
    /\ ~connected /\ channel = NoLink
    /\ \A l \in Link : socket[l] \notin {"open", "closing"}

\* Before stop(), no connection is leaked: whenever no frame is at work, an
\* open connection is the one the manager holds, with the channel it uses.
NoOrphan ==
  pc[Main] = "up" /\ Recovering = {} =>
    \A l \in Link : socket[l] = "open" => l = connection /\ l = channel

\* stop() comes to an end, also against a reconnect() that never succeeds.
StopEnds == pc[Main] = "disconnect" ~> pc[Main] = "stopped"

Linked == connected /\ channel # NoLink /\ chan[channel] = "open"
                    /\ socket[channel] = "open"

\* A lost link is replaced if the broker comes back and the loss was not
\* announced before enableAutoRecovery() had put its listeners in place;
\* unless the application is being stopped.
LinkRestored ==
  BrokerReturns =>
    []<>(Linked \/ unheard # {} \/ pc[Main] = "stopped")

=============================================================================

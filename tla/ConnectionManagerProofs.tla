----------------------- MODULE ConnectionManagerProofs -----------------------
(***************************************************************************)
(* Theorems about ConnectionManager, for any number of links, frames and   *)
(* losses: at most one recovery is at work, a stop() that finds none is    *)
(* final, and no connection is leaked.  First the types, with the turns    *)
(* that frames take on the event loop; then the two locks; then, as long   *)
(* as no stop() meets a recovery, what the one frame at work leaves of the *)
(* links.                                                                  *)
(***************************************************************************)
EXTENDS ConnectionManager, FiniteSetTheorems, TLAPS

-----------------------------------------------------------------------------
(* Types, and turns on the event loop *)

\* One frame runs at a time; what a frame that connects awaits, and what it
\* listens to afterwards, is a link.
Turns ==
  /\ \A f, g \in Frame : pc[f] \in Running /\ pc[g] \in Running => f = g
  /\ \A f \in Frame : pc[f] \in {"awaitOpen", "opened"} => await[f] \in Link
  /\ \A f \in Frame : pc[f] = "enable" => channel \in Link

TypeInv == TypeOK /\ Turns

\* A 'close' event starts a recovery, or nothing happens.
LEMMA EmitEffect ==
  ASSUME NEW heard \in BOOLEAN, Emit(heard)
  PROVE  \/ UNCHANGED <<recoveryLock, connected, pc>> /\ (heard => recoveryLock)
         \/ /\ heard /\ ~recoveryLock /\ recoveryLock' = TRUE /\ connected' = FALSE
            /\ \E r \in Recovery :
                 pc[r] = "idle" /\ pc' = [pc EXCEPT ![r] = "disconnect"]
BY DEF Emit, Goto

\* The frame whose turn it is goes on, or gives the turn back.
LEMMA TurnTaken ==
  ASSUME TypeInv, NEW f \in Frame, NEW place \in Running \cup Waiting \cup Resting,
         Goto(f, place), Quiet \/ pc[f] \in Running
  PROVE  /\ pc' \in [Frame -> Running \cup Waiting \cup Resting]
         /\ pc'[f] = place /\ \A g \in Frame \ {f} : pc'[g] = pc[g]
         /\ \A g, h \in Frame : pc'[g] \in Running /\ pc'[h] \in Running => g = h
<1>1. /\ pc \in [Frame -> Running \cup Waiting \cup Resting]
      /\ \A g, h \in Frame : pc[g] \in Running /\ pc[h] \in Running => g = h
  BY DEF TypeInv, TypeOK, Turns
<1>2. \A g \in Frame \ {f} : pc[g] \notin Running
  BY <1>1 DEF Quiet
<1>3. pc' = [pc EXCEPT ![f] = place]
  BY DEF Goto
<1>4. /\ pc' \in [Frame -> Running \cup Waiting \cup Resting]
      /\ pc'[f] = place /\ \A g \in Frame \ {f} : pc'[g] = pc[g]
  BY <1>1, <1>3
<1>5. QED
  BY <1>2, <1>4

LEMMA ConnectTyped ==
  ASSUME TypeInv, NEW f \in Frame, Connect(f)
  PROVE  TypeInv'
<1> USE DEF TypeInv, TypeOK, Turns, Running, Waiting, Resting, network, listeners, manager,
        reconnect, frames, history
<1>1. CASE TryOrGiveUp(f)
  <2>1. PICK place \in {"idle", "awaitTCP"} : Goto(f, place)
    BY <1>1 DEF TryOrGiveUp
  <2>2. /\ pc' \in [Frame -> Running \cup Waiting \cup Resting]
        /\ pc'[f] = place /\ \A g \in Frame \ {f} : pc'[g] = pc[g]
        /\ \A g, h \in Frame : pc'[g] \in Running /\ pc'[h] \in Running => g = h
    BY <1>1, <2>1, TurnTaken DEF TryOrGiveUp
  <2>3. QED
    BY <1>1, <2>1, <2>2 DEF TryOrGiveUp
<1>2. ASSUME NEW place \in {"pause", "loop"}, Quiet, Goto(f, place),
             UNCHANGED <<network, listeners, manager, reconnect, await, history>>
      PROVE  TypeInv'
  <2>1. /\ pc' \in [Frame -> Running \cup Waiting \cup Resting]
        /\ pc'[f] = place /\ \A g \in Frame \ {f} : pc'[g] = pc[g]
        /\ \A g, h \in Frame : pc'[g] \in Running /\ pc'[h] \in Running => g = h
    BY <1>2, TurnTaken
  <2>2. QED
    BY <1>2, <2>1
<1>3. CASE TCPRefused(f) \/ ChannelRefused(f) \/ PauseOver(f)
  BY <1>2, <1>3 DEF TCPRefused, ChannelRefused, PauseOver
<1>4. ASSUME NEW l \in Link, TCPConnected(f, l) PROVE TypeInv'
  <2>1. /\ pc' \in [Frame -> Running \cup Waiting \cup Resting]
        /\ pc'[f] = "awaitOpen" /\ \A g \in Frame \ {f} : pc'[g] = pc[g]
        /\ \A g, h \in Frame : pc'[g] \in Running /\ pc'[h] \in Running => g = h
    BY <1>4, TurnTaken DEF TCPConnected
  <2>2. /\ socket' \in [Link -> SocketState] /\ chan' \in [Link -> ChannelState]
        /\ await' \in [Frame -> Link \cup {NoLink}] /\ await'[f] = l
        /\ \A g \in Frame \ {f} : await'[g] = await[g]
    BY <1>4 DEF TCPConnected, SocketState, ChannelState
  <2>3. QED
    BY <1>4, <2>1, <2>2 DEF TCPConnected
<1>5. CASE ChannelOpened(f)
  <2>1. /\ pc' \in [Frame -> Running \cup Waiting \cup Resting]
        /\ pc'[f] = "opened" /\ \A g \in Frame \ {f} : pc'[g] = pc[g]
        /\ \A g, h \in Frame : pc'[g] \in Running /\ pc'[h] \in Running => g = h
    BY <1>5, TurnTaken DEF ChannelOpened
  <2>2. chan' \in [Link -> ChannelState]
    BY <1>5 DEF ChannelOpened, ChannelState
  <2>3. QED
    BY <1>5, <2>1, <2>2 DEF ChannelOpened
<1>6. CASE ActiveChannelCreated(f)
  <2>1. /\ pc' \in [Frame -> Running \cup Waiting \cup Resting]
        /\ pc'[f] = "enable" /\ \A g \in Frame \ {f} : pc'[g] = pc[g]
        /\ \A g, h \in Frame : pc'[g] \in Running /\ pc'[h] \in Running => g = h
    BY <1>6, TurnTaken DEF ActiveChannelCreated
  <2>2. channel' \in Link
    BY <1>6 DEF ActiveChannelCreated
  <2>3. QED
    BY <1>6, <2>1, <2>2 DEF ActiveChannelCreated
<1>7. CASE EnableAutoRecovery(f)
  <2>1. PICK place \in {"up", "idle"} : Goto(f, place)
    BY <1>7 DEF EnableAutoRecovery
  <2>2. /\ pc' \in [Frame -> Running \cup Waiting \cup Resting]
        /\ pc'[f] = place /\ \A g \in Frame \ {f} : pc'[g] = pc[g]
        /\ \A g, h \in Frame : pc'[g] \in Running /\ pc'[h] \in Running => g = h
    BY <1>7, <2>1, TurnTaken DEF EnableAutoRecovery
  <2>3. onChannel' \subseteq Link /\ onConnection' \subseteq Link
    BY <1>7 DEF EnableAutoRecovery
  <2>4. QED
    BY <1>7, <2>1, <2>2, <2>3 DEF EnableAutoRecovery
<1>8. QED
  BY <1>1, <1>3, <1>4, <1>5, <1>6, <1>7 DEF Connect

LEMMA DisconnectTyped ==
  ASSUME TypeInv, NEW f \in Frame, Disconnect(f)
  PROVE  TypeInv'
<1> USE DEF TypeInv, TypeOK, Turns, Running, Waiting, Resting, network, listeners, manager,
        reconnect, frames, history
<1>1. PICK place \in {"polling", "closeChannel", "awaitChannel", "closeConnection",
                      "awaitConnection", "stopped", "loop"} : Goto(f, place)
  BY DEF Disconnect, Interrupt, Interrupted, CloseChannel, ChannelCloseReturned,
     CloseConnection, ConnectionCloseReturned, AfterDisconnect
<1>2. Quiet \/ pc[f] \in Running
  BY DEF Disconnect, Interrupt, Interrupted, CloseChannel, ChannelCloseReturned,
     CloseConnection, ConnectionCloseReturned
<1>3. /\ pc' \in [Frame -> Running \cup Waiting \cup Resting]
      /\ pc'[f] = place /\ \A g \in Frame \ {f} : pc'[g] = pc[g]
      /\ \A g, h \in Frame : pc'[g] \in Running /\ pc'[h] \in Running => g = h
  BY <1>1, <1>2, TurnTaken
<1>4. \A g \in Frame : pc'[g] \notin {"enable"}
  BY <1>1, <1>2, <1>3 DEF Quiet, Disconnect, Interrupt, Interrupted, CloseChannel,
     ChannelCloseReturned, CloseConnection, ConnectionCloseReturned
<1>5. /\ await' \in [Frame -> Link \cup {NoLink}]
      /\ \A g \in Frame \ {f} : await'[g] = await[g]
  BY DEF Disconnect, Interrupt, Interrupted, CloseChannel, ChannelCloseReturned,
     CloseConnection, ConnectionCloseReturned
<1>6. Turns'
  BY <1>1, <1>3, <1>4, <1>5
<1>7. CASE Interrupt(f) \/ Interrupted(f) \/ ChannelCloseReturned(f)
  BY <1>3, <1>5, <1>6, <1>7 DEF Interrupt, Interrupted, ChannelCloseReturned
<1>8. CASE CloseChannel(f)
  <2>1. chan' \in [Link -> ChannelState]
    BY <1>8 DEF CloseChannel, ChannelState
  <2>2. QED
    BY <1>3, <1>5, <1>6, <1>8, <2>1 DEF CloseChannel
<1>9. CASE CloseConnection(f) \/ ConnectionCloseReturned(f)
  <2>1. /\ socket' \in [Link -> SocketState]
        /\ connection' \in Link \cup {NoLink} /\ connected' \in BOOLEAN
        /\ executionLock' \in BOOLEAN /\ channel' \in Link \cup {NoLink}
    BY <1>9 DEF CloseConnection, ConnectionCloseReturned, AfterDisconnect, SocketState
  <2>2. QED
    BY <1>3, <1>5, <1>6, <1>9, <2>1 DEF CloseConnection, ConnectionCloseReturned
<1>10. QED
  BY <1>7, <1>8, <1>9 DEF Disconnect

LEMMA NetworkTyped ==
  ASSUME TypeInv, NEW l \in Link, Network(l)
  PROVE  TypeInv'
<1> USE DEF TypeInv, TypeOK, Turns, network, listeners, manager, reconnect, frames, history
<1>1. /\ socket' \in [Link -> SocketState] /\ chan' \in [Link -> ChannelState]
      /\ unheard' \subseteq Link /\ losses' \in 0..MaxLoss
  BY BoundAssumption DEF Network, CutConnection, KillChannel, ChannelCloses, ConnectionCloses,
     SocketState, ChannelState
<1>2. UNCHANGED <<onChannel, onConnection, connection, channel, reconnect, await, stopMidway>>
  BY DEF Network, CutConnection, KillChannel, ChannelCloses, ConnectionCloses
<1>3. CASE UNCHANGED <<recoveryLock, connected, pc>>
  BY <1>1, <1>2, <1>3
<1>4. CASE /\ recoveryLock' = TRUE /\ connected' = FALSE
           /\ \E r \in Recovery : pc[r] = "idle" /\ pc' = [pc EXCEPT ![r] = "disconnect"]
  <2>1. PICK r \in Recovery : pc[r] = "idle" /\ pc' = [pc EXCEPT ![r] = "disconnect"]
    BY <1>4
  <2>2. r \in Frame /\ Quiet
    BY DEF Frame, Network, CutConnection, KillChannel, ChannelCloses, ConnectionCloses
  <2>3. /\ pc' \in [Frame -> Running \cup Waiting \cup Resting]
        /\ pc'[r] = "disconnect" /\ \A g \in Frame \ {r} : pc'[g] = pc[g]
        /\ \A g, h \in Frame : pc'[g] \in Running /\ pc'[h] \in Running => g = h
    BY <2>1, <2>2, TurnTaken DEF Goto, Running
  <2>4. QED
    BY <1>1, <1>2, <1>4, <2>3
<1>5. CASE CutConnection(l) \/ KillChannel(l)
  BY <1>3, <1>5 DEF CutConnection, KillChannel
<1>6. CASE ChannelCloses(l) \/ ConnectionCloses(l)
  <2>1. ASSUME NEW heard \in BOOLEAN, Emit(heard) PROVE TypeInv'
    BY <1>3, <1>4, <2>1, EmitEffect
  <2>2. CASE ChannelCloses(l)
    <3>1. (l \in onChannel) \in BOOLEAN /\ Emit(l \in onChannel)
      BY <2>2 DEF ChannelCloses
    <3>2. QED
      BY <2>1, <3>1, Zenon
  <2>3. CASE ConnectionCloses(l)
    BY <2>1, <2>3 DEF ConnectionCloses
  <2>4. QED
    BY <1>6, <2>2, <2>3
<1>7. QED
  BY <1>5, <1>6 DEF Network

LEMMA StepTyped == TypeInv /\ [Next]_vars => TypeInv'
<1> SUFFICES ASSUME TypeInv, [Next]_vars PROVE TypeInv'
  OBVIOUS
<1>1. CASE Stop
  <2>1. Main \in Frame
    BY DEF Frame
  <2>2. /\ pc' \in [Frame -> Running \cup Waiting \cup Resting]
        /\ pc'[Main] = "disconnect" /\ \A g \in Frame \ {Main} : pc'[g] = pc[g]
        /\ \A g, h \in Frame : pc'[g] \in Running /\ pc'[h] \in Running => g = h
    BY <1>1, <2>1, TurnTaken DEF Stop, Running
  <2>3. QED
    BY <1>1, <2>2 DEF Stop, TypeInv, TypeOK, Turns, network, listeners, manager, reconnect
<1>2. CASE UNCHANGED vars
  BY <1>2 DEF vars, TypeInv, TypeOK, Turns, network, listeners, manager, reconnect, frames,
     history
<1>3. QED
  BY <1>1, <1>2, ConnectTyped, DisconnectTyped, NetworkTyped DEF Next

LEMMA InitTyped == Init => TypeInv
<1> SUFFICES ASSUME Init PROVE TypeInv
  OBVIOUS
<1>1. /\ socket \in [Link -> SocketState] /\ chan \in [Link -> ChannelState]
      /\ pc \in [Frame -> Running \cup Waiting \cup Resting]
      /\ await \in [Frame -> Link \cup {NoLink}]
  BY DEF Init, SocketState, ChannelState, Running, Resting
<1>2. Turns
  BY DEF Init, Turns, Running
<1>3. /\ onChannel \subseteq Link /\ onConnection \subseteq Link /\ unheard \subseteq Link
      /\ connection \in Link \cup {NoLink} /\ channel \in Link \cup {NoLink}
      /\ connected \in BOOLEAN /\ recoveryLock \in BOOLEAN
      /\ executionLock \in BOOLEAN /\ interrupted \in BOOLEAN /\ stopMidway \in BOOLEAN
  BY DEF Init
<1>4. losses \in 0..MaxLoss
  BY BoundAssumption DEF Init
<1>5. QED
  BY <1>1, <1>2, <1>3, <1>4 DEF TypeInv, TypeOK

\* Types hold for any number of links, frames and losses.
THEOREM TypeCorrect == Spec => []TypeOK
<1>1. TypeInv => TypeOK
  BY DEF TypeInv
<1>2. QED
  BY <1>1, InitTyped, StepTyped, PTL DEF Spec

-----------------------------------------------------------------------------
(* The recovery lock *)

Starting == {"loop", "awaitTCP", "awaitOpen", "opened", "pause", "enable"}

\* A recovery holds the lock until its end, so no other one begins; while the
\* application starts, nothing is listened to that could begin one.
Locks ==
  /\ \A r \in Recovery : pc[r] \notin {"up", "stopped"}
  /\ \A r, s \in Recovery : pc[r] # "idle" /\ pc[s] # "idle" => r = s
  /\ \A r \in Recovery : pc[r] # "idle" => recoveryLock
  /\ pc[Main] \in Starting =>
       onChannel = {} /\ onConnection = {} /\ \A r \in Recovery : pc[r] = "idle"
  /\ pc[Main] \in Starting \cup {"up"} => ~stopMidway

\* What a step of connect() or disconnect() does to its frame.
LEMMA FrameMoves ==
  ASSUME TypeInv, NEW f \in Frame, Connect(f) \/ Disconnect(f)
  PROVE  /\ pc[f] \notin Resting
         /\ \A g \in Frame \ {f} : pc'[g] = pc[g]
         /\ \/ EnableAutoRecovery(f) /\ pc'[f] = IF f = Main THEN "up" ELSE "idle"
            \/ /\ UNCHANGED <<onChannel, onConnection>> /\ (recoveryLock => recoveryLock')
               /\ pc'[f] # "up" /\ (pc'[f] = "stopped" => f = Main)
               /\ pc'[f] \in Starting => pc[f] \in Starting \/ f # Main
         /\ stopMidway' = stopMidway
<1>1. pc \in [Frame -> Running \cup Waiting \cup Resting]
  BY DEF TypeInv, TypeOK
<1>2. CASE Connect(f)
  BY <1>1, <1>2 DEF Connect, TryOrGiveUp, TCPRefused, TCPConnected, ChannelOpened,
     ChannelRefused, ActiveChannelCreated, EnableAutoRecovery, PauseOver, Goto, Resting,
     Starting, history, listeners, manager
<1>3. CASE Disconnect(f)
  BY <1>1, <1>3 DEF Disconnect, Interrupt, Interrupted, CloseChannel, ChannelCloseReturned,
     CloseConnection, ConnectionCloseReturned, AfterDisconnect, Goto, Resting,
     Starting, history, listeners, manager
<1>4. QED
  BY <1>2, <1>3

\* What a step of the network does to the frames.
LEMMA NetworkMoves ==
  ASSUME TypeInv, NEW l \in Link, Network(l)
  PROVE  /\ Quiet
         /\ UNCHANGED <<onChannel, onConnection, connection, channel, executionLock, interrupted,
                        await, stopMidway>>
         /\ \/ UNCHANGED <<recoveryLock, connected, pc>>
            \/ /\ l \in onChannel \cup onConnection
               /\ ~recoveryLock /\ recoveryLock' = TRUE /\ connected' = FALSE
               /\ \E r \in Recovery :
                    pc[r] = "idle" /\ pc' = [pc EXCEPT ![r] = "disconnect"]
<1> USE DEF manager, frames, history, listeners, reconnect
<1>1. CASE CutConnection(l) \/ KillChannel(l)
  BY <1>1 DEF CutConnection, KillChannel
<1>2. CASE ChannelCloses(l)
  BY <1>2 DEF ChannelCloses, Emit, Goto
<1>3. CASE ConnectionCloses(l)
  BY <1>3 DEF ConnectionCloses, Emit, Goto
<1>4. QED
  BY <1>1, <1>2, <1>3 DEF Network

LEMMA StepLocks == TypeInv /\ TypeInv' /\ Locks /\ [Next]_vars => Locks'
<1> SUFFICES ASSUME TypeInv, TypeInv', Locks, [Next]_vars PROVE Locks'
  OBVIOUS
<1>0. /\ pc \in [Frame -> Running \cup Waiting \cup Resting]
      /\ Main \in Frame /\ Main \notin Recovery /\ \A r \in Recovery : r \in Frame
  BY FrameAssumption DEF TypeInv, TypeOK, Frame
<1>1. ASSUME NEW f \in Frame, Connect(f) \/ Disconnect(f) PROVE Locks'
  <2>1. /\ pc[f] \notin Resting
        /\ \A g \in Frame \ {f} : pc'[g] = pc[g]
        /\ stopMidway' = stopMidway
    BY <1>1, FrameMoves
  <2>2. CASE EnableAutoRecovery(f) /\ pc'[f] = IF f = Main THEN "up" ELSE "idle"
    <3>1. pc[f] = "enable" /\ f \in {Main} \cup Recovery
      BY <2>2 DEF EnableAutoRecovery, Frame
    <3>2. CASE f = Main
      BY <1>0, <2>1, <2>2, <3>1, <3>2 DEF Locks, Starting
    <3>3. CASE f \in Recovery
      BY <1>0, <2>1, <2>2, <3>1, <3>3 DEF Locks, Starting
    <3>4. QED
      BY <3>1, <3>2, <3>3
  <2>3. CASE /\ UNCHANGED <<onChannel, onConnection>> /\ (recoveryLock => recoveryLock')
             /\ pc'[f] # "up" /\ (pc'[f] = "stopped" => f = Main)
             /\ pc'[f] \in Starting => pc[f] \in Starting \/ f # Main
    BY <1>0, <2>1, <2>3 DEF Locks, Resting, Starting
  <2>4. QED
    BY <1>1, <2>2, <2>3, FrameMoves
<1>2. ASSUME NEW l \in Link, Network(l) PROVE Locks'
  <2>1. CASE UNCHANGED <<recoveryLock, connected, pc>>
    BY <1>2, <2>1, NetworkMoves DEF Locks
  <2>2. CASE /\ l \in onChannel \cup onConnection
             /\ ~recoveryLock /\ recoveryLock' = TRUE
             /\ \E r \in Recovery : pc[r] = "idle" /\ pc' = [pc EXCEPT ![r] = "disconnect"]
    <3>1. pc[Main] \notin Starting
      BY <2>2 DEF Locks
    <3>2. PICK r \in Recovery : pc[r] = "idle" /\ pc' = [pc EXCEPT ![r] = "disconnect"]
      BY <2>2
    <3>3. \A s \in Recovery : pc[s] = "idle"
      BY <2>2 DEF Locks
    <3>4. pc'[r] = "disconnect" /\ \A g \in Frame \ {r} : pc'[g] = pc[g]
      BY <1>0, <3>2
    <3>5. stopMidway' = stopMidway
      BY <1>2, NetworkMoves
    <3>6. QED
      BY <1>0, <2>2, <3>1, <3>3, <3>4, <3>5 DEF Locks
  <2>3. QED
    BY <1>2, <2>1, <2>2, NetworkMoves
<1>3. CASE Stop
  BY <1>0, <1>3 DEF Stop, Locks, Goto, Starting, listeners, manager
<1>4. CASE UNCHANGED vars
  BY <1>4 DEF vars, listeners, manager, frames, history, Locks
<1>5. QED
  BY <1>1, <1>2, <1>3, <1>4 DEF Next

LEMMA InitLocks == Init => Locks
BY FrameAssumption DEF Init, Locks, Starting, Frame

\* recoverActiveChannel() runs once at a time, however many 'close' events of
\* however many links call it, also while a stop() disconnects
\* (RabbitMQConnectionManager.recoverActiveChannel).
THEOREM OneRecoveryHolds == Spec => []OneRecovery
<1>1. Locks => OneRecovery
  <2>1. SUFFICES ASSUME Locks PROVE OneRecovery
    OBVIOUS
  <2>2. CASE Recovering = {}
    BY <2>2, FS_EmptySet DEF OneRecovery
  <2>3. CASE Recovering # {}
    <3>1. PICK r : r \in Recovering
      BY <2>3
    <3>2. Recovering = {r}
      BY <2>1, <3>1 DEF Recovering, Locks
    <3>3. Cardinality(Recovering) = 1
      BY <3>2, FS_Singleton
    <3>4. QED
      BY <3>3 DEF OneRecovery
  <2>4. QED
    BY <2>2, <2>3
<1>2. QED
  BY <1>1, InitTyped, StepTyped, InitLocks, StepLocks, PTL DEF Spec

-----------------------------------------------------------------------------
(* As long as no stop() has met a recovery, one frame is at work *)

AtWork(f) == pc[f] \notin Resting

Alone ==
  ~stopMidway =>
    /\ \A f, g \in Frame : AtWork(f) /\ AtWork(g) => f = g
    /\ pc[Main] \in {"closeChannel", "awaitChannel", "closeConnection", "awaitConnection",
                     "stopped"} => recoveryLock
    /\ pc[Main] = "stopped" => \A r \in Recovery : pc[r] = "idle"
    /\ ~interrupted /\ \A f \in Frame : pc[f] # "polling"
    /\ executionLock => \E f \in Frame : pc[f] \in Starting \ {"enable"}

\* Nobody else connects, so disconnect() has nothing to interrupt.
LEMMA NothingToInterrupt ==
  ASSUME TypeInv, Alone, ~stopMidway, NEW f \in Frame, AtWork(f), executionLock
  PROVE  pc[f] \in Starting \ {"enable"}
BY DEF Alone, AtWork, Resting, Starting

LEMMA FrameAlone ==
  ASSUME TypeInv, TypeInv', Locks, Alone, ~stopMidway, NEW f \in Frame,
         Connect(f) \/ Disconnect(f)
  PROVE  Alone'
<1>0. /\ pc \in [Frame -> Running \cup Waiting \cup Resting]
      /\ Main \in Frame /\ Main \notin Recovery /\ Frame = {Main} \cup Recovery
      /\ interrupted \in BOOLEAN /\ executionLock \in BOOLEAN /\ recoveryLock \in BOOLEAN
      /\ executionLock' \in BOOLEAN /\ recoveryLock' \in BOOLEAN
  BY FrameAssumption DEF TypeInv, TypeOK, Frame
<1>1. /\ AtWork(f) /\ \A g \in Frame \ {f} : pc'[g] = pc[g] /\ ~AtWork(g)
      /\ stopMidway' = stopMidway
  BY FrameMoves DEF Alone, AtWork
<1>2. \A g, h \in Frame : AtWork(g)' /\ AtWork(h)' => g = h
  BY <1>1 DEF AtWork
<1>3. f \in Recovery => pc[Main] \in {"up", "idle"} /\ pc'[Main] = pc[Main]
  BY <1>0, <1>1 DEF Alone, AtWork, Resting
<1>4. ~interrupted /\ pc[f] # "polling"
  BY DEF Alone
<1>5. CASE Connect(f)
  <2>1. pc'[f] \in Starting \cup {"up", "idle"} /\ interrupted' = interrupted /\ pc[f] \in Starting
    BY <1>0, <1>5 DEF Connect, TryOrGiveUp, TCPRefused, TCPConnected, ChannelOpened,
       ChannelRefused, ActiveChannelCreated, EnableAutoRecovery, PauseOver, Goto,
       Starting, reconnect
  <2>2. executionLock' => pc'[f] \in Starting \ {"enable"}
    <3>1. CASE pc[f] = "enable"
      <4>1. ~executionLock
        BY <1>1, <3>1, NothingToInterrupt
      <4>2. QED
        BY <1>5, <3>1, <4>1 DEF Connect, TryOrGiveUp, TCPRefused, TCPConnected, ChannelOpened,
           ChannelRefused, ActiveChannelCreated, EnableAutoRecovery, PauseOver, reconnect
    <3>2. CASE pc[f] # "enable"
      BY <1>0, <1>4, <1>5, <3>2 DEF Connect, TryOrGiveUp, TCPRefused, TCPConnected, ChannelOpened,
         ChannelRefused, ActiveChannelCreated, EnableAutoRecovery, PauseOver, Goto, Starting
    <3>3. QED
      BY <3>1, <3>2
  <2>3. pc'[Main] \in Starting \cup {"up", "idle"}
    BY <1>0, <1>3, <2>1
  <2>4. QED
    BY <1>1, <1>2, <1>4, <2>1, <2>2, <2>3 DEF Alone, Starting
<1>6. CASE Disconnect(f)
  <2>1. ~executionLock
    BY <1>1, <1>6, NothingToInterrupt DEF Disconnect, Interrupt, Interrupted, CloseChannel,
       ChannelCloseReturned, CloseConnection, ConnectionCloseReturned, Starting
  <2>2. /\ ~interrupted' /\ pc'[f] # "polling"
        /\ executionLock' => pc'[f] = "loop"
        /\ recoveryLock' = TRUE \/ (recoveryLock' = recoveryLock /\ pc[f] # "disconnect")
    <3>1. CASE Interrupt(f)
      BY <1>0, <1>4, <2>1, <3>1 DEF Interrupt, Goto
    <3>2. CASE Interrupted(f)
      BY <1>4, <3>2 DEF Interrupted
    <3>3. CASE CloseChannel(f) \/ ChannelCloseReturned(f)
      BY <1>0, <1>4, <2>1, <3>3 DEF CloseChannel, ChannelCloseReturned, Goto, reconnect, manager
    <3>4. CASE CloseConnection(f) \/ ConnectionCloseReturned(f)
      BY <1>0, <1>4, <2>1, <3>4 DEF CloseConnection, ConnectionCloseReturned, AfterDisconnect,
         Goto
    <3>5. QED
      BY <1>6, <3>1, <3>2, <3>3, <3>4 DEF Disconnect
  <2>3. f = Main /\ pc[f] # "disconnect" => recoveryLock
    BY <1>6 DEF Alone, Disconnect, Interrupt, Interrupted, CloseChannel,
       ChannelCloseReturned, CloseConnection, ConnectionCloseReturned
  <2>4. f = Main => recoveryLock' /\ \A r \in Recovery : pc'[r] = "idle"
    <3>1. f = Main => \A r \in Recovery : pc[r] \in Resting /\ pc'[r] = pc[r]
      BY <1>0, <1>1 DEF AtWork
    <3>2. f = Main => \A r \in Recovery : pc'[r] = "idle"
      BY <3>1 DEF Resting, Locks
    <3>3. f = Main => recoveryLock'
      BY <1>0, <2>2, <2>3
    <3>4. QED
      BY <3>2, <3>3
  <2>5. QED
    BY <1>0, <1>1, <1>2, <1>3, <2>2, <2>4 DEF Alone, Starting
<1>7. QED
  BY <1>5, <1>6

LEMMA StepAlone == TypeInv /\ TypeInv' /\ Locks /\ Alone /\ [Next]_vars => Alone'
<1> SUFFICES ASSUME TypeInv, TypeInv', Locks, Alone, [Next]_vars PROVE Alone'
  OBVIOUS
<1>0. /\ pc \in [Frame -> Running \cup Waiting \cup Resting]
      /\ Main \in Frame /\ Main \notin Recovery /\ Frame = {Main} \cup Recovery
  BY FrameAssumption DEF TypeInv, TypeOK, Frame
<1>1. ASSUME NEW f \in Frame, Connect(f) \/ Disconnect(f) PROVE Alone'
  <2>1. stopMidway' = stopMidway
    BY <1>1, FrameMoves
  <2>2. QED
    BY <1>1, <2>1, FrameAlone DEF Alone
<1>2. ASSUME NEW l \in Link, Network(l) PROVE Alone'
  <2>0. SUFFICES ASSUME ~stopMidway' PROVE Alone'
    BY DEF Alone
  <2>1. ~stopMidway /\ UNCHANGED <<stopMidway, executionLock, interrupted>> /\ Quiet
    BY <1>2, <2>0, NetworkMoves
  <2>2. CASE UNCHANGED <<recoveryLock, connected, pc>>
    BY <2>1, <2>2 DEF Alone, AtWork
  <2>3. CASE /\ l \in onChannel \cup onConnection
             /\ ~recoveryLock /\ recoveryLock' = TRUE
             /\ \E r \in Recovery : pc[r] = "idle" /\ pc' = [pc EXCEPT ![r] = "disconnect"]
    <3>1. \A s \in Recovery : pc[s] = "idle"
      BY <2>3 DEF Locks
    <3>2. pc[Main] \in {"up", "idle"}
      <4>1. pc[Main] \notin Starting
        BY <2>3 DEF Locks
      <4>2. pc[Main] # "disconnect"
        BY <1>0, <2>1 DEF Quiet, Running
      <4>3. QED
        BY <1>0, <2>1, <2>3, <4>1, <4>2 DEF Alone, Running, Waiting, Resting, Starting
    <3>3. PICK r \in Recovery : pc[r] = "idle" /\ pc' = [pc EXCEPT ![r] = "disconnect"]
      BY <2>3
    <3>4. pc'[r] = "disconnect" /\ \A g \in Frame \ {r} : pc'[g] \in {"up", "idle"}
      BY <1>0, <3>1, <3>2, <3>3
    <3>5. ~executionLock
      BY <1>0, <2>1, <3>1, <3>2 DEF Alone, Starting
    <3>6. QED
      BY <1>0, <2>1, <3>4, <3>5 DEF Alone, AtWork, Resting
  <2>4. QED
    BY <1>2, <2>2, <2>3, NetworkMoves
<1>3. CASE Stop
  <2>0. SUFFICES ASSUME ~stopMidway' PROVE Alone'
    BY DEF Alone
  <2>1. ~stopMidway /\ \A r \in Recovery : pc[r] = "idle"
    BY <1>3, <2>0 DEF Stop, Locks
  <2>2. pc'[Main] = "disconnect" /\ \A g \in Frame \ {Main} : pc'[g] = "idle"
    BY <1>0, <1>3, <2>1 DEF Stop, Goto
  <2>3. ~executionLock
    BY <1>0, <1>3, <2>1 DEF Stop, Alone, Starting
  <2>4. QED
    BY <1>0, <1>3, <2>1, <2>2, <2>3 DEF Stop, Alone, AtWork, Resting, reconnect
<1>4. CASE UNCHANGED vars
  BY <1>4 DEF vars, manager, reconnect, frames, history, Alone, AtWork
<1>5. QED
  BY <1>1, <1>2, <1>3, <1>4 DEF Next

LEMMA InitAlone == Init => Alone
BY FrameAssumption DEF Init, Alone, AtWork, Resting, Starting, Frame

-----------------------------------------------------------------------------
(* ... and the only live connection is the one the manager holds *)

Live(l) == socket[l] \in {"open", "closing", "cut"}

\* Where each place of the frame at work leaves the links.
Links ==
  ~stopMidway =>
    /\ \A l \in Link : Live(l) => l = connection
    /\ \A f \in Frame : pc[f] \in {"loop", "awaitTCP", "pause", "stopped"} =>
         \A l \in Link : ~Live(l)
    /\ \A l \in Link : socket[l] = "closing" => \E f \in Frame : pc[f] = "awaitConnection"
    /\ \A f \in Frame :
         /\ pc[f] = "awaitConnection" => channel = NoLink /\ await[f] = connection
         /\ pc[f] = "awaitOpen" =>
              await[f] = connection /\ (chan[connection] = "opening" \/ ~Live(connection))
         /\ pc[f] = "opened" => await[f] = connection
         /\ pc[f] = "enable" => channel = connection
    /\ pc[Main] = "up" /\ (\A r \in Recovery : pc[r] = "idle") => channel = connection
    /\ pc[Main] = "stopped" => ~connected /\ channel = NoLink

LEMMA ConnectLinks ==
  ASSUME TypeInv, TypeInv', Locks, Alone, Links, ~stopMidway, NEW f \in Frame, Connect(f)
  PROVE  Links'
<1>0. /\ pc \in [Frame -> Running \cup Waiting \cup Resting]
      /\ Main \in Frame /\ Main \notin Recovery /\ Frame = {Main} \cup Recovery
      /\ socket \in [Link -> SocketState] /\ chan \in [Link -> ChannelState]
      /\ await \in [Frame -> Link \cup {NoLink}]
  BY FrameAssumption DEF TypeInv, TypeOK, Frame
<1>1. /\ pc[f] \notin Resting
      /\ \A g \in Frame \ {f} : pc'[g] = pc[g] /\ pc[g] \in Resting
  BY FrameMoves DEF Alone, AtWork
<1>2. \A g \in Frame \ {f} : pc'[g] \in {"up", "idle"}
  BY <1>0, <1>1 DEF Alone, Resting, Locks
<1>3. CASE TryOrGiveUp(f) \/ TCPRefused(f) \/ PauseOver(f)
  BY <1>0, <1>1, <1>2, <1>3 DEF TryOrGiveUp, TCPRefused, PauseOver, Goto, Links, Live, Alone,
     Resting, network, manager
<1>4. ASSUME NEW l \in Link, TCPConnected(f, l) PROVE Links'
  <2>1. /\ pc'[f] = "awaitOpen" /\ await'[f] = l /\ connection' = l
        /\ chan'[l] = "opening"
        /\ \A k \in Link \ {l} : socket'[k] = socket[k] /\ ~Live(k)
        /\ socket'[l] = "open"
    BY <1>0, <1>4 DEF TCPConnected, Goto, Links
  <2>2. QED
    BY <1>0, <1>2, <2>1 DEF Links, Live
<1>5. CASE ChannelOpened(f)
  BY <1>0, <1>1, <1>2, <1>5 DEF ChannelOpened, Goto, Links, Live, manager
<1>6. CASE ChannelRefused(f)
  <2>1. ~Live(connection) /\ \A l \in Link : ~Live(l)
    BY <1>6 DEF ChannelRefused, Links
  <2>2. pc'[f] = "pause" /\ UNCHANGED <<socket, connection>>
    BY <1>0, <1>6 DEF ChannelRefused, Goto, network, manager
  <2>3. QED
    BY <1>0, <1>2, <2>1, <2>2 DEF Links, Live
<1>7. CASE ActiveChannelCreated(f)
  BY <1>0, <1>1, <1>2, <1>7 DEF ActiveChannelCreated, Goto, Links, Live, network
<1>8. CASE EnableAutoRecovery(f)
  BY <1>0, <1>1, <1>2, <1>8 DEF EnableAutoRecovery, Goto, Links, Live, network
<1>9. QED
  BY <1>3, <1>4, <1>5, <1>6, <1>7, <1>8 DEF Connect

LEMMA DisconnectLinks ==
  ASSUME TypeInv, TypeInv', Locks, Alone, Links, ~stopMidway, NEW f \in Frame, Disconnect(f)
  PROVE  Links'
<1>0. /\ pc \in [Frame -> Running \cup Waiting \cup Resting]
      /\ Main \in Frame /\ Main \notin Recovery /\ Frame = {Main} \cup Recovery
      /\ socket \in [Link -> SocketState] /\ chan \in [Link -> ChannelState]
      /\ await \in [Frame -> Link \cup {NoLink}]
      /\ connection \in Link \cup {NoLink}
  BY FrameAssumption DEF TypeInv, TypeOK, Frame
<1>1. /\ pc[f] \notin Resting
      /\ \A g \in Frame \ {f} : pc'[g] = pc[g] /\ pc[g] \in Resting
  BY FrameMoves DEF Alone, AtWork
<1>2. \A g \in Frame \ {f} : pc'[g] \in {"up", "idle"}
  BY <1>0, <1>1 DEF Alone, Resting, Locks
<1>3. f = Main \/ \E r \in Recovery : r = f /\ pc'[r] # "idle"
  BY <1>0, FrameMoves DEF Disconnect, Interrupt, Interrupted, CloseChannel,
     ChannelCloseReturned, CloseConnection, ConnectionCloseReturned, AfterDisconnect, Goto
<1>4. CASE Interrupt(f) \/ Interrupted(f) \/ CloseChannel(f) \/ ChannelCloseReturned(f)
  <2>1. /\ pc'[f] \in {"polling", "closeChannel", "awaitChannel", "closeConnection"}
        /\ pc[f] # "awaitConnection"
        /\ UNCHANGED <<socket, connection>>
    BY <1>0, <1>4 DEF Interrupt, Interrupted, CloseChannel, ChannelCloseReturned, Goto,
       network, manager
  <2>2. QED
    BY <1>0, <1>1, <1>2, <1>3, <2>1 DEF Links, Live, Resting
<1>5. ASSUME AfterDisconnect(f), socket' = socket, channel' = NoLink, \A l \in Link : ~Live(l)
      PROVE  Links'
  <2>1. pc'[f] = (IF f = Main THEN "stopped" ELSE "loop") /\ ~connected'
    BY <1>0, <1>5 DEF AfterDisconnect, Goto
  <2>2. \A l \in Link : ~Live(l)'
    BY <1>5 DEF Live
  <2>3. \A l \in Link : socket'[l] # "closing"
    BY <2>2 DEF Live
  <2>4. pc'[Main] # "up" \/ \E r \in Recovery : pc'[r] # "idle"
    BY <1>3, <2>1
  <2>5. QED
    BY <1>0, <1>2, <1>5, <2>1, <2>2, <2>3, <2>4 DEF Links
<1>6. CASE CloseConnection(f)
  <2>1. CASE /\ connection # NoLink /\ socket[connection] \in {"open", "cut"}
             /\ socket' = [socket EXCEPT ![connection] = IF @ = "open" THEN "closing" ELSE @]
             /\ await' = [await EXCEPT ![f] = connection]
             /\ Goto(f, "awaitConnection")
             /\ UNCHANGED connection
    <3>1. pc'[f] = "awaitConnection" /\ await'[f] = connection /\ channel' = NoLink
      BY <1>0, <1>6, <2>1 DEF Goto, CloseConnection
    <3>2. \A l \in Link : l # connection => socket'[l] = socket[l]
      BY <1>0, <2>1
    <3>3. QED
      BY <1>0, <1>2, <1>3, <2>1, <3>1, <3>2 DEF Links, Live
  <2>2. CASE /\ ~(connection # NoLink /\ socket[connection] \in {"open", "cut"})
             /\ AfterDisconnect(f) /\ UNCHANGED <<socket, await>>
    <3>1. \A g \in Frame : pc[g] # "awaitConnection"
      BY <1>1, <1>6 DEF CloseConnection, Resting
    <3>2. \A l \in Link : ~Live(l)
      BY <2>2, <3>1, LinkAssumption DEF Links, Live
    <3>3. QED
      BY <1>5, <1>6, <2>2, <3>2 DEF CloseConnection
  <2>3. QED
    BY <1>6, <2>1, <2>2 DEF CloseConnection
<1>7. CASE ConnectionCloseReturned(f)
  <2>1. channel = NoLink /\ await[f] = connection /\ socket[connection] = "shut"
    BY <1>7 DEF ConnectionCloseReturned, Links
  <2>2. \A l \in Link : ~Live(l)
    BY <2>1 DEF Links, Live
  <2>3. QED
    BY <1>5, <1>7, <2>1, <2>2 DEF ConnectionCloseReturned, network
<1>8. QED
  BY <1>4, <1>6, <1>7 DEF Disconnect

LEMMA NetworkLinks ==
  ASSUME TypeInv, TypeInv', Locks, Alone, Links, ~stopMidway, NEW l \in Link, Network(l)
  PROVE  Links'
<1>0. /\ pc \in [Frame -> Running \cup Waiting \cup Resting]
      /\ Main \in Frame /\ Main \notin Recovery /\ Frame = {Main} \cup Recovery
      /\ socket \in [Link -> SocketState] /\ chan \in [Link -> ChannelState]
  BY FrameAssumption DEF TypeInv, TypeOK, Frame
<1>1. /\ UNCHANGED <<connection, channel, await, stopMidway>>
      /\ connected' = connected \/ connected' = FALSE
      /\ \A f \in Frame : pc'[f] = pc[f] \/ (pc[f] = "idle" /\ pc'[f] = "disconnect" /\ f \in Recovery)
  BY <1>0, NetworkMoves
<1>2. /\ \A k \in Link : Live(k)' => Live(k)
      /\ \A k \in Link : socket'[k] = "closing" => socket[k] = "closing"
      /\ \A k \in Link : chan[k] = "opening" => chan'[k] = "opening" \/ ~Live(k)'
  BY <1>0 DEF Network, CutConnection, KillChannel, ChannelCloses, ConnectionCloses, Live
<1>3. \A f \in Frame : pc'[f] \in {"loop", "awaitTCP", "pause", "stopped", "awaitConnection",
                                   "awaitOpen", "opened", "enable", "up"} => pc'[f] = pc[f]
  BY <1>1
<1>4. (\A r \in Recovery : pc'[r] = "idle") => \A r \in Recovery : pc[r] = "idle"
  BY <1>0, <1>1
<1>5. \A f \in Frame : pc[f] = "awaitConnection" => pc'[f] = "awaitConnection"
  BY <1>1
<1>6. \A f \in Frame : pc[f] = "awaitOpen" => connection \in Link
  BY DEF TypeInv, Turns, Links
<1>7. QED
  BY <1>0, <1>1, <1>2, <1>3, <1>4, <1>5, <1>6 DEF Links

LEMMA StepLinks == TypeInv /\ TypeInv' /\ Locks /\ Alone /\ Links /\ [Next]_vars => Links'
<1> SUFFICES ASSUME TypeInv, TypeInv', Locks, Alone, Links, [Next]_vars PROVE Links'
  OBVIOUS
<1>1. ASSUME NEW f \in Frame, Connect(f) \/ Disconnect(f) PROVE Links'
  <2>1. stopMidway' = stopMidway
    BY <1>1, FrameMoves
  <2>2. QED
    BY <1>1, <2>1, ConnectLinks, DisconnectLinks DEF Links
<1>2. ASSUME NEW l \in Link, Network(l) PROVE Links'
  <2>1. stopMidway' = stopMidway
    BY <1>2, NetworkMoves
  <2>2. QED
    BY <1>2, <2>1, NetworkLinks DEF Links
<1>3. CASE Stop
  <2>1. /\ pc \in [Frame -> Running \cup Waiting \cup Resting] /\ Main \in Frame
        /\ ~stopMidway
    BY <1>3 DEF TypeInv, TypeOK, Frame, Stop, Locks
  <2>2. /\ pc'[Main] = "disconnect" /\ pc[Main] = "up"
        /\ \A g \in Frame \ {Main} : pc'[g] = pc[g]
        /\ UNCHANGED <<network, manager, await>>
    BY <1>3, <2>1 DEF Stop, Goto
  <2>3. QED
    BY <2>1, <2>2 DEF Links, Live, network, manager
<1>4. CASE UNCHANGED vars
  BY <1>4 DEF vars, network, manager, frames, history, Links, Live
<1>5. QED
  BY <1>1, <1>2, <1>3, <1>4 DEF Next

LEMMA InitLinks == Init => Links
BY FrameAssumption DEF Init, Links, Live, Frame

LEMMA Invariance == Spec => [](TypeInv /\ Locks /\ Alone /\ Links)
BY InitTyped, StepTyped, InitLocks, StepLocks, InitAlone, StepAlone, InitLinks, StepLinks, PTL
   DEF Spec

\* A stop() that no recovery was in progress for leaves nothing behind, for any
\* number of links and losses: its own closing handshakes bring no connection
\* back (RabbitMQConnectionManager.disconnect).
THEOREM CleanStopHolds == Spec => []CleanStop
<1>1. Alone /\ Links => CleanStop
  BY DEF Alone, Links, Live, CleanStop, Recovering, Frame
<1>2. QED
  BY <1>1, Invariance, PTL

\* No recovery leaks the connection it replaces: between recoveries only the
\* manager's own connection is open, and its channel is the one in use
\* (recoverActiveChannel, createActiveChannel).
THEOREM NoOrphanHolds == Spec => []NoOrphan
<1>1. Locks /\ Links => NoOrphan
  BY DEF Locks, Links, Live, NoOrphan, Recovering, Starting
<1>2. QED
  BY <1>1, Invariance, PTL
=============================================================================

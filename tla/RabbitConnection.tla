---------------------------- MODULE RabbitConnection ----------------------------
(***************************************************************************)
(* The RabbitMQ manager of one service process: its connection, the pool   *)
(* of publish channels that is filled one await at a time, the reconnect   *)
(* timer of the 'close' handler, and the close() of an orderly shutdown.   *)
(*                                                                         *)
(* What the loss of a connection makes fail at once is one step with it:   *)
(* establish() rejects when the connection it opens channels on is gone.   *)
(***************************************************************************)
EXTENDS Absent, Naturals, Sequences

CONSTANTS PoolSize,   \* confirm channels in the pool
          MaxLinks    \* bound: connections the process opens

ASSUME RabbitAssumption ==
  PoolSize \in Nat \ {0} /\ MaxLinks \in Nat \ {0} /\ None \notin 1 .. MaxLinks

VARIABLES process,          \* where the service's server.ts is
          connection,       \* the manager's fields
          publishChannels,  \* each channel is named by its connection
          currentIndex, closed,
          connecting,       \* where establish() is
          timer,            \* setTimeout of the 'close' handler is pending
          closing,          \* where close() is
          opened,           \* connections open at the broker
          dialled,          \* history: connections opened so far
          gaveUp,           \* history: the last establish() failed: nothing tries again
          raced,            \* history: close() met a pending timer or dial
          missed            \* history: calls given undefined, by connection

rabbitVars == <<process, connection, publishChannels, currentIndex, closed, connecting,
                timer, closing, opened, dialled, gaveUp, raced, missed>>
-----------------------------------------------------------------------------
Links == 1 .. MaxLinks

RabbitTypeOK ==
  /\ process \in {"new", "booting", "up", "exited"}
  /\ connection \in Links \cup {None}
  /\ publishChannels \in Seq(Links) /\ Len(publishChannels) <= PoolSize
  /\ currentIndex \in 0 .. PoolSize - 1
  /\ connecting \in {"no", "dial", "fill"}
  /\ closing \in {"no", "channels", "connection", "done"}
  /\ closed \in BOOLEAN /\ timer \in BOOLEAN /\ gaveUp \in BOOLEAN /\ raced \in BOOLEAN
  /\ opened \subseteq Links /\ dialled \in 0 .. MaxLinks
  /\ missed \in [Links -> Nat]

RabbitInit ==
  /\ process = "new"
  /\ connection = None /\ publishChannels = <<>> /\ currentIndex = 0 /\ closed = FALSE
  /\ connecting = "no" /\ timer = FALSE /\ closing = "no"
  /\ opened = {} /\ dialled = 0 /\ gaveUp = FALSE /\ raced = FALSE
  /\ missed = [l \in Links |-> 0]
-----------------------------------------------------------------------------
\* connect(): nothing to do when there is a connection or one is being made.
Connect ==
  /\ closed' = FALSE
  /\ connecting' = IF connection = None /\ connecting = "no" THEN "dial" ELSE connecting
  /\ UNCHANGED <<connection, publishChannels, currentIndex, opened, dialled, gaveUp,
                 raced, missed>>

Bootstrap ==
  /\ process = "new" /\ process' = "booting"
  /\ Connect /\ UNCHANGED <<timer, closing>>

TimerFires ==
  /\ process = "up" /\ timer /\ timer' = FALSE
  /\ Connect /\ UNCHANGED <<process, closing>>

Dialled ==
  /\ connecting = "dial" /\ dialled < MaxLinks /\ process # "exited"
  /\ dialled' = dialled + 1
  /\ connection' = dialled + 1 /\ opened' = opened \cup {dialled + 1}
  /\ publishChannels' = <<>> /\ connecting' = "fill" /\ gaveUp' = FALSE
  /\ UNCHANGED <<process, currentIndex, closed, timer, closing, raced, missed>>

\* A rejected establish() ends the bootstrap, or is logged and forgotten.
Exit == process' = "exited" /\ opened' = {}
Rejected ==
  /\ connecting' = "no"
  /\ IF process = "booting" THEN Exit ELSE UNCHANGED <<process, opened>>

EstablishFails ==
  /\ connecting # "no" /\ process # "exited"
  /\ Rejected /\ gaveUp' = TRUE
  /\ UNCHANGED <<connection, publishChannels, currentIndex, closed, timer, closing,
                 dialled, raced, missed>>

ChannelOpened ==
  /\ connecting = "fill" /\ closing # "connection" /\ process # "exited"
  /\ publishChannels' = Append(publishChannels, connection)
  /\ IF Len(publishChannels) + 1 = PoolSize
       THEN connecting' = "no" /\ process' = "up"
       ELSE UNCHANGED <<connecting, process>>
  /\ UNCHANGED <<connection, currentIndex, closed, timer, closing, opened, dialled,
                 gaveUp, raced, missed>>

\* Mutant of OnClose: the pool is left to the next establish().
OnCloseKeepsPool ==
  /\ connection' = None /\ timer' = (timer \/ ~closed)
  /\ UNCHANGED publishChannels

\* The 'close' handler.
OnClose ==
  /\ connection' = None /\ publishChannels' = <<>>
  /\ timer' = (timer \/ ~closed)

ConnectionIsLost ==
  /\ connection # None /\ connection \in opened
  /\ OnClose
  /\ IF connecting = "fill" THEN connecting' = "no" ELSE UNCHANGED connecting
  /\ process' = IF process = "booting" THEN "exited" ELSE process
  /\ opened' = opened \ {connection}
  /\ UNCHANGED <<currentIndex, closed, closing, dialled, gaveUp, raced, missed>>

GetPublishChannel ==
  /\ process = "up" /\ publishChannels # <<>>
  /\ currentIndex' = (currentIndex + 1) % Len(publishChannels)
  /\ missed' = IF currentIndex < Len(publishChannels) THEN missed
               ELSE [missed EXCEPT ![connection] = @ + 1]
  /\ UNCHANGED <<process, connection, publishChannels, closed, connecting, timer,
                 closing, opened, dialled, gaveUp, raced>>

\* close() closes the channels of the pool one by one, then the connection it
\* finds at that time, if any.
Close ==
  /\ process = "up" /\ closing = "no"
  /\ closed' = TRUE
  /\ closing' = IF publishChannels # <<>> THEN "channels"
                ELSE IF connection # None THEN "connection" ELSE "done"
  /\ raced' = (timer \/ connecting = "dial")
  /\ UNCHANGED <<process, connection, publishChannels, currentIndex, connecting, timer,
                 opened, dialled, gaveUp, missed>>

CloseChannels ==
  /\ closing = "channels"
  /\ publishChannels' = <<>>
  /\ closing' = IF connection = None THEN "done" ELSE "connection"
  /\ UNCHANGED <<process, connection, currentIndex, closed, connecting, timer, opened,
                 dialled, gaveUp, raced, missed>>

CloseConnection ==
  /\ closing = "connection" /\ closing' = "done"
  /\ connection' = None /\ opened' = opened \ {connection} /\ publishChannels' = <<>>
  /\ connecting' = IF connecting = "fill" THEN "no" ELSE connecting
  /\ UNCHANGED <<process, currentIndex, closed, timer, dialled, gaveUp, raced, missed>>

Shutdown ==
  /\ process = "up" /\ closing = "done" /\ Exit
  /\ UNCHANGED <<connection, publishChannels, currentIndex, closed, connecting, timer,
                 closing, dialled, gaveUp, raced, missed>>

RabbitNext ==
  \/ Bootstrap \/ TimerFires \/ Dialled \/ EstablishFails \/ ChannelOpened
  \/ ConnectionIsLost \/ GetPublishChannel
  \/ Close \/ CloseChannels \/ CloseConnection \/ Shutdown

RabbitSpec == RabbitInit /\ [][RabbitNext]_rabbitVars
-----------------------------------------------------------------------------
\* Publishers are given channels of the connection that is open, and only the
\* first of them after a reconnect may be given none, while the pool is refilled.
PoolBelongsToConnection ==
  /\ \A i \in 1 .. Len(publishChannels) : publishChannels[i] = connection
  /\ \A l \in Links : missed[l] <= 1

\* At most one connection is open, the one the manager holds.
NoLinkIsForgotten == opened = {connection} \ {None} \/ process = "exited"

\* While a service is up and lost its connection it is about to connect again,
\* unless an attempt to failed.
LostLinksAreReplaced ==
  process = "up" /\ closing = "no" /\ connection = None =>
    timer \/ connecting = "dial" \/ gaveUp

\* After close() nothing is opened any more, unless it met a reconnect on its way.
ClosedStaysClosed ==
  closing = "done" /\ ~raced => opened = {} /\ ~timer /\ connecting = "no"

\* The manager keeps hold of its one connection and of the pool that belongs to it
\* through losses, reconnects and close(), apart from the ways named above in which
\* connection.ts (41-57, 83-99) lets go of them.
ConnectionIsManaged ==
  PoolBelongsToConnection /\ NoLinkIsForgotten /\ LostLinksAreReplaced /\ ClosedStaysClosed
=============================================================================

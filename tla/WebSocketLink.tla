---------------------------- MODULE WebSocketLink ----------------------------
(***************************************************************************)
(* A WebSocket connection between WebSocketPublisher and a subscriber, as  *)
(* both ends use it.  Frames are the numbers of flashblocks, or Pong.      *)
(***************************************************************************)
EXTENDS Integers, Sequences

Pong == 0

\* client, server: whether that end still holds the connection; shaken: whether the
\* handshake is over.  History: the flashblock the client read last, or the one
\* before the first that the server's receiver was to get; whether that receiver
\* has lagged.
Free == [client |-> FALSE, server |-> FALSE, up |-> FALSE, shaken |-> FALSE,
         wire |-> <<>>, heard |-> 0, lagged |-> FALSE]

\* A connection of which neither end is left can be used again.
Settled(l) == IF l.client \/ l.server THEN l ELSE Free

ClientOpens(l, up) == [l EXCEPT !.client = TRUE, !.up = up]

\* What the server has written before it closes can still be read.
ClientCloses(l) == Settled([Free EXCEPT !.server = l.server])
ServerCloses(l) == Settled([l EXCEPT !.server = FALSE, !.up = FALSE])

\* The connection breaks, and the frames after the first k are lost.
Breaks(l, k) == [l EXCEPT !.up = FALSE, !.wire = SubSeq(@, 1, k)]
=============================================================================

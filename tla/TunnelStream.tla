---------------------------- MODULE TunnelStream ----------------------------
(***************************************************************************)
(* The bytes inside one tunnel of GitTunnel: TCP connections that git      *)
(* makes to port 6000 in the sandbox (sandbox/server/server.ts), framed    *)
(* over one WebSocket and turned back into connections to the bot's git    *)
(* server (git/ws-tunnel.ts).                                              *)
(*                                                                         *)
(* A connection in the sandbox is a Conn, a socket to the git server is a  *)
(* Sock; both are numbered in the order they are made.  A chunk is         *)
(* <<maker, n>>.  A socket that is destroyed loses what it has not flushed. *)
(***************************************************************************)
EXTENDS Naturals, FiniteSets, Sequences

CONSTANTS
  MaxConns,    \* bound: connections to port 6000
  MaxSocks,    \* bound: sockets to the git server
  MaxAsked,    \* bound: chunks a client writes
  MaxAnswered, \* bound: chunks the git server writes to one stream
  MaxDrops     \* bound: times the WebSocket breaks

ASSUME TunnelStreamAssumption ==
  {MaxConns, MaxSocks, MaxAsked, MaxAnswered, MaxDrops} \subseteq Nat

Conn == 1..MaxConns
Sock == 1..MaxSocks

VARIABLES
  ws,        \* "open", "broken": only the sandbox still holds it, "closed", "stopped"
  up, down,  \* frames on their way to the bot, to the sandbox
  nextId,    \* nextStreamId of the listener
  streams,   \* the listener's map: id -> Conn
  local,     \* the bot's map: id -> Sock
  conn,      \* conn[k]: state, chunks written, to be flushed, read by the client
  sock,      \* sock[j]: the chunks that wait for 'connect', what the git server read
  drops

streamVars == <<ws, up, down, nextId, streams, local, conn, sock, drops>>

Empty == [i \in {} |-> 0]
Without(f, i) == [x \in DOMAIN f \ {i} |-> f[x]]
With(f, i, v) == [x \in DOMAIN f \cup {i} |-> IF x = i THEN v ELSE f[x]]

\* peer, early and late are history: the connection whose frame opened the
\* socket; a frame came before the socket was connected; the stream had been
\* closed before.
NoConn == [st |-> "none", id |-> 0, sent |-> 0, out |-> <<>>, got |-> <<>>]
NoSock == [st |-> "none", id |-> 0, sent |-> 0, first |-> <<>>, later |-> <<>>,
           got |-> <<>>, peer |-> 0, early |-> FALSE, late |-> FALSE]

StreamInit ==
  /\ ws = "open" /\ up = <<>> /\ down = <<>> /\ nextId = 1
  /\ streams = Empty /\ local = Empty
  /\ conn = [k \in Conn |-> NoConn] /\ sock = [j \in Sock |-> NoSock]
  /\ drops = 0

\* encodeFrame.  A frame for a WebSocket that is not open is lost.
Data(i, c) == [id |-> i, type |-> "data", chunk |-> c]
Close(i) == [id |-> i, type |-> "close", chunk |-> <<0, 0>>]
Sent(q, frame) == IF ws = "open" THEN Append(q, frame) ELSE q

-----------------------------------------------------------------------------
(* The sandbox: startTunnelListener and the WebSocket's handlers.          *)

\* Slip: the lowest free id.
AcceptReuses(k) ==
  /\ ws \in {"open", "broken"} /\ conn[k].st = "none"
  /\ \A h \in Conn : h < k => conn[h].st # "none"
  /\ LET id == CHOOSE i \in Conn : i \notin DOMAIN streams
                  /\ \A h \in Conn : h < i => h \in DOMAIN streams
     IN /\ conn' = [conn EXCEPT ![k] = [NoConn EXCEPT !.st = "open", !.id = id]]
        /\ streams' = With(streams, id, k)
  /\ UNCHANGED <<ws, up, down, nextId, local, sock, drops>>

\* git connects; the listener is there as long as the sandbox holds the WebSocket.
Accept(k) ==
  /\ ws \in {"open", "broken"} /\ conn[k].st = "none"
  /\ \A h \in Conn : h < k => conn[h].st # "none"
  /\ nextId' = nextId + 1
  /\ conn' = [conn EXCEPT ![k] = [NoConn EXCEPT !.st = "open", !.id = nextId]]
  /\ streams' = With(streams, nextId, k)
  /\ UNCHANGED <<ws, up, down, local, sock, drops>>

ClientWrites(k) ==
  /\ conn[k].st = "open" /\ conn[k].sent < MaxAsked
  /\ conn' = [conn EXCEPT ![k].sent = @ + 1]
  /\ up' = Sent(up, Data(conn[k].id, <<k, conn[k].sent + 1>>))
  /\ UNCHANGED <<ws, down, nextId, streams, local, sock, drops>>

\* What sock.write could not hand over at once.
ClientReads(k) ==
  /\ conn[k].st = "open" /\ conn[k].out # <<>>
  /\ conn' = [conn EXCEPT ![k].out = Tail(@), ![k].got = Append(@, Head(conn[k].out))]
  /\ UNCHANGED <<ws, up, down, nextId, streams, local, sock, drops>>

\* Slip: nobody tells the bot.
ClientClosesSilently(k) ==
  /\ conn[k].st = "open"
  /\ conn' = [conn EXCEPT ![k].st = "hungup", ![k].out = <<>>]
  /\ streams' = Without(streams, conn[k].id)
  /\ UNCHANGED <<ws, up, down, nextId, local, sock, drops>>

\* 'close' or 'error': out of the map, and a CLOSE frame.
ClientCloses(k) ==
  /\ conn[k].st = "open"
  /\ conn' = [conn EXCEPT ![k].st = "hungup", ![k].out = <<>>]
  /\ streams' = Without(streams, conn[k].id)
  /\ up' = Sent(up, Close(conn[k].id))
  /\ UNCHANGED <<ws, down, nextId, local, sock, drops>>

\* A frame for an id that is not in the map is dropped.
SandboxReceives ==
  /\ ws = "open" /\ down # <<>> /\ down' = Tail(down)
  /\ LET f == Head(down)
     IN IF f.id \notin DOMAIN streams THEN UNCHANGED <<streams, conn>>
        ELSE LET k == streams[f.id]
             IN IF f.type = "close"
                THEN /\ streams' = Without(streams, f.id)
                     /\ conn' = [conn EXCEPT ![k].st = "cut", ![k].out = <<>>]
                ELSE /\ conn' = [conn EXCEPT ![k].out = Append(@, f.chunk)]
                     /\ UNCHANGED streams
  /\ UNCHANGED <<ws, up, nextId, local, sock, drops>>

\* closeTunnel.
CloseTunnel ==
  /\ ws = "broken" /\ ws' = "closed"
  /\ conn' = [k \in Conn |-> IF conn[k].st = "open"
                             THEN [conn[k] EXCEPT !.st = "lost", !.out = <<>>] ELSE conn[k]]
  /\ streams' = Empty
  /\ UNCHANGED <<up, down, nextId, local, sock, drops>>

-----------------------------------------------------------------------------
(* The bot: openLocalSocket, handleMessage and onWsClose.                  *)

Destroyed(s) == [s EXCEPT !.st = "closed", !.later = <<>>, !.first = <<>>]
\* A bound: the git server closes only as many as there are sockets to spare.
Ended(s) == [Destroyed(s) EXCEPT !.st = "ended"]
Live(j) == sock[j].st \in {"connecting", "open"}
MayEnd(j) ==
  Live(j) /\ Cardinality({h \in Sock : sock[h].st = "ended"}) < MaxSocks - MaxConns

\* The chunk that opens a stream waits for 'connect'.
OpenLocalSocket(j, f) ==
  /\ sock[j].st = "none" /\ \A h \in Sock : h < j => sock[h].st # "none"
  /\ sock' = [sock EXCEPT ![j] = [NoSock EXCEPT
       !.st = "connecting", !.id = f.id, !.first = <<f.chunk>>,
       !.peer = f.chunk[1], !.late = f.chunk[2] > 1]]
  /\ local' = With(local, f.id, j)

\* handleMessage.  Data of a stream the bot has closed opens it again.
BotReceives ==
  /\ ws = "open" /\ up # <<>> /\ up' = Tail(up)
  /\ LET f == Head(up)
     IN \/ /\ f.id \in DOMAIN local /\ f.type = "close"
           /\ sock' = [sock EXCEPT ![local[f.id]] = Destroyed(@)]
           /\ local' = Without(local, f.id)
        \/ /\ f.id \in DOMAIN local /\ f.type = "data"
           /\ LET j == local[f.id]
              IN sock' = IF sock[j].st = "open"
                         THEN [sock EXCEPT ![j].got = Append(@, f.chunk)]
                         ELSE [sock EXCEPT ![j].later = Append(@, f.chunk), ![j].early = TRUE]
           /\ UNCHANGED local
        \/ /\ f.id \notin DOMAIN local /\ f.type = "data"
           /\ \E j \in Sock : OpenLocalSocket(j, f)
        \/ /\ f.id \notin DOMAIN local /\ f.type = "close"
           /\ UNCHANGED <<sock, local>>
  /\ UNCHANGED <<ws, down, nextId, streams, conn, drops>>

\* 'connect': what was written while connecting goes ahead of the first chunk.
LocalConnects(j) ==
  /\ sock[j].st = "connecting"
  /\ sock' = [sock EXCEPT ![j].st = "open", ![j].first = <<>>, ![j].later = <<>>,
                          ![j].got = sock[j].later \o sock[j].first]
  /\ UNCHANGED <<ws, up, down, nextId, streams, local, conn, drops>>

ServerWrites(j) ==
  /\ sock[j].st = "open" /\ sock[j].got # <<>> /\ sock[j].sent < MaxAnswered
  /\ sock' = [sock EXCEPT ![j].sent = @ + 1]
  /\ down' = Sent(down, Data(sock[j].id, <<j, sock[j].sent + 1>>))
  /\ UNCHANGED <<ws, up, nextId, streams, local, conn, drops>>

\* The git server closes, or the connection is refused.
LocalCloses(j) ==
  /\ MayEnd(j)
  /\ sock' = [sock EXCEPT ![j] = Ended(@)]
  /\ local' = Without(local, sock[j].id)
  /\ down' = Sent(down, Close(sock[j].id))
  /\ UNCHANGED <<ws, up, nextId, streams, conn, drops>>

\* cleanupStreams.
CleanupStreams ==
  /\ sock' = [j \in Sock |-> IF Live(j)
                             THEN Destroyed(sock[j]) ELSE sock[j]]
  /\ local' = Empty /\ up' = <<>> /\ down' = <<>>

\* onWsClose; TunnelHandle.stop does the same and never connects again.
WsCloses ==
  /\ ws = "open" /\ drops < MaxDrops
  /\ drops' \in {drops + 1, MaxDrops}
  /\ ws' = "broken" /\ CleanupStreams
  /\ UNCHANGED <<nextId, streams, conn>>

\* A new WebSocket gets a new listener, whose ids start over (a reconnect that
\* finds the old listener is in GitTunnel).
WsReopens ==
  /\ ws = "closed" /\ ws' = "open"
  /\ nextId' = 1
  /\ UNCHANGED <<up, down, streams, local, conn, sock, drops>>

StreamNext ==
  \/ \E k \in Conn : Accept(k) \/ ClientWrites(k) \/ ClientReads(k) \/ ClientCloses(k)
  \/ \E j \in Sock : LocalConnects(j) \/ ServerWrites(j) \/ LocalCloses(j)
  \/ SandboxReceives \/ BotReceives \/ CloseTunnel \/ WsCloses \/ WsReopens

\* Frames arrive, a broken WebSocket is noticed by both ends.  git and the git
\* server need not read, write or close.
StreamFairness ==
  WF_streamVars(SandboxReceives) /\ WF_streamVars(BotReceives) /\ WF_streamVars(CloseTunnel)

StreamSpec == StreamInit /\ [][StreamNext]_streamVars /\ StreamFairness

-----------------------------------------------------------------------------
HungUp(k) == k # 0 /\ conn[k].st \notin {"none", "open"}
InOrder(s, maker) == s = [i \in 1..Len(s) |-> <<maker, i>>]

\* The git server reads what its own client wrote, from the start and in order
\* (server.ts:289, ws-tunnel.ts:128): ids never lead to another's stream, also
\* after a reconnect, when they start over.  Excused: a frame that came before
\* 'connect' overtakes the one that opened the stream, and data behind the bot's
\* CLOSE opens the stream again in its middle.
RequestInOrder ==
  \A j \in Sock : ~sock[j].early /\ ~sock[j].late => InOrder(sock[j].got, sock[j].peer)

\* What a client reads is the answer to its own request, from the start and in
\* order, and with no excuse: the answer to a stream opened again, or of a stream
\* closed before, reaches no other client (server.ts:451).
AnswerInOrder ==
  \A k \in Conn : conn[k].got # <<>> =>
    /\ InOrder(conn[k].got, conn[k].got[1][1])
    /\ sock[conn[k].got[1][1]].peer = k

\* What goes through the tunnel comes out at the right end, in order and whole:
\* CLOSE does not overtake data, so a client that keeps up has read the whole
\* answer when its connection is cut (ws-tunnel.ts:117, server.ts:433).  One that
\* does not keep up loses what destroy() finds unflushed.
AnswerWhole(k) ==
  conn[k].st = "open" /\ conn'[k].st = "cut" /\ conn[k].out = <<>> =>
    \A j \in Sock : sock[j].peer = k /\ ~sock[j].late => Len(conn[k].got) = sock[j].sent
StreamsKept ==
  [][RequestInOrder' /\ AnswerInOrder' /\ \A k \in Conn : AnswerWhole(k)]_streamVars

\* A client that has gone leaves no socket to the git server behind
\* (server.ts:342, ws-tunnel.ts:133).  Excused: a stream opened again, of which
\* the sandbox knows nothing.
HangupReachesServer ==
  \A j \in Sock : Live(j) /\ ~sock[j].late /\ HungUp(sock[j].peer) ~> ~Live(j)

\* A client whose server has closed, or whose WebSocket broke, does not wait for
\* ever (ws-tunnel.ts:106, 117, server.ts:359).
ClosureReachesClient ==
  \A j \in Sock : sock[j].st \in {"closed", "ended"} ~> HungUp(sock[j].peer)

\* Whichever side hangs up, the other one hears of it.
HangupCrosses == HangupReachesServer /\ ClosureReachesClient
=============================================================================

-------------------------------- MODULE Services --------------------------------
(***************************************************************************)
(* The parts above the scheduler: ProxyServer with its connection pool,    *)
(* and ByteArray, Varint, MySQLPool, Tunnel, RequestBuffer, HttpParser and *)
(* TcpServer.                                                              *)
(* They share no state; part says which of them a behaviour is about, and  *)
(* the variables of the others keep their first values.                    *)
(***************************************************************************)
EXTENDS ProxyServer

CONSTANTS
    Bytes, NoByte, m_baseSize, MaxWrite, MaxPages,
    Threads, NoThread, Connections, NoConnection,
    MaxBytes, BufSize,
    Sessions, FirstSize, MaxData,
    Sockets, Loops, MaxStarts, MaxClients,
    Width, Group, MaxUnread,
    Chars, Streams, ValidStarts, MaxName

VARIABLES
    part,
    memory, m_curr, m_position, m_size, out, strayed,
    my_pool, m_idle, mutex, alive, where, borrowed, late,
    websocket, at, ready, buf, sent, closed, full, taken, delivered, short, garbled,
    m_val, bufferSize, step, offset, room, loaded, raced,
    m_isStop, m_socks, open, managed, loops, closing, task, backlog, aborted, missed, starts,
    arrived,
    stream, unread, got,
    http, http_bytes, come, parsed, piece, curr, headers, http_body, m_isFinish, error,
    outcome, nameCut

Array == INSTANCE ByteArray
MySQL == INSTANCE MySQLPool WITH m_pool <- my_pool
Tun == INSTANCE Tunnel
Buffer == INSTANCE RequestBuffer
Tcp == INSTANCE TcpServer
Codec == INSTANCE Varint
Parser == INSTANCE HttpParser WITH stream <- http, bytes <- http_bytes, received <- come,
                                   body <- http_body

ASSUME ServicesAssumption ==
    /\ Array!ByteArrayAssumption /\ MySQL!MySQLAssumption /\ Tun!TunnelAssumption
    /\ Buffer!BufferAssumption /\ Tcp!TcpAssumption /\ Codec!VarintAssumption
    /\ Parser!ParserAssumption

arrayVars == <<memory, m_curr, m_position, m_size, out, strayed>>
mysqlVars == <<my_pool, m_idle, mutex, alive, where, borrowed, late>>
tunnelVars ==
    <<websocket, at, ready, buf, sent, closed, full, taken, delivered, short, garbled>>
bufferVars == <<m_val, bufferSize, step, offset, room, loaded, raced>>
tcpVars ==
    <<m_isStop, m_socks, open, managed, loops, closing, task, backlog, aborted, missed,
      starts, arrived>>
codecVars == <<stream, unread, got>>
parserVars ==
    <<http, http_bytes, come, parsed, piece, curr, headers, http_body, m_isFinish, error,
      outcome, nameCut>>
allVars ==
    <<part, vars, arrayVars, mysqlVars, tunnelVars, bufferVars, tcpVars, codecVars,
      parserVars>>

-----------------------------------------------------------------------------
(* Specification *)

ServicesInit ==
    /\ part \in {"proxy", "array", "mysql", "tunnel", "buffer", "tcp", "codec",
                "parser"}
    /\ Init /\ Array!Init /\ MySQL!Init /\ Tun!Init /\ Buffer!Init /\ Tcp!Init
    /\ Codec!Init /\ Parser!Init
    /\ websocket \/ full # {} => part = "tunnel"
    /\ part # "parser" => http = CHOOSE s \in Streams : TRUE

Proxy ==
    /\ part = "proxy"
    /\ UNCHANGED <<part, arrayVars, mysqlVars, tunnelVars, bufferVars, tcpVars, codecVars,
                   parserVars>>
ProxyStep == Proxy /\ Next

\* A byte array that has strayed is only cleared.
ArrayStep ==
    /\ part = "array" /\ Array!Next /\ ~(strayed /\ strayed')
    /\ UNCHANGED <<part, vars, mysqlVars, tunnelVars, bufferVars, tcpVars,
                   codecVars, parserVars>>

MySQLStep ==
    /\ part = "mysql" /\ MySQL!Next
    /\ UNCHANGED <<part, vars, arrayVars, tunnelVars, bufferVars, tcpVars,
                   codecVars, parserVars>>

InTunnel ==
    /\ part = "tunnel"
    /\ UNCHANGED <<part, vars, arrayVars, mysqlVars, bufferVars, tcpVars,
                   codecVars, parserVars>>
TunnelStep == InTunnel /\ Tun!Next

BufferStep ==
    /\ part = "buffer" /\ Buffer!Next
    /\ UNCHANGED <<part, vars, arrayVars, mysqlVars, tunnelVars, tcpVars,
                   codecVars, parserVars>>

InTcp ==
    /\ part = "tcp"
    /\ UNCHANGED <<part, vars, arrayVars, mysqlVars, tunnelVars, bufferVars,
                   codecVars, parserVars>>
TcpStep == InTcp /\ Tcp!Next

CodecStep ==
    /\ part = "codec" /\ Codec!Next
    /\ UNCHANGED <<part, vars, arrayVars, mysqlVars, tunnelVars, bufferVars, tcpVars,
                   parserVars>>

ParserStep ==
    /\ part = "parser" /\ Parser!Next
    /\ UNCHANGED <<part, vars, arrayVars, mysqlVars, tunnelVars, bufferVars, tcpVars,
                   codecVars>>

ServicesNext ==
    \/ ProxyStep \/ ArrayStep \/ MySQLStep \/ TunnelStep \/ BufferStep \/ TcpStep
    \/ CodecStep \/ ParserStep

\* The fairness of the parts; their steps change variables of their own only.
ServicesFairness ==
    /\ \A c \in Clients : WF_vars(part = "proxy" /\ Serve(c))
    /\ \A a \in Addresses : WF_vars(part = "proxy" /\ WindowEnds(a))
    /\ WF_tunnelVars(part = "tunnel" /\ Tun!Step)
    /\ WF_tcpVars(part = "tcp" /\ Tcp!CloseAll)
    /\ WF_tcpVars(part = "tcp" /\ Tcp!SomeLoop)

ServicesSpec == ServicesInit /\ [][ServicesNext]_allVars /\ ServicesFairness

-----------------------------------------------------------------------------
(* Properties; each is stated in the module of its part *)

\* A ByteArray is a sequence of bytes with a position (bytearray.cpp:395-842).
ImplementsByteSequence == Array!ImplementsByteSequence

\* Integers of variable length are read as they were written (bytearray.cpp:39-75).
NumbersReadBack == Codec!NumbersReadBack

\* A message is put together from whatever pieces it comes in (httpParser.cpp:446-602).
MessageWhole == Parser!MessageWhole

\* No database connection is lost or forgotten (mysqlpool.cpp:50-79).
ConnectionsServed == MySQL!ConnectionsServed

\* A tunnel keeps order, and ends (httpserver.cpp:1289-1442).
InOrder == Tun!InOrder
TunnelEnds == Tun!TunnelEnds

\* A session that grows alone has room to read (httpsession.cpp:17-85).
RoomToRead == Buffer!RoomToRead

\* stop() ends the accept loops (tcpServer.cpp:90-145).
AcceptLoopsEnd == Tcp!AcceptLoopsEnd
=============================================================================

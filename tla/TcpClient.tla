------------------------------- MODULE TcpClient -------------------------------
(***************************************************************************)
(* The TCP client (src/xbus/tcp/tcp_client.cpp): connect() with its          *)
(* handshake, read(), write() and close(), each call made by the owner of     *)
(* the client when the one before has returned.  A path is a sequence; for the *)
(* empty one no request is made.                                              *)
(* Operators named Bad... are wrong forms of the operator that follows.     *)
(***************************************************************************)
EXTENDS TcpSockets

CONSTANTS
    Nodes,       \* the clients
    PathsOf,     \* the paths that each of them may be told to use
    MaxSends     \* bound: packets that the clients write

ASSUME ClientAssumption ==
    /\ \A c \in Nodes : PathsOf[c] \subseteq Seq(Chars)
    /\ MaxSends \in Nat

VARIABLES
    client,      \* for every client where it is in a call, the connection of its
                 \* _client_fd (0: none), _host.path and _host.stream
    sends,       \* packets written by clients
    heard        \* history: for every connection the data that the client read

clients == <<client, sends, heard>>

\* Nothing sets _host.stream before the first answer.
Disconnected == [pc : {"idle"}, conn : {0}, path : {<<>>}, stream : BOOLEAN]

ClientInit ==
    /\ client \in [Nodes -> Disconnected]
    /\ sends = 0
    /\ heard = [k \in Conns |-> <<>>]

InCall(c, pc) == client[c].pc = pc

\* is_connected().
IsConnected(c) == client[c].conn # 0 /\ client[c].stream

Request(path) == << <<"get", path>> >>

\* close(), with the state of the connection before it.
ClosedClient(c) == [client EXCEPT ![c].pc = "idle", ![c].conn = 0]
CloseSocket(ss, k) == [ss EXCEPT ![k] = Closed(@, "C")]

-----------------------------------------------------------------------------
(* connect(), up to the request.  A descriptor that is open stays so, and    *)
(* nothing refers to it any more: without a path the client never is         *)
(* connected, whatever connect() returned.                                   *)
ClientConnect(c, path) ==
    /\ InCall(c, "idle") /\ ~IsConnected(c)
    /\ Reachable
    /\ conns < MaxConns
    /\ LET k == conns + 1
       IN  /\ conns' = k
           /\ backlog' = Append(backlog, k)
           /\ sock' = [sock EXCEPT ![k] =
                         LET up == [e \in Ends |-> Opened]
                         IN  IF path = <<>> THEN up ELSE Sent(up, "C", Request(path))]
           /\ client' = [client EXCEPT ![c].pc = IF path = <<>> THEN "idle" ELSE "answer",
                                       ![c].conn = k, ![c].path = path]
    /\ UNCHANGED <<listening, lingering, faults, sends, heard>>

\* connect() that nobody answers: the new descriptor is closed.
ClientConnectFails(c) ==
    /\ InCall(c, "idle") /\ ~IsConnected(c)
    /\ ~Reachable
    /\ client[c].conn # 0
    /\ client' = [client EXCEPT ![c].conn = 0]
    /\ UNCHANGED <<sends, heard>>
    /\ UNCHANGED sockets

\* The answer: a status line and a header, which has to name a stream and to end
\* with an empty line.  When a line does not come connect() closes and returns
\* false; which lines came before leaves _host.stream what it was or either value.
\* A packet in front of the answer, which an old entry of the server's table brings,
\* is taken for a status line that is wrong or for the beginning of one, as its bytes
\* have it.
ClientAnswer(c) ==
    /\ InCall(c, "answer")
    /\ LET k == client[c].conn
       IN  \/ /\ Readable(sock[k]["C"]) = "data" /\ FirstToken(k, "C") = <<"answer">>
              /\ sock' = [sock EXCEPT ![k]["C"].in = Tail(@)]
              /\ client' = [client EXCEPT ![c].pc = "idle", ![c].stream = TRUE]
              /\ UNCHANGED faults
           \/ /\ Readable(sock[k]["C"]) = "data" /\ FirstToken(k, "C") # <<"answer">>
              /\ LET skipped == [sock EXCEPT ![k]["C"].in = Tail(@)]
                 IN  \/ /\ sock' \in {CloseSocket(sock, k), CloseSocket(skipped, k)}
                        /\ client' = ClosedClient(c)
                     \/ sock' = skipped /\ UNCHANGED client
              /\ UNCHANGED faults
           \/ /\ NoLine(k, "C")
              /\ sock' = CloseSocket(sock, k)
              /\ \E stream \in BOOLEAN :
                    client' = [ClosedClient(c) EXCEPT ![c].stream = stream]
    /\ UNCHANGED <<sends, heard, listening, lingering, backlog, conns>>

-----------------------------------------------------------------------------
(* read().                                                                   *)
ClientRead(c) ==
    /\ client[c].pc \in {"idle", "peek"} /\ client[c].conn # 0
    /\ LET k == client[c].conn
           end == sock[k]["C"]
           at == IF InCall(c, "idle") THEN "poll" ELSE "peek"
           result == AfterRead(end, at)
       IN  /\ client' = IF result = "lost" THEN ClosedClient(c)
                        ELSE [client EXCEPT ![c].pc = IF result = "peek" THEN "peek" ELSE "idle"]
           /\ sock' = LET read == [sock EXCEPT ![k]["C"] = ReadFrom(@, at)]
                      IN  IF result = "lost" THEN CloseSocket(read, k) ELSE read
           /\ heard' = IF result = "data" THEN [heard EXCEPT ![k] = Append(@, Head(end.in))] ELSE heard
    /\ UNCHANGED <<sends, listening, lingering, backlog, conns, faults>>

\* write(): a packet that is not taken as a whole closes the connection.
ClientWrite(c) ==
    /\ InCall(c, "idle") /\ IsConnected(c)
    /\ sends < MaxSends
    /\ sends' = sends + 1
    /\ LET k == client[c].conn
       IN  \/ /\ SendOk(sock[k], "C")
              /\ sock' = [sock EXCEPT ![k] = Sent(@, "C", << <<"up", sends + 1>> >>)]
              /\ UNCHANGED <<client, faults>>
           \/ /\ SendOk(sock[k], "C")
              /\ Fault
              /\ sock' = CloseSocket([sock EXCEPT ![k] = Sent(@, "C", << <<"cut", sends + 1>> >>)], k)
              /\ client' = ClosedClient(c)
           \/ /\ ~SendOk(sock[k], "C")
              /\ sock' = CloseSocket(sock, k)
              /\ client' = ClosedClient(c)
              /\ UNCHANGED faults
    /\ UNCHANGED <<heard, listening, lingering, backlog, conns>>

\* close() by the owner.
ClientClose(c) ==
    /\ InCall(c, "idle") /\ client[c].conn # 0
    /\ client' = ClosedClient(c)
    /\ sock' = CloseSocket(sock, client[c].conn)
    /\ UNCHANGED <<sends, heard, listening, lingering, backlog, conns, faults>>

ClientStep(c) ==
    ClientAnswer(c) \/ ClientRead(c)

ClientNext ==
    \E c \in Nodes :
        \/ \E path \in PathsOf[c] : ClientConnect(c, path)
        \/ ClientConnectFails(c)
        \/ ClientStep(c)
        \/ ClientWrite(c)
        \/ ClientClose(c)
=============================================================================

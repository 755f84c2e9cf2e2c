-------------------------------- MODULE TcpLink --------------------------------
(***************************************************************************)
(* The server with its clients, and what the two promise to each other.      *)
(***************************************************************************)
EXTENDS TcpServer, TcpClient

CONSTANT MaxEvents    \* bound: faults, packets written and, twice, calls of connect() of the server, together

ASSUME LinkAssumption == MaxEvents \in Nat

vars == <<sockets, server, serverHistory, clients>>

Init == SocketsInit /\ ServerInit /\ ClientInit

Next ==
    /\ \/ ServerNext /\ UNCHANGED clients
       \/ ClientNext /\ UNCHANGED <<server, serverHistory>>
       \/ \E k \in Conns : Break(k) /\ UNCHANGED <<server, serverHistory, clients>>
    /\ faults' + writes' + sends' + 2 * opens' <= MaxEvents

Spec == Init /\ [][Next]_vars

-----------------------------------------------------------------------------
TypeOK ==
    /\ client_cnt \in 0 .. CountRange - 1 /\ tid_cnt \in 0 .. MaxThreads
    /\ \A i \in DOMAIN client_fd : client_fd[i] \in Fds \cup {0}
    /\ \A t \in Threads : thread[t].fd \in Fds \cup {0} /\ thread[t].idx \in -1 .. MaxClients - 1
    /\ \A f \in Fds : fds[f] \in Conns \cup {0}
    /\ \A c \in Nodes : client[c].conn \in 0 .. conns
    /\ lingering \in 0 .. Cardinality(Accepting)

\* No client leaves the count without having entered it: together with the clients
\* that close() dropped without their threads knowing, the count is that of the
\* threads that still run for a client.  (close() sets it to zero, and each of
\* these threads then takes one more away, below zero: _tcp_server.cpp:70, 243.)
CountIsRegistered == (client_cnt + forgotten) % CountRange = Cardinality(Clients) % CountRange

\* Until a thread leaves in front of which another has left since it was registered
\* (it then removes the entry behind its own, or none), or close() drops clients, the
\* table has one entry for every registered client, its descriptor
\* (_tcp_server.cpp:215-217, 240-242).
Table == {client_fd[i] : i \in 0 .. client_cnt - 1}
TableIsRegistered ==
    orderly => client_cnt = Cardinality(Clients) /\ Table = {thread[t].fd : t \in Clients}

\* Until close() is called while clients are registered no descriptor is used by
\* two threads, nor is that of a thread closed under it: a thread reads from, answers
\* and closes its own connection only (_tcp_server.cpp:68, 166, 248).
Serving == {t \in Threads : thread[t].pc \notin {"none", "accept", "done"}}
OwnDescriptor ==
    forgotten = 0 => /\ \A t \in Serving : Conn(t) # 0
                     /\ \A s, t \in Serving : s # t => thread[s].fd # thread[t].fd

\* One thread waits for the next connection for every connect() that succeeded,
\* except for those that could not be created, which nobody notices: then the
\* server listens and never accepts (_tcp_server.cpp:142, 168).
AcceptorsAccounted == Cardinality(Accepting) + unspawned = opens

\* Until close() drops clients, a client that is_connected() through a path has been
\* answered by a server whose path is that or a beginning of it (the server compares
\* no more than its own); unless something broke there is a thread
\* that has registered the client or is about to, and has not left since
\* (tcp_client.cpp:127-157, _tcp_server.cpp:186-217).  After close() a thread may
\* answer at a descriptor that was closed under it and given to another client.
Connected(c) == client[c].pc \in {"idle", "peek"} /\ IsConnected(c) /\ client[c].path # <<>>
ConnectedIsServed ==
    \A c \in Nodes :
        Connected(c) /\ forgotten = 0 =>
            /\ Begins(ServerPath, client[c].path)
            /\ faults = 0 =>
                  \E t \in Threads : Conn(t) = client[c].conn /\ thread[t].pc \in {"register", "poll", "peek"}

\* As long as the table is right and nothing broke, a client hears every
\* packet written since it was registered, once and in order, and nothing else: what
\* it has read, and what waits at its end, are these packets (_tcp_server.cpp:258-268).
BehindAnswer(in) == IF in # <<>> /\ Head(in) = <<"answer">> THEN Tail(in) ELSE in
Heard(k) == heard[k] \o BehindAnswer(sock[k]["C"].in)
EveryPacketHeard ==
    \A t \in Clients :
        LET k == Conn(t)
        IN  orderly /\ faults = 0 /\ k # 0 /\ sock[k]["C"].open
              => Heard(k) = [i \in 1 .. writes - since[k] |-> <<"packet", since[k] + i>>]

\* No client is dropped while it is there: unless something broke or close() dropped
\* clients, a thread leaves its loop only when the client has closed its end
\* (tcp_client.cpp:214-245: a socket without data is not one that was lost).  It may
\* leave without a packet that could not be delivered, when recv(MSG_PEEK) finds the
\* end of the stream.
OnlyLostLeave ==
    \A t \in Threads :
        At(t, "leave") /\ faults = 0 /\ forgotten = 0 => ~sock[Conn(t)]["C"].open
=============================================================================

------------------------------- MODULE TcpServer -------------------------------
(***************************************************************************)
(* The TCP server (src/xbus/tcp/_tcp_server.cpp): a thread for every         *)
(* connection and one that waits for the next, a table of the clients that   *)
(* have passed the handshake, and an owner that calls connect(), close(),    *)
(* read() and write().  What a thread does under the mutex is one step; the  *)
(* lines of the answer are one step, too, since a connection that breaks     *)
(* between two of them is one that breaks before them to the client, and a    *)
(* packet that an old entry of the table sends there in between is one that   *)
(* comes before or after them.                                               *)
(*                                                                          *)
(* The model ends where the code leaves its arrays: with a thread more than  *)
(* MaxThreads, a client more than MaxClients, and with the next loop over the *)
(* table once the count has wrapped below zero.                              *)
(* Operators named Bad... are wrong forms of the operator that follows.     *)
(***************************************************************************)
EXTENDS TcpSockets

CONSTANTS
    ServerPath,  \* _host.path of the server, which may be empty
    MaxClients,  \* size of _client_fd
    MaxThreads,  \* size of _tid
    CountRange,  \* _client_cnt counts modulo this (2^64 in the code)
    MaxFds,      \* bound: descriptors that are open at the same time
    MaxOpens,    \* bound: calls of connect() that succeed
    MaxWrites    \* bound: calls of write()

ASSUME ServerAssumption ==
    /\ ServerPath \in Seq(Chars)
    /\ MaxClients \in Nat \ {0} /\ MaxThreads \in Nat \ {0}
    /\ CountRange \in Nat /\ CountRange > MaxClients
    /\ MaxFds \in Nat \ {0} /\ MaxOpens \in Nat /\ MaxWrites \in Nat

Threads == 0 .. MaxThreads - 1
Fds     == 1 .. MaxFds

VARIABLES
    client_fd,   \* _client_fd
    client_cnt,  \* _client_cnt
    thread,      \* for every thread where it is in run(), fd and client_idx
    tid_cnt,     \* _tid_cnt
    rx_fifo,     \* _rx_fifo
    fds,         \* the connection that a descriptor is open for, or 0
    opens,       \* history: calls of connect() that succeeded
    unspawned,   \* history: threads that could not be created
    forgotten,   \* history: clients that were registered when close() was called
    moved,       \* history: registered threads in front of which another has left
    orderly,     \* history: none of them has left since, and close() dropped nobody
    writes,      \* history: packets written
    since        \* history: for every connection how many of them came before it
                 \* was registered

server == <<client_fd, client_cnt, thread, tid_cnt, rx_fifo, fds>>
serverHistory == <<opens, unspawned, forgotten, moved, orderly, writes, since>>

NoThread == [pc |-> "none", fd |-> 0, idx |-> -1]

ServerInit ==
    /\ client_fd = [i \in 0 .. MaxClients - 1 |-> 0]
    /\ client_cnt = 0
    /\ thread = [t \in Threads |-> NoThread]
    /\ tid_cnt = 0
    /\ rx_fifo = <<>>
    /\ fds = [f \in Fds |-> 0]
    /\ opens = 0 /\ unspawned = 0 /\ forgotten = 0 /\ writes = 0
    /\ moved = {} /\ orderly = TRUE
    /\ since = [k \in Conns |-> 0]

Registered(t) == thread[t].idx >= 0 /\ thread[t].pc \in {"poll", "peek", "leave"}
Clients == {t \in Threads : Registered(t)}
ConnOf(fd) == IF fd \in Fds THEN fds[fd] ELSE 0

-----------------------------------------------------------------------------
(* Calls of the owner.                                                      *)

\* create_thread(): the thread starts in run().
Spawn(threads) ==
    /\ tid_cnt < MaxThreads
    /\ tid_cnt' = tid_cnt + 1
    /\ thread' = [threads EXCEPT ![tid_cnt] = [NoThread EXCEPT !.pc = "accept"]]

\* connect() that returns true.
ServerConnect ==
    /\ ~listening
    /\ lingering = 0
    /\ opens < MaxOpens
    /\ Spawn(thread)
    /\ listening' = TRUE
    /\ opens' = opens + 1
    /\ UNCHANGED <<client_fd, client_cnt, rx_fifo, fds, unspawned, forgotten, moved, orderly, writes, since>>
    /\ UNCHANGED <<sock, lingering, backlog, conns, faults>>

\* close().  A thread that waits in accept() may be woken, or go on waiting; when
\* no thread does the connections that nobody has accepted are reset.
Accepting == {t \in Threads : thread[t].pc = "accept"}
Refused(k) == [sock[k] EXCEPT !["S"] = Unused, !["C"] = Reset(@)]
Waiting == {backlog[i] : i \in DOMAIN backlog}

BadForgets == UNCHANGED client_cnt       \* the count is left as it was
Forgets == client_cnt' = 0

CloseAll ==
    /\ client_cnt <= MaxClients
    /\ \E n \in 0 .. Cardinality(Accepting) : lingering' = IF listening THEN n ELSE lingering
    /\ LET fs == {client_fd[i] : i \in 0 .. client_cnt - 1}
           ks == {ConnOf(f) : f \in fs}
       IN  /\ fds' = [f \in Fds |-> IF f \in fs THEN 0 ELSE fds[f]]
           /\ sock' = [k \in DOMAIN sock |->
                         IF k \in ks THEN Closed(sock[k], "S")
                         ELSE IF k \in Waiting /\ lingering' = 0 THEN Refused(k)
                         ELSE sock[k]]
    /\ backlog' = IF lingering' = 0 THEN <<>> ELSE backlog
    /\ listening' = FALSE
    /\ Forgets
    /\ forgotten' = forgotten + client_cnt
    /\ orderly' = (orderly /\ client_cnt = 0)
    /\ UNCHANGED <<client_fd, thread, tid_cnt, rx_fifo, opens, unspawned, moved, writes, since, conns>>

ServerClose ==
    /\ listening \/ client_cnt > 0
    /\ CloseAll
    /\ UNCHANGED faults

\* connect() that fails, in a call of the system or in create_thread().
ServerConnectFails ==
    /\ ~listening
    /\ Fault
    /\ CloseAll

\* write() of packet n, to one entry of the table.  When the buffer of the
\* connection is full send() takes a part, and the rest is never sent.
Written(c, n, full) ==
    IF full /\ SendOk(c, "S") /\ c["C"].open THEN Sent(c, "S", << <<"torn", n>> >>)
    ELSE Sent(c, "S", << <<"packet", n>> >>)

BadEntries == 1 .. client_cnt - 1        \* the first client is left out
Entries == 0 .. client_cnt - 1

AfterEntry(ss, i, full) ==
    LET k == ConnOf(client_fd[i])
    IN  IF i \in Entries THEN [ss EXCEPT ![k] = Written(@, writes + 1, k = full)] ELSE ss

ServerWrite ==
    /\ writes < MaxWrites
    /\ client_cnt <= MaxClients
    /\ \E full \in Conns \cup {0} :
         /\ IF full = 0 THEN UNCHANGED faults ELSE Fault
         /\ LET after[i \in 0 .. client_cnt] ==
                   IF i = 0 THEN sock ELSE AfterEntry(after[i - 1], i - 1, full)
            IN  sock' = after[client_cnt]
    /\ writes' = writes + 1
    /\ UNCHANGED server
    /\ UNCHANGED <<opens, unspawned, forgotten, moved, orderly, since, listening, lingering, backlog, conns>>

\* read().
ServerRead ==
    /\ rx_fifo # <<>>
    /\ rx_fifo' = Tail(rx_fifo)
    /\ UNCHANGED <<client_fd, client_cnt, thread, tid_cnt, fds>>
    /\ UNCHANGED serverHistory
    /\ UNCHANGED sockets

-----------------------------------------------------------------------------
(* run() of thread t.                                                       *)

At(t, pc) == thread[t].pc = pc
Goto(t, pc) == thread' = [thread EXCEPT ![t].pc = pc]
Conn(t) == ConnOf(thread[t].fd)

\* A thread that waits in accept() at a closed socket gives up after the timeout of
\* that socket (five seconds), and calls accept() for the one that is open then.
LastWaits == ~listening /\ lingering = 1

LingerEnds ==
    /\ lingering > 0
    /\ lingering' = lingering - 1
    /\ backlog' = IF LastWaits THEN <<>> ELSE backlog
    /\ sock' = [k \in DOMAIN sock |-> IF LastWaits /\ k \in Waiting THEN Refused(k) ELSE sock[k]]
    /\ UNCHANGED <<listening, conns, faults>>
    /\ UNCHANGED server
    /\ UNCHANGED serverHistory

\* A connection is accepted and a thread is created for the next one; nobody
\* looks at whether that worked.
BadSpawnNext(threads) ==                 \* only if there is no client yet
    IF client_cnt = 0 THEN Spawn(threads) ELSE thread' = threads /\ UNCHANGED tid_cnt
SpawnNext(threads) == Spawn(threads)

RunAccept(t) ==
    /\ At(t, "accept")
    /\ Reachable /\ backlog # <<>>
    /\ \E f \in Fds :
         /\ fds[f] = 0 /\ \A g \in Fds : fds[g] = 0 => f <= g
         /\ fds' = [fds EXCEPT ![f] = Head(backlog)]
         /\ LET threads == [thread EXCEPT ![t] = [pc |-> "request", fd |-> f, idx |-> -1]]
            IN  \/ SpawnNext(threads) /\ UNCHANGED <<faults, unspawned>>
                \/ /\ Fault
                   /\ thread' = threads
                   /\ unspawned' = unspawned + 1
                   /\ UNCHANGED tid_cnt
    /\ lingering' = IF lingering > 0 THEN lingering - 1 ELSE 0
    /\ backlog' = IF LastWaits THEN <<>> ELSE Tail(backlog)
    /\ sock' = [k \in DOMAIN sock |->
                  IF LastWaits /\ k \in Waiting \ {Head(backlog)} THEN Refused(k) ELSE sock[k]]
    /\ UNCHANGED <<listening, client_fd, client_cnt, rx_fifo, opens, forgotten, moved, orderly, writes, since>>
    /\ UNCHANGED conns

\* What a step of the handshake or of the reading loop leaves alone.
RestUnchanged ==
    /\ UNCHANGED <<client_fd, client_cnt, tid_cnt, fds>>
    /\ UNCHANGED serverHistory
    /\ UNCHANGED <<listening, lingering, backlog, conns>>

\* strncmp(path, _host.path, strlen(_host.path)) = 0
Begins(start, path) ==
    Len(start) <= Len(path) /\ \A i \in 1 .. Len(start) : start[i] = path[i]

\* The path of the request has to begin with that of the server, then its other
\* lines are skipped; otherwise they are left unread.
BadAccepts(request) == TRUE              \* the path is not looked at
Accepts(request) == request[1] = "get" /\ Begins(ServerPath, request[2])

RunRequest(t) ==
    /\ At(t, "request")
    /\ LET k == Conn(t)
       IN  \/ /\ Readable(sock[k]["S"]) = "data"
              /\ LET accepts == Accepts(FirstToken(k, "S"))
                 IN  /\ Goto(t, IF accepts THEN "reply" ELSE "close")
                     /\ sock' = IF accepts THEN [sock EXCEPT ![k]["S"].in = Tail(@)] ELSE sock
              /\ UNCHANGED faults
           \/ NoLine(k, "S") /\ Goto(t, "close") /\ UNCHANGED sock
    /\ UNCHANGED rx_fifo
    /\ RestUnchanged

\* The first send() to an end that was closed may be the only one that succeeds.
RunReply(t) ==
    /\ At(t, "reply")
    /\ LET c == sock[Conn(t)]
       IN  /\ sock' = [sock EXCEPT ![Conn(t)] = Sent(@, "S", << <<"answer">> >>)]
           /\ \/ SendOk(c, "S") /\ Goto(t, "register")
              \/ ~(SendOk(c, "S") /\ c["C"].open) /\ Goto(t, "close")
    /\ UNCHANGED <<rx_fifo, faults>>
    /\ RestUnchanged

BadFirstFree == MaxClients - 1           \* every client gets the last place
FirstFree == client_cnt

RunRegister(t) ==
    /\ At(t, "register")
    /\ client_cnt < MaxClients
    /\ client_fd' = [client_fd EXCEPT ![FirstFree] = thread[t].fd]
    /\ client_cnt' = client_cnt + 1
    /\ thread' = [thread EXCEPT ![t].pc = "poll", ![t].idx = client_cnt]
    /\ since' = IF Conn(t) = 0 THEN since ELSE [since EXCEPT ![Conn(t)] = writes]
    /\ UNCHANGED <<tid_cnt, rx_fifo, fds, opens, unspawned, forgotten, moved, orderly, writes>>
    /\ UNCHANGED sockets

\* The loop over read(fd).
RunRead(t) ==
    /\ thread[t].pc \in {"poll", "peek"}
    /\ LET end == sock[Conn(t)]["S"]
           result == AfterRead(end, thread[t].pc)
       IN  /\ Goto(t, CASE result = "peek" -> "peek" [] result = "lost" -> "leave" [] OTHER -> "poll")
           /\ sock' = [sock EXCEPT ![Conn(t)]["S"] = ReadFrom(@, thread[t].pc)]
           /\ rx_fifo' = IF result = "data" THEN Append(rx_fifo, Head(end.in)) ELSE rx_fifo
    /\ UNCHANGED faults
    /\ RestUnchanged

\* The entry at the index of the thread is removed from the table.
BadWithout(table, idx) == table          \* those behind it are not moved
Without(table, idx) ==
    [i \in DOMAIN table |-> IF idx <= i /\ i + 1 < client_cnt THEN table[i + 1] ELSE table[i]]

BadFewer == client_cnt                   \* the count is not lowered
Fewer == (client_cnt - 1) % CountRange

BadDescriptors(t) == [fds EXCEPT ![thread[t].fd] = 0]    \* closed here as well
Descriptors(t) == fds

RunLeave(t) ==
    /\ At(t, "leave")
    /\ client_cnt <= MaxClients
    /\ client_fd' = Without(client_fd, thread[t].idx)
    /\ client_cnt' = Fewer
    /\ moved' = (moved \cup {u \in Clients : thread[u].idx > thread[t].idx}) \ {t}
    /\ orderly' = (orderly /\ t \notin moved)
    /\ fds' = Descriptors(t)
    /\ Goto(t, "close")
    /\ UNCHANGED <<tid_cnt, rx_fifo, opens, unspawned, forgotten, writes, since>>
    /\ UNCHANGED sockets

\* ::close(fd): whatever is open under that number by now.
RunClose(t) ==
    /\ At(t, "close")
    /\ sock' = [sock EXCEPT ![Conn(t)] = Closed(@, "S")]
    /\ fds' = [f \in Fds |-> IF f = thread[t].fd THEN 0 ELSE fds[f]]
    /\ Goto(t, "done")
    /\ UNCHANGED <<client_fd, client_cnt, tid_cnt, rx_fifo, listening, lingering, backlog, conns, faults>>
    /\ UNCHANGED serverHistory

RunStep(t) ==
    \/ RunRequest(t) \/ RunReply(t) \/ RunRegister(t)
    \/ RunRead(t) \/ RunLeave(t) \/ RunClose(t)

ServerNext ==
    \/ ServerConnect \/ ServerConnectFails \/ ServerClose \/ ServerWrite \/ ServerRead
    \/ LingerEnds
    \/ \E t \in Threads : RunAccept(t) \/ RunStep(t)
=============================================================================

---------------------------- MODULE TcpLinkProofs ----------------------------
(***************************************************************************)
(* Proofs about the TCP server and its clients, for any numbers of clients, *)
(* threads, descriptors, connections and calls: the table and the threads,  *)
(* whatever the clients and the network do, and then what server and        *)
(* clients may rely on while nothing breaks.                                *)
(***************************************************************************)
EXTENDS TcpLink, NumberLemmas, FiniteSetTheorems, SequenceTheorems

-----------------------------------------------------------------------------
(* Remainders                                                              *)

\* Remainders are unique.
LEMMA Remainder ==
  ASSUME NEW b \in Nat \ {0}, NEW q \in Nat, NEW p \in Nat, NEW r \in 0 .. b - 1, NEW s \in 0 .. b - 1,
         b * q + r = b * p + s
  PROVE  r = s
<1>1. CASE q > p
  <2>1. PICK k \in Nat : q = p + 1 + k
    <3>1. q - p - 1 \in Nat /\ q = p + 1 + (q - p - 1)  BY <1>1
    <3> QED  BY <3>1
  <2>2. b * k \in Nat  OBVIOUS
  <2>3. b * q = b * p + b + b * k  BY <2>1
  <2> QED  BY <2>2, <2>3
<1>2. CASE q < p
  <2>1. PICK k \in Nat : p = q + 1 + k
    <3>1. p - q - 1 \in Nat /\ p = q + 1 + (p - q - 1)  BY <1>2
    <3> QED  BY <3>1
  <2>2. b * k \in Nat  OBVIOUS
  <2>3. b * p = b * q + b + b * k  BY <2>1
  <2> QED  BY <2>2, <2>3
<1> QED  BY <1>1, <1>2

\* A multiple of the divisor does not change the remainder.
LEMMA RemainderPlus ==
  ASSUME NEW a \in Nat, NEW b \in Nat \ {0}, NEW n \in Nat
  PROVE  (a + n * b) % b = a % b
<1> DEFINE c == a + n * b
           p == a \div b
           q == c \div b
<1>1. c \in Nat  OBVIOUS
<1>2. p \in Nat /\ a % b \in 0 .. b - 1 /\ a = b * p + (a % b)  BY Division
<1>3. q \in Nat /\ c % b \in 0 .. b - 1 /\ c = b * q + (c % b)  BY <1>1, Division
<1>4. c = n * b + a  OBVIOUS
<1> HIDE DEF c, p, q
<1>5. b * (p + n) = b * p + n * b /\ p + n \in Nat /\ n * b \in Nat  BY <1>2
<1>6. c = b * (p + n) + (a % b)  BY <1>2, <1>4, <1>5
<1>7. b * q + (c % b) = b * (p + n) + (a % b)  BY <1>3, <1>6
<1>8. c % b = a % b  BY <1>2, <1>3, <1>5, <1>7, Remainder
<1> QED  BY <1>8 DEF c

\* Counting down modulo a number: below zero the count turns round.
LEMMA CountDown ==
  ASSUME NEW b \in Nat \ {0}, NEW c \in 0 .. b - 1
  PROVE  (c - 1) % b = IF c = 0 THEN b - 1 ELSE c - 1
<1>1. CASE c = 0
  <2>1. (0 - 1) % b = b - 1  OBVIOUS
  <2> QED  BY <1>1, <2>1
<1>2. CASE c # 0
  <2>1. c - 1 \in Nat /\ c - 1 \in 0 .. b - 1  BY <1>2
  <2>2. (c - 1) \div b \in Nat /\ (c - 1) % b \in 0 .. b - 1
        /\ c - 1 = b * ((c - 1) \div b) + ((c - 1) % b)
    BY <2>1, Division
  <2>3. b * ((c - 1) \div b) + ((c - 1) % b) = b * 0 + (c - 1)  BY <2>2
  <2>4. (c - 1) % b = c - 1  BY <2>1, <2>2, <2>3, Remainder
  <2> QED  BY <1>2, <2>4
<1> QED  BY <1>1, <1>2

-----------------------------------------------------------------------------
(* The invariant                                                           *)

Places == {"none", "accept", "request", "reply", "register", "poll", "peek", "leave", "close", "done"}

ThreadRecord == [pc : Places, fd : Fds \cup {0}, idx : -1 .. MaxClients - 1]

\* Threads are created one after the other; one that serves a connection has a
\* descriptor, and one that has registered knows its place in the table.
ThreadsInv ==
    /\ thread \in [Threads -> ThreadRecord]
    /\ tid_cnt \in 0 .. MaxThreads
    /\ \A t \in Threads : t >= tid_cnt => thread[t].pc = "none"
    /\ \A t \in Threads : thread[t].pc \in {"poll", "peek", "leave"} => thread[t].idx >= 0
    /\ \A t \in Serving : thread[t].fd \in Fds

TablesInv ==
    /\ client_fd \in [0 .. MaxClients - 1 -> Fds \cup {0}]
    /\ client_cnt \in 0 .. CountRange - 1
    /\ fds \in [Fds -> Conns \cup {0}]
    /\ opens \in Nat /\ unspawned \in Nat /\ forgotten \in Nat

\* The count and the clients that were dropped, less the clients, are so many
\* turns of the count.
Counted == \E n \in Nat : client_cnt + forgotten = Cardinality(Clients) + n * CountRange

ServerInv == ThreadsInv /\ TablesInv /\ OwnDescriptor /\ AcceptorsAccounted /\ Counted

ClientPlaces == {"idle", "answer", "peek"}
ClientPaths  == Seq(Chars)
ClientRecord(C) == [pc : ClientPlaces, conn : C, path : ClientPaths, stream : BOOLEAN]

NetworkInv ==
    /\ conns \in 0 .. MaxConns
    /\ backlog \in Seq(Conns)
    /\ lingering \in 0 .. Cardinality(Accepting)
    /\ client \in [Nodes -> ClientRecord(0 .. conns)]

IInv == ServerInv /\ NetworkInv

\* What a step that does not register or remove clients leaves as it is.
SameClients ==
    /\ Clients' = Clients
    /\ \A t \in Clients : thread'[t].fd = thread[t].fd /\ thread'[t].idx = thread[t].idx
    /\ UNCHANGED <<client_fd, client_cnt, forgotten>>

\* Sets of threads are finite.
LEMMA ThreadSets ==
  ASSUME NEW S \in SUBSET Threads
  PROVE  IsFiniteSet(S) /\ Cardinality(S) \in Nat
<1>1. IsFiniteSet(Threads)  BY ServerAssumption, FS_Interval DEF Threads
<1>2. IsFiniteSet(S)  BY <1>1, FS_Subset
<1> QED  BY <1>2, FS_CardinalityType

\* A thread more or less.
LEMMA OneMore ==
  ASSUME NEW S \in SUBSET Threads, NEW t \in Threads, t \notin S
  PROVE  Cardinality(S \cup {t}) = Cardinality(S) + 1
BY ThreadSets, FS_AddElement

\* A thread less.
LEMMA OneLess ==
  ASSUME NEW S \in SUBSET Threads, NEW t \in S
  PROVE  Cardinality(S \ {t}) = Cardinality(S) - 1
BY ThreadSets, FS_RemoveElement

\* All that the invariant says of the server is said of these variables.
LEMMA SameServer ==
  ASSUME ServerInv,
         UNCHANGED <<thread, tid_cnt, client_fd, client_cnt, fds, opens, unspawned, forgotten>>
  PROVE  ServerInv' /\ Accepting' = Accepting /\ SameClients
<1>1. Accepting' = Accepting /\ Clients' = Clients /\ Serving' = Serving
  BY DEF Accepting, Clients, Serving, Registered
<1>2. \A t \in Threads : Conn(t)' = Conn(t)  BY DEF Conn, ConnOf
<1>3. Serving \in SUBSET Threads  BY DEF Serving
<1>4. ThreadsInv'  BY <1>1 DEF ServerInv, ThreadsInv
<1>5. TablesInv'  BY DEF ServerInv, TablesInv
<1>6. OwnDescriptor'  BY <1>1, <1>2, <1>3 DEF ServerInv, OwnDescriptor
<1>7. AcceptorsAccounted'  BY <1>1 DEF ServerInv, AcceptorsAccounted
<1>8. Counted'  BY <1>1 DEF ServerInv, Counted
<1>9. SameClients  BY <1>1 DEF SameClients
<1> QED  BY <1>1, <1>4, <1>5, <1>6, <1>7, <1>8, <1>9 DEF ServerInv

\* A thread that goes on to another place.
LEMMA Going ==
  ASSUME ThreadsInv, NEW t \in Threads, NEW p \in Places, Goto(t, p)
  PROVE  /\ thread' \in [Threads -> ThreadRecord]
         /\ \A s \in Threads : /\ thread'[s].pc = IF s = t THEN p ELSE thread[s].pc
                               /\ thread'[s].fd = thread[s].fd
                               /\ thread'[s].idx = thread[s].idx
BY DEF ThreadsInv, Goto, ThreadRecord

\* Steps of the handshake and of reading leave all that is counted as it is.
LEMMA GoingOn ==
  ASSUME ServerInv, NEW t \in Threads, NEW p \in Places, Goto(t, p),
         UNCHANGED <<tid_cnt, client_fd, client_cnt, fds, opens, unspawned, forgotten>>,
         \/ thread[t].pc \in {"request", "reply"} /\ p \in {"reply", "register", "close"}
         \/ thread[t].pc \in {"poll", "peek"} /\ p \in {"poll", "peek", "leave"}
  PROVE  ServerInv' /\ Accepting' = Accepting /\ SameClients
<1>1. /\ thread' \in [Threads -> ThreadRecord]
      /\ \A s \in Threads : /\ thread'[s].pc = IF s = t THEN p ELSE thread[s].pc
                            /\ thread'[s].fd = thread[s].fd
                            /\ thread'[s].idx = thread[s].idx
  BY Going DEF ServerInv
<1>2. Accepting' = Accepting  BY <1>1 DEF Accepting
<1>3. Clients' = Clients  BY <1>1 DEF Clients, Registered
<1>4. Serving' \subseteq Serving /\ Serving \subseteq Threads  BY <1>1 DEF Serving
<1>5. \A s \in Threads : Conn(s)' = Conn(s)  BY <1>1 DEF Conn, ConnOf
<1>6. ThreadsInv'
  <2>1. \A s \in Threads : s >= tid_cnt => thread'[s].pc = "none"  BY <1>1 DEF ServerInv, ThreadsInv
  <2>2. \A s \in Threads : thread'[s].pc \in {"poll", "peek", "leave"} => thread'[s].idx >= 0
    BY <1>1 DEF ServerInv, ThreadsInv
  <2>3. \A s \in Serving' : thread'[s].fd \in Fds  BY <1>1, <1>4 DEF ServerInv, ThreadsInv
  <2> QED  BY <1>1, <2>1, <2>2, <2>3 DEF ServerInv, ThreadsInv
<1>7. TablesInv'  BY DEF ServerInv, TablesInv
<1>8. OwnDescriptor'  BY <1>1, <1>4, <1>5 DEF ServerInv, OwnDescriptor
<1>9. AcceptorsAccounted'  BY <1>2 DEF ServerInv, AcceptorsAccounted
<1>10. Counted'  BY <1>3 DEF ServerInv, Counted
<1>11. SameClients  BY <1>1, <1>3 DEF SameClients, Clients
<1> QED  BY <1>2, <1>6, <1>7, <1>8, <1>9, <1>10, <1>11 DEF ServerInv

\* Steps of run() that leave all that is counted as it is.
LEMMA RunGoingOn ==
  ASSUME ServerInv, NEW t \in Threads, RunRequest(t) \/ RunReply(t) \/ RunRead(t)
  PROVE  ServerInv' /\ Accepting' = Accepting /\ SameClients
<1>1. UNCHANGED <<tid_cnt, client_fd, client_cnt, fds, opens, unspawned, forgotten>>
  BY DEF RunRequest, RunReply, RunRead, RestUnchanged, serverHistory
<1>2. PICK p \in {"reply", "register", "close"} \cup {"poll", "peek", "leave"} :
        /\ Goto(t, p)
        /\ \/ thread[t].pc \in {"request", "reply"} /\ p \in {"reply", "register", "close"}
           \/ thread[t].pc \in {"poll", "peek"} /\ p \in {"poll", "peek", "leave"}
  BY DEF RunRequest, RunReply, RunRead, At
<1>3. p \in Places  BY DEF Places
<1> QED  BY <1>1, <1>2, <1>3, GoingOn

-----------------------------------------------------------------------------
(* Steps that count                                                        *)

\* A new thread, when the others are those of threads.
LEMMA Spawning ==
  ASSUME ThreadsInv, NEW threads \in [Threads -> ThreadRecord], Spawn(threads)
  PROVE  /\ tid_cnt \in Threads /\ tid_cnt' = tid_cnt + 1 /\ thread[tid_cnt].pc = "none"
         /\ thread' \in [Threads -> ThreadRecord]
         /\ thread'[tid_cnt] = [pc |-> "accept", fd |-> 0, idx |-> -1]
         /\ \A s \in Threads \ {tid_cnt} : thread'[s] = threads[s]
<1>1. tid_cnt \in Threads  BY ServerAssumption DEF ThreadsInv, Spawn, Threads
<1>2. thread[tid_cnt].pc = "none"  BY <1>1 DEF ThreadsInv, Threads
<1>3. [NoThread EXCEPT !.pc = "accept"] = [pc |-> "accept", fd |-> 0, idx |-> -1]  BY DEF NoThread
<1>4. [pc |-> "accept", fd |-> 0, idx |-> -1] \in ThreadRecord
  BY ServerAssumption DEF ThreadRecord, Places
<1> QED  BY <1>1, <1>2, <1>3, <1>4 DEF Spawn

\* connect(): the first thread that waits.
LEMMA ConnectStep ==
  ASSUME ServerInv, ServerConnect
  PROVE  ServerInv' /\ Cardinality(Accepting') = Cardinality(Accepting) + 1 /\ SameClients
<1> USE DEF ServerInv
<1>1. /\ Spawn(thread) /\ opens' = opens + 1
      /\ UNCHANGED <<client_fd, client_cnt, fds, unspawned, forgotten>>
  BY DEF ServerConnect
<1>2. /\ tid_cnt \in Threads /\ tid_cnt' = tid_cnt + 1 /\ thread[tid_cnt].pc = "none"
      /\ thread' \in [Threads -> ThreadRecord]
      /\ thread'[tid_cnt] = [pc |-> "accept", fd |-> 0, idx |-> -1]
      /\ \A s \in Threads \ {tid_cnt} : thread'[s] = thread[s]
  BY <1>1, Spawning DEF ThreadsInv
<1>3. Accepting' = Accepting \cup {tid_cnt} /\ tid_cnt \notin Accepting /\ Accepting \in SUBSET Threads
  BY <1>2 DEF Accepting
<1>4. Cardinality(Accepting') = Cardinality(Accepting) + 1 /\ Cardinality(Accepting) \in Nat
  BY <1>2, <1>3, OneMore, ThreadSets
<1>5. Clients' = Clients  BY <1>2 DEF Clients, Registered
<1>6. Serving' = Serving /\ tid_cnt \notin Serving /\ Serving \subseteq Threads  BY <1>2 DEF Serving
<1>7. ThreadsInv'
  <2>1. tid_cnt' \in 0 .. MaxThreads  BY <1>2, ServerAssumption DEF Threads
  <2>2. \A s \in Threads : s >= tid_cnt' => thread'[s].pc = "none"  BY <1>2 DEF ThreadsInv, Threads
  <2>3. \A s \in Threads : thread'[s].pc \in {"poll", "peek", "leave"} => thread'[s].idx >= 0
    BY <1>2 DEF ThreadsInv
  <2>4. \A s \in Serving' : thread'[s].fd \in Fds  BY <1>2, <1>6 DEF ThreadsInv
  <2> QED  BY <1>2, <2>1, <2>2, <2>3, <2>4 DEF ThreadsInv
<1>8. TablesInv'  BY <1>1 DEF TablesInv
<1>9. OwnDescriptor'
  <2>1. \A s \in Serving : Conn(s)' = Conn(s) /\ thread'[s].fd = thread[s].fd
    BY <1>1, <1>2, <1>6 DEF Conn, ConnOf
  <2> QED  BY <1>1, <1>6, <2>1 DEF OwnDescriptor
<1>10. AcceptorsAccounted'  BY <1>1, <1>4 DEF AcceptorsAccounted, TablesInv
<1>11. Counted'  BY <1>1, <1>5 DEF Counted
<1>12. SameClients  BY <1>1, <1>2, <1>5 DEF SameClients, Clients, Registered
<1> QED  BY <1>4, <1>7, <1>8, <1>9, <1>10, <1>11, <1>12

\* close(): clients that are dropped without their threads are still counted.
LEMMA CloseStep ==
  ASSUME ServerInv, CloseAll
  PROVE  ServerInv' /\ Accepting' = Accepting
<1> USE DEF ServerInv
<1>1. /\ client_cnt' = 0 /\ forgotten' = forgotten + client_cnt
      /\ UNCHANGED <<client_fd, thread, tid_cnt, opens, unspawned>>
      /\ fds' = [f \in Fds |-> IF f \in {client_fd[i] : i \in 0 .. client_cnt - 1} THEN 0 ELSE fds[f]]
  BY DEF CloseAll, Forgets
<1>2. Accepting' = Accepting /\ Clients' = Clients /\ Serving' = Serving /\ Serving \subseteq Threads
  BY <1>1 DEF Accepting, Clients, Registered, Serving
<1>3. client_cnt \in Nat /\ forgotten \in Nat  BY ServerAssumption DEF TablesInv
<1>4. ThreadsInv'  BY <1>1, <1>2 DEF ThreadsInv
<1>5. TablesInv'  BY <1>1, <1>3, ServerAssumption DEF TablesInv
<1>6. OwnDescriptor'
  <2>1. SUFFICES ASSUME forgotten' = 0 PROVE OwnDescriptor'  BY DEF OwnDescriptor
  <2>2. client_cnt = 0 /\ forgotten = 0  BY <1>1, <1>3, <2>1
  <2>3. fds' = fds  BY <1>1, <2>2 DEF TablesInv
  <2>4. \A s \in Threads : Conn(s)' = Conn(s)  BY <1>1, <2>3 DEF Conn, ConnOf
  <2> QED  BY <1>1, <1>2, <2>2, <2>4 DEF OwnDescriptor
<1>7. AcceptorsAccounted'  BY <1>1, <1>2 DEF AcceptorsAccounted
<1>8. Counted'  BY <1>1, <1>2, <1>3 DEF Counted
<1> QED  BY <1>2, <1>4, <1>5, <1>6, <1>7, <1>8

\* ::close(fd) at the end of run(): the descriptor is that of no other thread.
LEMMA RunCloseStep ==
  ASSUME ServerInv, NEW t \in Threads, RunClose(t)
  PROVE  ServerInv' /\ Accepting' = Accepting /\ SameClients
<1> USE DEF ServerInv
<1>1. /\ thread[t].pc = "close" /\ Goto(t, "done")
      /\ fds' = [f \in Fds |-> IF f = thread[t].fd THEN 0 ELSE fds[f]]
      /\ UNCHANGED <<client_fd, client_cnt, tid_cnt, opens, unspawned, forgotten>>
  BY DEF RunClose, At, serverHistory
<1>2. /\ thread' \in [Threads -> ThreadRecord]
      /\ \A s \in Threads : /\ thread'[s].pc = IF s = t THEN "done" ELSE thread[s].pc
                            /\ thread'[s].fd = thread[s].fd
                            /\ thread'[s].idx = thread[s].idx
  BY <1>1, Going DEF Places
<1>3. Accepting' = Accepting  BY <1>1, <1>2 DEF Accepting
<1>4. Clients' = Clients  BY <1>1, <1>2 DEF Clients, Registered
<1>5. Serving' = Serving \ {t} /\ t \in Serving /\ Serving \subseteq Threads  BY <1>1, <1>2 DEF Serving
<1>6. ThreadsInv'
  <2>1. \A s \in Threads : s >= tid_cnt' => thread'[s].pc = "none"  BY <1>1, <1>2 DEF ThreadsInv
  <2>2. \A s \in Threads : thread'[s].pc \in {"poll", "peek", "leave"} => thread'[s].idx >= 0
    BY <1>2 DEF ThreadsInv
  <2>3. \A s \in Serving' : thread'[s].fd \in Fds  BY <1>2, <1>5 DEF ThreadsInv
  <2> QED  BY <1>1, <1>2, <2>1, <2>2, <2>3 DEF ThreadsInv
<1>7. TablesInv'  BY <1>1 DEF TablesInv
<1>8. OwnDescriptor'
  <2>1. SUFFICES ASSUME forgotten = 0 PROVE OwnDescriptor'  BY <1>1 DEF OwnDescriptor
  <2>2. \A s \in Serving' : thread[s].fd # thread[t].fd  BY <1>5, <2>1 DEF OwnDescriptor
  <2>3. \A s \in Serving' : Conn(s)' = Conn(s)
    BY <1>1, <1>2, <1>5, <2>2 DEF Conn, ConnOf
  <2>4. \A s \in Serving' : Conn(s)' # 0  BY <1>5, <2>1, <2>3 DEF OwnDescriptor
  <2>5. \A r, s \in Serving' : r # s => thread'[r].fd # thread'[s].fd
    BY <1>2, <1>5, <2>1 DEF OwnDescriptor
  <2> QED  BY <2>4, <2>5 DEF OwnDescriptor
<1>9. AcceptorsAccounted'  BY <1>1, <1>3 DEF AcceptorsAccounted
<1>10. Counted'  BY <1>1, <1>4 DEF Counted
<1>11. SameClients  BY <1>1, <1>2, <1>4 DEF SameClients, Clients
<1> QED  BY <1>3, <1>6, <1>7, <1>8, <1>9, <1>10, <1>11

\* The state of a thread whose client is registered.
LEMMA RegisteredRecord ==
  ASSUME NEW P, NEW F, NEW I, NEW r \in [pc : P, fd : F, idx : I], NEW i \in I, "poll" \in P
  PROVE  LET n == [r EXCEPT !.pc = "poll", !.idx = i]
         IN  n \in [pc : P, fd : F, idx : I] /\ n.pc = "poll" /\ n.fd = r.fd /\ n.idx = i
<1> DEFINE n == [r EXCEPT !.pc = "poll", !.idx = i]
<1>1. n \in [pc : P, fd : F, idx : I]  OBVIOUS
<1>2. n.pc = "poll" /\ n.fd = r.fd /\ n.idx = i  OBVIOUS
<1> QED  BY <1>1, <1>2

\* A client is registered: one more on both sides of the count.
LEMMA RegisterStep ==
  ASSUME ServerInv, NEW t \in Threads, RunRegister(t)
  PROVE  ServerInv' /\ Accepting' = Accepting
<1> USE DEF ServerInv
<1>1. /\ thread[t].pc = "register" /\ client_cnt < MaxClients
      /\ client_fd' = [client_fd EXCEPT ![client_cnt] = thread[t].fd]
      /\ client_cnt' = client_cnt + 1
      /\ thread' = [thread EXCEPT ![t].pc = "poll", ![t].idx = client_cnt]
      /\ UNCHANGED <<tid_cnt, fds, opens, unspawned, forgotten>>
  BY DEF RunRegister, At, FirstFree
<1>2. client_cnt \in 0 .. MaxClients - 1  BY <1>1, ServerAssumption DEF TablesInv
<1>3. /\ thread' \in [Threads -> ThreadRecord]
      /\ \A s \in Threads : /\ thread'[s].pc = IF s = t THEN "poll" ELSE thread[s].pc
                            /\ thread'[s].fd = thread[s].fd
                            /\ thread'[s].idx = IF s = t THEN client_cnt ELSE thread[s].idx
  <2> DEFINE r == [thread[t] EXCEPT !.pc = "poll", !.idx = client_cnt]
  <2>1. thread \in [Threads -> ThreadRecord]  BY DEF ThreadsInv
  <2>2. r \in ThreadRecord /\ r.pc = "poll" /\ r.fd = thread[t].fd /\ r.idx = client_cnt
    <3>1. thread[t] \in ThreadRecord  BY <2>1
    <3>2. client_cnt \in -1 .. MaxClients - 1 /\ "poll" \in Places  BY <1>2, ServerAssumption DEF Places
    <3> QED  BY <3>1, <3>2, RegisteredRecord DEF ThreadRecord
  <2>3. thread' = [thread EXCEPT ![t] = r]  BY <1>1, <2>1
  <2> HIDE DEF r
  <2> QED  BY <2>1, <2>2, <2>3
<1>4. Accepting' = Accepting  BY <1>1, <1>3 DEF Accepting
<1>5. Clients' = Clients \cup {t} /\ t \notin Clients /\ Clients \in SUBSET Threads
  BY <1>1, <1>2, <1>3 DEF Clients, Registered
<1>6. Serving' = Serving /\ t \in Serving /\ Serving \subseteq Threads  BY <1>1, <1>3 DEF Serving
<1>7. ThreadsInv'
  <2>1. \A s \in Threads : s >= tid_cnt' => thread'[s].pc = "none"  BY <1>1, <1>3 DEF ThreadsInv
  <2>2. \A s \in Threads : thread'[s].pc \in {"poll", "peek", "leave"} => thread'[s].idx >= 0
    BY <1>2, <1>3 DEF ThreadsInv
  <2>3. \A s \in Serving' : thread'[s].fd \in Fds  BY <1>3, <1>6 DEF ThreadsInv
  <2> QED  BY <1>1, <1>3, <2>1, <2>2, <2>3 DEF ThreadsInv
<1>8. TablesInv'
  <2>1. client_cnt' \in 0 .. CountRange - 1  BY <1>1, <1>2, ServerAssumption
  <2>2. client_fd' \in [0 .. MaxClients - 1 -> Fds \cup {0}]
    <3>1. thread[t].fd \in Fds \cup {0}  BY <1>6 DEF ThreadsInv
    <3> QED  BY <1>1, <1>2, <3>1 DEF TablesInv
  <2> QED  BY <1>1, <2>1, <2>2 DEF TablesInv
<1>9. OwnDescriptor'
  <2>1. \A s \in Threads : Conn(s)' = Conn(s)  BY <1>1, <1>3 DEF Conn, ConnOf
  <2> QED  BY <1>1, <1>3, <1>6, <2>1 DEF OwnDescriptor
<1>10. AcceptorsAccounted'  BY <1>1, <1>4 DEF AcceptorsAccounted
<1>11. Counted'
  <2>1. Cardinality(Clients') = Cardinality(Clients) + 1 /\ Cardinality(Clients) \in Nat
    BY <1>5, OneMore, ThreadSets
  <2>2. PICK n \in Nat : client_cnt + forgotten = Cardinality(Clients) + n * CountRange  BY DEF Counted
  <2>3. n * CountRange \in Nat  BY ServerAssumption
  <2>4. client_cnt' + forgotten' = Cardinality(Clients') + n * CountRange
    BY <1>1, <1>2, <2>1, <2>2, <2>3 DEF TablesInv
  <2> QED  BY <1>1, <2>4 DEF Counted
<1> QED  BY <1>4, <1>7, <1>8, <1>9, <1>10, <1>11

\* A client leaves: one less, and a turn of the count if it was zero.
LEMMA LeaveStep ==
  ASSUME ServerInv, NEW t \in Threads, RunLeave(t)
  PROVE  ServerInv' /\ Accepting' = Accepting
<1> USE DEF ServerInv
<1>1. /\ thread[t].pc = "leave" /\ client_cnt <= MaxClients
      /\ client_fd' = Without(client_fd, thread[t].idx)
      /\ client_cnt' = (client_cnt - 1) % CountRange
      /\ Goto(t, "close")
      /\ UNCHANGED <<tid_cnt, fds, opens, unspawned, forgotten>>
  BY DEF RunLeave, At, Fewer, Descriptors
<1>2. /\ thread' \in [Threads -> ThreadRecord]
      /\ \A s \in Threads : /\ thread'[s].pc = IF s = t THEN "close" ELSE thread[s].pc
                            /\ thread'[s].fd = thread[s].fd
                            /\ thread'[s].idx = thread[s].idx
  BY <1>1, Going DEF Places
<1>3. Accepting' = Accepting  BY <1>1, <1>2 DEF Accepting
<1>4. Clients' = Clients \ {t} /\ t \in Clients /\ Clients \in SUBSET Threads
  BY <1>1, <1>2 DEF Clients, Registered, ThreadsInv
<1>5. Serving' = Serving /\ Serving \subseteq Threads  BY <1>1, <1>2 DEF Serving
<1>6. CountRange \in Nat \ {0} /\ client_cnt \in 0 .. CountRange - 1 /\ forgotten \in Nat
  BY ServerAssumption DEF TablesInv
<1>7. client_cnt' = IF client_cnt = 0 THEN CountRange - 1 ELSE client_cnt - 1
  BY <1>1, <1>6, CountDown
<1>8. ThreadsInv'
  <2>1. \A s \in Threads : s >= tid_cnt' => thread'[s].pc = "none"  BY <1>1, <1>2 DEF ThreadsInv
  <2>2. \A s \in Threads : thread'[s].pc \in {"poll", "peek", "leave"} => thread'[s].idx >= 0
    BY <1>2 DEF ThreadsInv
  <2>3. \A s \in Serving' : thread'[s].fd \in Fds  BY <1>2, <1>5 DEF ThreadsInv
  <2> QED  BY <1>1, <1>2, <2>1, <2>2, <2>3 DEF ThreadsInv
<1>9. TablesInv'
  <2>1. client_fd' \in [0 .. MaxClients - 1 -> Fds \cup {0}]
    <3>1. client_fd \in [0 .. MaxClients - 1 -> Fds \cup {0}]  BY DEF TablesInv
    <3>2. thread[t].idx >= 0 /\ thread[t].idx \in Int
      BY <1>1, ServerAssumption DEF ThreadsInv, ThreadRecord
    <3>3. \A i \in 0 .. MaxClients - 1 : i + 1 < client_cnt => i + 1 \in 0 .. MaxClients - 1
      BY <1>1, <1>6, ServerAssumption
    <3> QED  BY <1>1, <3>1, <3>2, <3>3 DEF Without
  <2>2. client_cnt' \in 0 .. CountRange - 1  BY <1>6, <1>7
  <2> QED  BY <1>1, <2>1, <2>2 DEF TablesInv
<1>10. OwnDescriptor'
  <2>1. \A s \in Threads : Conn(s)' = Conn(s)  BY <1>1, <1>2 DEF Conn, ConnOf
  <2> QED  BY <1>1, <1>2, <1>5, <2>1 DEF OwnDescriptor
<1>11. AcceptorsAccounted'  BY <1>1, <1>3 DEF AcceptorsAccounted
<1>12. Counted'
  <2>1. Cardinality(Clients') = Cardinality(Clients) - 1 /\ Cardinality(Clients) \in Nat
    BY <1>4, OneLess, ThreadSets
  <2>2. PICK n \in Nat : client_cnt + forgotten = Cardinality(Clients) + n * CountRange  BY DEF Counted
  <2>3. n * CountRange \in Nat /\ (n + 1) * CountRange = n * CountRange + CountRange  BY <1>6
  <2>4. CASE client_cnt = 0
    <3>1. client_cnt' + forgotten' = Cardinality(Clients') + (n + 1) * CountRange
      BY <1>1, <1>6, <1>7, <2>1, <2>2, <2>3, <2>4
    <3>2. n + 1 \in Nat  OBVIOUS
    <3> QED  BY <1>1, <3>1, <3>2 DEF Counted
  <2>5. CASE client_cnt # 0
    <3>1. client_cnt' + forgotten' = Cardinality(Clients') + n * CountRange
      BY <1>1, <1>6, <1>7, <2>1, <2>2, <2>3, <2>5
    <3> QED  BY <1>1, <3>1 DEF Counted
  <2> QED  BY <2>4, <2>5
<1> QED  BY <1>3, <1>8, <1>9, <1>10, <1>11, <1>12

\* A connection is accepted: its descriptor is open for no other thread, and a new
\* thread waits for the next one, or it is noted that there is none.
LEMMA AcceptStep ==
  ASSUME ServerInv, NetworkInv, NEW t \in Threads, RunAccept(t)
  PROVE  /\ ServerInv'
         /\ Cardinality(Accepting') \in Nat
         /\ Cardinality(Accepting') >= Cardinality(Accepting) - 1
         /\ SameClients
<1> USE DEF ServerInv
<1>1. PICK f \in Fds :
        /\ fds[f] = 0
        /\ fds' = [fds EXCEPT ![f] = Head(backlog)]
        /\ LET threads == [thread EXCEPT ![t] = [pc |-> "request", fd |-> f, idx |-> -1]]
           IN  \/ Spawn(threads) /\ UNCHANGED unspawned
               \/ thread' = threads /\ unspawned' = unspawned + 1 /\ UNCHANGED tid_cnt
  BY DEF RunAccept, SpawnNext
<1>2. /\ thread[t].pc = "accept" /\ backlog # <<>>
      /\ UNCHANGED <<client_fd, client_cnt, opens, forgotten>>
  BY DEF RunAccept, At
<1> DEFINE request == [pc |-> "request", fd |-> f, idx |-> -1]
           threads == [thread EXCEPT ![t] = request]
<1>3. /\ threads \in [Threads -> ThreadRecord]
      /\ threads[t] = request
      /\ \A s \in Threads \ {t} : threads[s] = thread[s]
  <2>1. request \in ThreadRecord  BY ServerAssumption DEF ThreadRecord, Places
  <2>2. thread \in [Threads -> ThreadRecord]  BY DEF ThreadsInv
  <2> HIDE DEF request
  <2> QED  BY <2>1, <2>2
<1>4. Head(backlog) \in Conns /\ Head(backlog) # 0
  <2>1. backlog \in Seq(Conns)  BY DEF NetworkInv
  <2>2. Head(backlog) \in Conns  BY <1>2, <2>1, HeadTailProperties
  <2> QED  BY <2>2, SocketsAssumption DEF Conns
<1> HIDE DEF threads
<1>5. /\ thread' \in [Threads -> ThreadRecord]
      /\ thread'[t].pc = "request" /\ thread'[t].fd = f
      /\ \/ /\ tid_cnt \in Threads \ {t} /\ tid_cnt' = tid_cnt + 1 /\ unspawned' = unspawned
            /\ thread[tid_cnt].pc = "none" /\ thread'[tid_cnt].pc = "accept"
            /\ \A s \in Threads \ {t, tid_cnt} : thread'[s] = thread[s]
         \/ /\ tid_cnt' = tid_cnt /\ unspawned' = unspawned + 1
            /\ \A s \in Threads \ {t} : thread'[s] = thread[s]
  <2>1. CASE Spawn(threads) /\ UNCHANGED unspawned
    <3>1. /\ tid_cnt \in Threads /\ tid_cnt' = tid_cnt + 1 /\ thread[tid_cnt].pc = "none"
          /\ thread' \in [Threads -> ThreadRecord]
          /\ thread'[tid_cnt] = [pc |-> "accept", fd |-> 0, idx |-> -1]
          /\ \A s \in Threads \ {tid_cnt} : thread'[s] = threads[s]
      BY <1>3, <2>1, Spawning
    <3>2. tid_cnt # t  BY <1>2, <3>1
    <3>3. thread'[t] = request  BY <1>3, <3>1, <3>2
    <3> QED  BY <1>3, <2>1, <3>1, <3>2, <3>3
  <2>2. CASE thread' = threads /\ unspawned' = unspawned + 1 /\ UNCHANGED tid_cnt
    BY <1>3, <2>2
  <2> QED  BY <1>1, <2>1, <2>2 DEF threads
<1>6. /\ Clients' = Clients
      /\ Serving' = Serving \cup {t} /\ t \notin Serving /\ Serving \in SUBSET Threads
      /\ tid_cnt' # tid_cnt => tid_cnt \notin Serving
      /\ \A s \in Serving : thread'[s] = thread[s]
  BY <1>2, <1>5 DEF Clients, Registered, Serving
<1>7. /\ Cardinality(Accepting') \in Nat /\ Cardinality(Accepting) \in Nat
      /\ \/ Cardinality(Accepting') = Cardinality(Accepting) /\ unspawned' = unspawned
         \/ Cardinality(Accepting') = Cardinality(Accepting) - 1 /\ unspawned' = unspawned + 1
  <2>1. Accepting \in SUBSET Threads /\ t \in Accepting  BY <1>2 DEF Accepting
  <2>2. /\ Cardinality(Accepting \ {t}) = Cardinality(Accepting) - 1
        /\ Accepting \ {t} \in SUBSET Threads
        /\ Cardinality(Accepting) \in Nat /\ Cardinality(Accepting \ {t}) \in Nat
    BY <2>1, OneLess, ThreadSets
  <2>3. CASE unspawned' = unspawned
    <3>1. unspawned \in Nat  BY DEF TablesInv
    <3>2. /\ Accepting' = (Accepting \ {t}) \cup {tid_cnt}
          /\ tid_cnt \in Threads /\ tid_cnt \notin Accepting \ {t}
      BY <1>2, <1>5, <2>3, <3>1 DEF Accepting
    <3>3. Cardinality(Accepting') = Cardinality(Accepting \ {t}) + 1
      BY <2>2, <3>2, OneMore
    <3> QED  BY <2>2, <2>3, <3>3
  <2>4. CASE unspawned' = unspawned + 1
    <3>1. unspawned \in Nat  BY DEF TablesInv
    <3>2. Accepting' = Accepting \ {t}  BY <1>2, <1>5, <2>4, <3>1 DEF Accepting
    <3> QED  BY <2>2, <2>4, <3>2
  <2> QED  BY <1>5, <2>3, <2>4
<1>8. ThreadsInv'
  <2>1. tid_cnt' \in 0 .. MaxThreads  BY <1>5, ServerAssumption DEF ThreadsInv, Threads
  <2>2. \A s \in Threads : s >= tid_cnt' => thread'[s].pc = "none"
    <3>1. t < tid_cnt  BY <1>2 DEF ThreadsInv, Threads
    <3> QED  BY <1>5, <3>1 DEF ThreadsInv, Threads
  <2>3. \A s \in Threads : thread'[s].pc \in {"poll", "peek", "leave"} => thread'[s].idx >= 0
    BY <1>5 DEF ThreadsInv
  <2>4. \A s \in Serving' : thread'[s].fd \in Fds  BY <1>5, <1>6 DEF ThreadsInv
  <2> QED  BY <1>5, <2>1, <2>2, <2>3, <2>4 DEF ThreadsInv
<1>9. TablesInv'
  <2>1. fds' \in [Fds -> Conns \cup {0}]  BY <1>1, <1>4 DEF TablesInv
  <2>2. unspawned' \in Nat  BY <1>5 DEF TablesInv
  <2> QED  BY <1>2, <2>1, <2>2 DEF TablesInv
<1>10. OwnDescriptor'
  <2>1. SUFFICES ASSUME forgotten = 0 PROVE OwnDescriptor'  BY <1>2 DEF OwnDescriptor
  <2>2. fds' \in [Fds -> Conns \cup {0}] /\ fds'[f] = Head(backlog)
        /\ \A g \in Fds \ {f} : fds'[g] = fds[g]
    BY <1>1, <1>4 DEF TablesInv
  <2>3. \A s \in Serving : thread[s].fd \in Fds /\ fds[thread[s].fd] # 0
    BY <1>6, <2>1 DEF OwnDescriptor, ThreadsInv, Conn, ConnOf
  <2>4. \A s \in Serving : thread[s].fd # f  BY <1>1, <2>3
  <2>5. \A s \in Serving' : Conn(s)' # 0
    BY <1>4, <1>5, <1>6, <2>2, <2>3, <2>4 DEF Conn, ConnOf
  <2>6. \A r, s \in Serving' : r # s => thread'[r].fd # thread'[s].fd
    BY <1>5, <1>6, <2>1, <2>4 DEF OwnDescriptor
  <2> QED  BY <2>5, <2>6 DEF OwnDescriptor
<1>11. AcceptorsAccounted'  BY <1>2, <1>7 DEF AcceptorsAccounted, TablesInv
<1>12. Counted'  BY <1>2, <1>6 DEF Counted
<1>13. SameClients  BY <1>2, <1>6 DEF SameClients, Clients, Registered, Serving
<1> QED  BY <1>7, <1>8, <1>9, <1>10, <1>11, <1>12, <1>13

-----------------------------------------------------------------------------
(* The clients                                                             *)

\* A client that closes its connection or goes on with a call.
LEMMA ClientKept ==
  ASSUME NEW C, 0 \in C, NEW c \in Nodes, client \in [Nodes -> ClientRecord(C)],
         NEW p \in ClientPlaces, NEW b \in BOOLEAN
  PROVE  /\ [client EXCEPT ![c].pc = p] \in [Nodes -> ClientRecord(C)]
         /\ [client EXCEPT ![c].stream = b] \in [Nodes -> ClientRecord(C)]
         /\ [client EXCEPT ![c].conn = 0] \in [Nodes -> ClientRecord(C)]
         /\ [client EXCEPT ![c].pc = p, ![c].stream = b] \in [Nodes -> ClientRecord(C)]
         /\ [client EXCEPT ![c].pc = p, ![c].conn = 0] \in [Nodes -> ClientRecord(C)]
<1>1. client[c] \in ClientRecord(C)  OBVIOUS
<1>2. [client EXCEPT ![c].pc = p] \in [Nodes -> ClientRecord(C)]  BY <1>1 DEF ClientRecord
<1>3. [client EXCEPT ![c].stream = b] \in [Nodes -> ClientRecord(C)]  BY <1>1 DEF ClientRecord
<1>4. [client EXCEPT ![c].conn = 0] \in [Nodes -> ClientRecord(C)]  BY <1>1 DEF ClientRecord
<1>5. [client EXCEPT ![c].pc = p, ![c].stream = b] \in [Nodes -> ClientRecord(C)]
  BY <1>1 DEF ClientRecord
<1>6. [client EXCEPT ![c].pc = p, ![c].conn = 0] \in [Nodes -> ClientRecord(C)]
  BY <1>1 DEF ClientRecord
<1> QED  BY <1>2, <1>3, <1>4, <1>5, <1>6

\* Steps of clients.
LEMMA ClientSteps ==
  ASSUME NetworkInv, ClientNext, Accepting' = Accepting
  PROVE  NetworkInv'
<1> DEFINE C == 0 .. conns
<1>1. conns \in 0 .. MaxConns /\ 0 \in C  BY SocketsAssumption DEF NetworkInv
<1>2. backlog \in Seq(Conns) /\ lingering \in 0 .. Cardinality(Accepting)  BY DEF NetworkInv
<1>3. client \in [Nodes -> ClientRecord(C)]  BY DEF NetworkInv
<1> HIDE DEF C
<1>4. ASSUME NEW c \in Nodes, NEW path \in PathsOf[c], ClientConnect(c, path) PROVE NetworkInv'
  <2>1. /\ conns' = conns + 1 /\ conns < MaxConns /\ lingering' = lingering
        /\ backlog' = Append(backlog, conns + 1)
    BY <1>4 DEF ClientConnect
  <2>2. client' = [client EXCEPT ![c].pc = IF path = <<>> THEN "idle" ELSE "answer",
                              ![c].conn = conns + 1, ![c].path = path]
    BY <1>4 DEF ClientConnect
  <2>3. conns' \in 0 .. MaxConns /\ conns + 1 \in Conns  BY <1>1, <2>1, SocketsAssumption DEF Conns
  <2>4. backlog' \in Seq(Conns)  BY <1>2, <2>1, <2>3
  <2>5. path \in ClientPaths  BY ClientAssumption DEF ClientPaths
  <2>6. client \in [Nodes -> ClientRecord(0 .. conns')]
    <3>1. C \subseteq 0 .. conns'  BY <1>1, <2>1, SocketsAssumption DEF C
    <3> QED  BY <1>3, <3>1 DEF ClientRecord
  <2>7. conns + 1 \in 0 .. conns'  BY <1>1, <2>1, SocketsAssumption
  <2>8. client' \in [Nodes -> ClientRecord(0 .. conns')]
    <3> DEFINE D == 0 .. conns'
               pc == IF path = <<>> THEN "idle" ELSE "answer"
               r == [client[c] EXCEPT !.pc = pc, !.conn = conns + 1, !.path = path]
    <3>1. client[c] \in ClientRecord(D) /\ conns + 1 \in D /\ pc \in ClientPlaces  BY <2>6, <2>7 DEF ClientPlaces
    <3> HIDE DEF D, pc
    <3>2. r \in ClientRecord(D)  BY <2>5, <3>1 DEF ClientRecord
    <3>3. client' = [client EXCEPT ![c] = r]  BY <2>2, <2>6 DEF pc
    <3> HIDE DEF r
    <3> QED  BY <2>6, <3>2, <3>3 DEF D
  <2> QED  BY <1>2, <2>1, <2>3, <2>4, <2>8 DEF NetworkInv
<1>5. ASSUME NEW c \in Nodes,
             ClientConnectFails(c) \/ ClientAnswer(c) \/ ClientRead(c) \/ ClientWrite(c) \/ ClientClose(c)
      PROVE  NetworkInv'
  <2>1. UNCHANGED <<conns, backlog, lingering>>
    BY <1>5 DEF ClientConnectFails, ClientAnswer, ClientRead, ClientWrite, ClientClose, sockets
  <2> DEFINE Kept(d) == d \in [Nodes -> ClientRecord(C)]
  <2>2. \A p \in ClientPlaces, b \in BOOLEAN :
          /\ Kept(client) /\ Kept([client EXCEPT ![c].pc = p])
          /\ Kept([client EXCEPT ![c].conn = 0])
          /\ Kept([client EXCEPT ![c].pc = p, ![c].stream = b])
          /\ Kept(ClosedClient(c)) /\ Kept([ClosedClient(c) EXCEPT ![c].stream = b])
    <3> SUFFICES ASSUME NEW p \in ClientPlaces, NEW b \in BOOLEAN
                 PROVE  /\ Kept(client) /\ Kept([client EXCEPT ![c].pc = p])
                        /\ Kept([client EXCEPT ![c].conn = 0])
                        /\ Kept([client EXCEPT ![c].pc = p, ![c].stream = b])
                        /\ Kept(ClosedClient(c)) /\ Kept([ClosedClient(c) EXCEPT ![c].stream = b])
      OBVIOUS
    <3>1. /\ Kept(client) /\ Kept([client EXCEPT ![c].pc = p])
          /\ Kept([client EXCEPT ![c].conn = 0])
          /\ Kept([client EXCEPT ![c].pc = p, ![c].stream = b])
      BY <1>1, <1>3, ClientKept
    <3>2. Kept(ClosedClient(c))  BY <1>1, <1>3, ClientKept DEF ClosedClient, ClientPlaces
    <3>3. Kept([ClosedClient(c) EXCEPT ![c].stream = b])
      <4>1. ClosedClient(c)[c] \in ClientRecord(C)  BY <3>2
      <4> QED  BY <3>2, <4>1 DEF ClientRecord
    <3> QED  BY <3>1, <3>2, <3>3
  <2> HIDE DEF Kept
  <2>3. CASE ClientConnectFails(c)  
    <3>1. client' = [client EXCEPT ![c].conn = 0]  BY <2>3 DEF ClientConnectFails
    <3>2. Kept(client')  BY <2>2, <3>1 DEF ClientPlaces
    <3> QED  BY <1>1, <1>2, <2>1, <3>2 DEF NetworkInv, Kept, C
  <2>4. CASE ClientAnswer(c)
    <3>1. \/ client' = [client EXCEPT ![c].pc = "idle", ![c].stream = TRUE]
          \/ client' = client \/ client' = ClosedClient(c)
          \/ \E b \in BOOLEAN : client' = [ClosedClient(c) EXCEPT ![c].stream = b]
      BY <2>4 DEF ClientAnswer
    <3>2. Kept(client')  BY <2>2, <3>1 DEF ClientPlaces
    <3> QED  BY <1>1, <1>2, <2>1, <3>2 DEF NetworkInv, Kept, C
  <2>5. CASE ClientRead(c)
    <3>1. \/ client' = ClosedClient(c)
          \/ \E p \in ClientPlaces : client' = [client EXCEPT ![c].pc = p]
      BY <2>5 DEF ClientRead, ClientPlaces
    <3>2. Kept(client')  BY <2>2, <3>1 DEF ClientPlaces
    <3> QED  BY <1>1, <1>2, <2>1, <3>2 DEF NetworkInv, Kept, C
  <2>6. CASE ClientWrite(c)
    <3>1. client' = client \/ client' = ClosedClient(c)  BY <2>6 DEF ClientWrite
    <3>2. Kept(client')  BY <2>2, <3>1 DEF ClientPlaces
    <3> QED  BY <1>1, <1>2, <2>1, <3>2 DEF NetworkInv, Kept, C
  <2>7. CASE ClientClose(c)
    <3>1. client' = ClosedClient(c)  BY <2>7 DEF ClientClose
    <3>2. Kept(client')  BY <2>2, <3>1 DEF ClientPlaces
    <3> QED  BY <1>1, <1>2, <2>1, <3>2 DEF NetworkInv, Kept, C
  <2> QED  BY <1>5, <2>3, <2>4, <2>5, <2>6, <2>7
<1> QED  BY <1>4, <1>5 DEF ClientNext, ClientStep

-----------------------------------------------------------------------------
(* Invariance                                                              *)

\* Steps that leave the connections that wait alone.
LEMMA SameNetwork ==
  ASSUME NetworkInv, UNCHANGED <<conns, backlog, lingering, client>>,
         Cardinality(Accepting') \in Nat, Cardinality(Accepting) \in Nat,
         Cardinality(Accepting') >= Cardinality(Accepting)
  PROVE  NetworkInv'
<1>1. lingering' \in 0 .. Cardinality(Accepting')  BY DEF NetworkInv
<1> QED  BY <1>1 DEF NetworkInv

\* At the start nothing is counted.
LEMMA InitInv == Init => IInv
<1> SUFFICES ASSUME Init PROVE IInv  OBVIOUS
<1> USE DEF Init, SocketsInit, ServerInit, ClientInit
<1>1. \A t \in Threads : thread[t] = NoThread  OBVIOUS
<1>2. Accepting = {} /\ Clients = {} /\ Serving = {}
  BY <1>1 DEF Accepting, Clients, Registered, Serving, NoThread
<1>3. Cardinality({}) = 0  BY FS_EmptySet
<1>4. ThreadsInv
  <2>1. NoThread \in ThreadRecord  BY ServerAssumption DEF NoThread, ThreadRecord, Places
  <2>2. tid_cnt \in 0 .. MaxThreads  BY ServerAssumption
  <2> QED  BY <1>1, <1>2, <2>1, <2>2 DEF ThreadsInv, NoThread
<1>5. TablesInv  BY ServerAssumption DEF TablesInv
<1>6. OwnDescriptor  BY <1>2 DEF OwnDescriptor
<1>7. AcceptorsAccounted  BY <1>2, <1>3 DEF AcceptorsAccounted
<1>8. Counted
  <2>1. 0 * CountRange = 0  BY ServerAssumption
  <2>2. client_cnt + forgotten = Cardinality(Clients) + 0 * CountRange  BY <1>2, <1>3, <2>1
  <2> QED  BY <2>2 DEF Counted
<1>9. NetworkInv
  <2>1. conns \in 0 .. MaxConns /\ 0 \in 0 .. conns  BY SocketsAssumption
  <2>2. backlog \in Seq(Conns)  OBVIOUS
  <2>3. lingering \in 0 .. Cardinality(Accepting)  BY <1>2, <1>3
  <2>4. Disconnected \subseteq ClientRecord(0 .. conns)
    BY <2>1, EmptySeq DEF Disconnected, ClientRecord, ClientPlaces, ClientPaths
  <2> QED  BY <2>1, <2>2, <2>3, <2>4 DEF NetworkInv
<1> QED  BY <1>4, <1>5, <1>6, <1>7, <1>8, <1>9 DEF IInv, ServerInv

\* Calls of the owner and steps of threads.
LEMMA ServerSteps ==
  ASSUME IInv, ServerNext, UNCHANGED clients
  PROVE  IInv'
<1> USE DEF IInv
<1>1. client' = client  BY DEF clients
<1>2. Cardinality(Accepting) \in Nat  BY ThreadSets DEF Accepting
<1>3. CASE ServerConnect
  <2>1. ServerInv' /\ Cardinality(Accepting') = Cardinality(Accepting) + 1  BY <1>3, ConnectStep
  <2>2. UNCHANGED <<conns, backlog, lingering>>  BY <1>3 DEF ServerConnect
  <2> QED  BY <1>1, <1>2, <2>1, <2>2, SameNetwork
<1>4. CASE CloseAll
  <2>1. ServerInv' /\ Accepting' = Accepting  BY <1>4, CloseStep
  <2>2. lingering' \in 0 .. Cardinality(Accepting)  BY <1>2, <1>4 DEF CloseAll, NetworkInv
  <2>3. backlog' \in Seq(Conns) /\ conns' = conns  BY <1>4 DEF CloseAll, NetworkInv
  <2> QED  BY <1>1, <2>1, <2>2, <2>3 DEF NetworkInv
<1>5. CASE ServerWrite \/ ServerRead
  <2>1. /\ UNCHANGED <<thread, tid_cnt, client_fd, client_cnt, fds, opens, unspawned, forgotten>>
        /\ UNCHANGED <<conns, backlog, lingering>>
    BY <1>5 DEF ServerWrite, ServerRead, server, serverHistory, sockets
  <2>2. ServerInv' /\ Accepting' = Accepting  BY <2>1, SameServer
  <2> QED  BY <1>1, <1>2, <2>1, <2>2, SameNetwork
<1>6. ASSUME NEW t \in Threads, RunAccept(t) PROVE IInv'
  <2>1. /\ ServerInv' /\ Cardinality(Accepting') \in Nat
        /\ Cardinality(Accepting') >= Cardinality(Accepting) - 1
    BY <1>6, AcceptStep
  <2>2. /\ lingering' = IF lingering > 0 THEN lingering - 1 ELSE 0
        /\ backlog # <<>> /\ (backlog' = <<>> \/ backlog' = Tail(backlog)) /\ conns' = conns
    BY <1>6 DEF RunAccept
  <2>3. lingering' \in 0 .. Cardinality(Accepting')
    <3>1. lingering \in 0 .. Cardinality(Accepting)  BY DEF NetworkInv
    <3> QED  BY <1>2, <2>1, <2>2, <3>1
  <2>4. backlog' \in Seq(Conns)
    <3>1. backlog \in Seq(Conns)  BY DEF NetworkInv
    <3>2. CASE backlog' = <<>>  BY <3>2
    <3>3. CASE backlog' = Tail(backlog)
      <4>1. Tail(backlog) \in Seq(Conns)  BY <2>2, <3>1, HeadTailProperties
      <4> QED  BY <3>3, <4>1
    <3> QED  BY <2>2, <3>2, <3>3
  <2> QED  BY <1>1, <2>1, <2>2, <2>3, <2>4 DEF NetworkInv
<1>7. ASSUME NEW t \in Threads, RunStep(t) PROVE IInv'
  <2>1. UNCHANGED <<conns, backlog, lingering>>
    BY <1>7 DEF RunStep, RunRequest, RunReply, RunRegister, RunRead, RunLeave, RunClose, RestUnchanged, sockets
  <2>2. ServerInv' /\ Accepting' = Accepting
    <3>1. CASE RunRequest(t) \/ RunReply(t) \/ RunRead(t)  BY <3>1, RunGoingOn
    <3>2. CASE RunRegister(t)  BY <3>2, RegisterStep
    <3>3. CASE RunLeave(t)  BY <3>3, LeaveStep
    <3>4. CASE RunClose(t)  BY <3>4, RunCloseStep
    <3> QED  BY <1>7, <3>1, <3>2, <3>3, <3>4 DEF RunStep
  <2> QED  BY <1>1, <1>2, <2>1, <2>2, SameNetwork
<1>8. ServerConnectFails => CloseAll  BY DEF ServerConnectFails
<1>9. ServerClose => CloseAll  BY DEF ServerClose
<1>10. CASE LingerEnds
  <2>1. /\ UNCHANGED <<thread, tid_cnt, client_fd, client_cnt, fds, opens, unspawned, forgotten>>
        /\ conns' = conns /\ lingering > 0 /\ lingering' = lingering - 1
        /\ backlog' = <<>> \/ backlog' = backlog
    BY <1>10 DEF LingerEnds, server, serverHistory
  <2>2. ServerInv' /\ Accepting' = Accepting  BY <2>1, SameServer
  <2>3. lingering' \in 0 .. Cardinality(Accepting)  BY <1>2, <2>1 DEF NetworkInv
  <2>4. backlog' \in Seq(Conns)
    <3>1. backlog \in Seq(Conns) /\ <<>> \in Seq(Conns)  BY EmptySeq DEF NetworkInv
    <3> QED  BY <2>1, <3>1
  <2> QED  BY <1>1, <2>1, <2>2, <2>3, <2>4 DEF NetworkInv
<1> QED  BY <1>3, <1>4, <1>5, <1>6, <1>7, <1>8, <1>9, <1>10 DEF ServerNext

\* Every step keeps the invariant.
LEMMA NextInv == IInv /\ [Next]_vars => IInv'
<1> SUFFICES ASSUME IInv, [Next]_vars PROVE IInv'  OBVIOUS
<1> USE DEF IInv
<1>1. Cardinality(Accepting) \in Nat  BY ThreadSets DEF Accepting
<1>2. CASE ServerNext /\ UNCHANGED clients  BY <1>2, ServerSteps
<1>3. CASE ClientNext /\ UNCHANGED <<server, serverHistory>>
  <2>1. UNCHANGED <<thread, tid_cnt, client_fd, client_cnt, fds, opens, unspawned, forgotten>>
    BY <1>3 DEF server, serverHistory
  <2>2. ServerInv' /\ Accepting' = Accepting  BY <2>1, SameServer
  <2> QED  BY <1>3, <2>2, ClientSteps
<1>4. CASE \/ \E k \in Conns : Break(k) /\ UNCHANGED <<server, serverHistory, clients>>
           \/ UNCHANGED vars
  <2>1. /\ UNCHANGED <<thread, tid_cnt, client_fd, client_cnt, fds, opens, unspawned, forgotten>>
        /\ UNCHANGED <<conns, backlog, lingering, client>>
    BY <1>4 DEF Break, server, serverHistory, clients, sockets, vars
  <2>2. ServerInv' /\ Accepting' = Accepting  BY <2>1, SameServer
  <2> QED  BY <1>1, <2>1, <2>2, SameNetwork
<1> QED  BY <1>2, <1>3, <1>4 DEF Next

\* The invariant holds in every reachable state.
LEMMA Invariance == Spec => []IInv
<1> QED  BY InitInv, NextInv, PTL DEF Spec

\* Indices, counts, places and descriptors stay in their ranges.
THEOREM TypeCorrect == Spec => []TypeOK
<1>1. IInv => TypeOK
  <2> SUFFICES ASSUME IInv PROVE TypeOK  OBVIOUS
  <2>1. /\ client_cnt \in 0 .. CountRange - 1 /\ tid_cnt \in 0 .. MaxThreads
        /\ \A i \in DOMAIN client_fd : client_fd[i] \in Fds \cup {0}
        /\ \A f \in Fds : fds[f] \in Conns \cup {0}
    BY DEF IInv, ServerInv, TablesInv, ThreadsInv
  <2>2. \A t \in Threads : thread[t].fd \in Fds \cup {0} /\ thread[t].idx \in -1 .. MaxClients - 1
    <3>1. thread \in [Threads -> ThreadRecord]  BY DEF IInv, ServerInv, ThreadsInv
    <3> QED  BY <3>1 DEF ThreadRecord
  <2>3. \A c \in Nodes : client[c].conn \in 0 .. conns
    <3>1. client \in [Nodes -> ClientRecord(0 .. conns)]  BY DEF IInv, NetworkInv
    <3> QED  BY <3>1 DEF ClientRecord
  <2>4. lingering \in 0 .. Cardinality(Accepting)  BY DEF IInv, NetworkInv
  <2> QED  BY <2>1, <2>2, <2>3, <2>4 DEF TypeOK
<1> QED  BY <1>1, Invariance, PTL

\* The count of the clients, with those that close() dropped, is that of the threads
\* that run for a client, up to turns of the count (_tcp_server.cpp:70, 217, 243).
THEOREM ClientsCounted == Spec => []CountIsRegistered
<1>1. IInv => CountIsRegistered
  <2> SUFFICES ASSUME IInv PROVE CountIsRegistered  OBVIOUS
  <2>1. PICK n \in Nat : client_cnt + forgotten = Cardinality(Clients) + n * CountRange
    BY DEF IInv, ServerInv, Counted
  <2>2. Cardinality(Clients) \in Nat  BY ThreadSets DEF Clients
  <2>3. CountRange \in Nat \ {0}  BY ServerAssumption
  <2>4. (Cardinality(Clients) + n * CountRange) % CountRange = Cardinality(Clients) % CountRange
    BY <2>2, <2>3, RemainderPlus
  <2> QED  BY <2>1, <2>4 DEF CountIsRegistered
<1> QED  BY <1>1, Invariance, PTL

-----------------------------------------------------------------------------
(* The table of the clients                                                *)

\* Until a thread leaves in front of which another has left, the entries are the
\* descriptors of the clients, each of them once; a thread in front of which nobody
\* has left finds its own at the index that it registered at.
TableInv ==
    orderly =>
        /\ forgotten = 0
        /\ client_cnt = Cardinality(Clients) /\ client_cnt <= MaxClients
        /\ \A i \in 0 .. client_cnt - 1 : \E t \in Clients : client_fd[i] = thread[t].fd
        /\ \A t \in Clients : \E i \in 0 .. client_cnt - 1 : client_fd[i] = thread[t].fd
        /\ \A i, j \in 0 .. client_cnt - 1 : client_fd[i] = client_fd[j] => i = j
        /\ \A t \in Clients \ moved :
              thread[t].idx < client_cnt /\ client_fd[thread[t].idx] = thread[t].fd

\* Steps that change neither the table nor the clients.
LEMMA SameTable ==
  ASSUME TableInv, SameClients, orderly' = orderly, moved' = moved
  PROVE  TableInv'
BY DEF TableInv, SameClients

\* A client is added at the end.
LEMMA TableRegister ==
  ASSUME IInv, TableInv, NEW t \in Threads, RunRegister(t)
  PROVE  TableInv'
<1>1. /\ thread[t].pc = "register" /\ client_cnt < MaxClients
      /\ client_fd' = [client_fd EXCEPT ![client_cnt] = thread[t].fd]
      /\ client_cnt' = client_cnt + 1
      /\ thread' = [thread EXCEPT ![t].pc = "poll", ![t].idx = client_cnt]
      /\ forgotten' = forgotten /\ orderly' = orderly /\ moved' = moved
  BY DEF RunRegister, At, FirstFree
<1> SUFFICES ASSUME orderly PROVE TableInv'  BY <1>1 DEF TableInv
<1>2. /\ forgotten = 0 /\ client_cnt = Cardinality(Clients)
      /\ \A i \in 0 .. client_cnt - 1 : \E s \in Clients : client_fd[i] = thread[s].fd
      /\ \A s \in Clients : \E i \in 0 .. client_cnt - 1 : client_fd[i] = thread[s].fd
      /\ \A i, j \in 0 .. client_cnt - 1 : client_fd[i] = client_fd[j] => i = j
      /\ \A s \in Clients \ moved :
            thread[s].idx < client_cnt /\ client_fd[thread[s].idx] = thread[s].fd
  BY DEF TableInv
<1>3. /\ client_cnt \in 0 .. MaxClients - 1
      /\ DOMAIN client_fd = 0 .. MaxClients - 1
      /\ thread \in [Threads -> ThreadRecord]
  BY <1>1, ServerAssumption DEF IInv, ServerInv, ThreadsInv, TablesInv
<1>4. \A s \in Threads : /\ thread'[s].fd = thread[s].fd
                         /\ s # t => thread'[s] = thread[s]
  BY <1>1, <1>3
<1>5. thread'[t].pc = "poll" /\ thread'[t].idx = client_cnt
  <2>1. thread[t] \in ThreadRecord  BY <1>3
  <2> QED  BY <1>1, <1>3, <2>1 DEF ThreadRecord
<1>6. Clients' = Clients \cup {t} /\ t \notin Clients /\ Clients \in SUBSET Threads
  BY <1>1, <1>3, <1>4, <1>5 DEF Clients, Registered
<1>7. Cardinality(Clients') = Cardinality(Clients) + 1  BY <1>6, OneMore
<1>8. \A s \in Clients : thread[s].fd # thread[t].fd
  <2>1. Clients \subseteq Serving /\ t \in Serving  BY <1>1 DEF Clients, Registered, Serving
  <2> QED  BY <1>2, <1>6, <2>1 DEF IInv, ServerInv, OwnDescriptor
<1>9. /\ client_fd'[client_cnt] = thread[t].fd
      /\ \A i \in 0 .. client_cnt - 1 : client_fd'[i] = client_fd[i]
  BY <1>1, <1>3
<1>10. \A i \in 0 .. client_cnt' - 1 : i = client_cnt \/ i \in 0 .. client_cnt - 1  BY <1>1, <1>3
<1>11. 0 .. client_cnt - 1 \subseteq 0 .. client_cnt' - 1 /\ client_cnt \in 0 .. client_cnt' - 1
  BY <1>1, <1>3
<1>12. client_cnt' = Cardinality(Clients') /\ client_cnt' <= MaxClients
  BY <1>1, <1>2, <1>3, <1>7, ServerAssumption
<1>13. \A i \in 0 .. client_cnt' - 1 : \E s \in Clients' : client_fd'[i] = thread'[s].fd
  BY <1>2, <1>4, <1>6, <1>9, <1>10
<1>14. \A s \in Clients' : \E i \in 0 .. client_cnt' - 1 : client_fd'[i] = thread'[s].fd
  BY <1>2, <1>4, <1>6, <1>9, <1>11
<1>15. \A i, j \in 0 .. client_cnt' - 1 : client_fd'[i] = client_fd'[j] => i = j
  BY <1>2, <1>8, <1>9, <1>10
<1>16. \A s \in Clients' \ moved' :
         thread'[s].idx < client_cnt' /\ client_fd'[thread'[s].idx] = thread'[s].fd
  <2>1. \A s \in Clients \ moved : thread[s].idx \in 0 .. client_cnt - 1
    BY <1>2, <1>3, <1>6, ServerAssumption DEF Clients, Registered, ThreadRecord
  <2>2. ASSUME NEW s \in Clients \ moved
        PROVE  thread'[s].idx < client_cnt' /\ client_fd'[thread'[s].idx] = thread'[s].fd
    BY <1>1, <1>2, <1>3, <1>4, <1>6, <1>9, <2>1
  <2>3. thread'[t].idx < client_cnt' /\ client_fd'[thread'[t].idx] = thread'[t].fd
    BY <1>1, <1>3, <1>4, <1>5, <1>9
  <2> QED  BY <1>1, <1>6, <2>2, <2>3
<1> QED  BY <1>1, <1>2, <1>12, <1>13, <1>14, <1>15, <1>16 DEF TableInv

\* A client removes its own entry, and those behind it move up.
LEMMA TableLeave ==
  ASSUME IInv, TableInv, NEW t \in Threads, RunLeave(t)
  PROVE  TableInv'
<1> DEFINE x == thread[t].idx
<1>1. /\ thread[t].pc = "leave"
      /\ client_fd' = Without(client_fd, x)
      /\ client_cnt' = (client_cnt - 1) % CountRange
      /\ Goto(t, "close")
      /\ forgotten' = forgotten
      /\ moved' = (moved \cup {u \in Clients : thread[u].idx > x}) \ {t}
      /\ orderly' = (orderly /\ t \notin moved)
  BY DEF RunLeave, At, Fewer
<1> SUFFICES ASSUME orderly' PROVE TableInv'  BY DEF TableInv
<1>2. orderly /\ x < client_cnt /\ client_fd[x] = thread[t].fd
  <2>1. t \in Clients \ moved
    BY <1>1 DEF Clients, Registered, IInv, ServerInv, ThreadsInv
  <2> QED  BY <1>1, <2>1 DEF TableInv
<1>3. /\ forgotten = 0 /\ client_cnt = Cardinality(Clients) /\ client_cnt <= MaxClients
      /\ \A i \in 0 .. client_cnt - 1 : \E s \in Clients : client_fd[i] = thread[s].fd
      /\ \A s \in Clients : \E i \in 0 .. client_cnt - 1 : client_fd[i] = thread[s].fd
      /\ \A i, j \in 0 .. client_cnt - 1 : client_fd[i] = client_fd[j] => i = j
      /\ \A s \in Clients \ moved :
            thread[s].idx < client_cnt /\ client_fd[thread[s].idx] = thread[s].fd
  BY <1>2 DEF TableInv
<1>4. x \in 0 .. client_cnt - 1 /\ client_cnt \in Nat /\ client_cnt \in 0 .. CountRange - 1
  <2>1. client_cnt \in 0 .. CountRange - 1 /\ CountRange \in Nat
    BY ServerAssumption DEF IInv, ServerInv, TablesInv
  <2>2. x \in Int /\ x >= 0
    BY <1>1, ServerAssumption DEF IInv, ServerInv, ThreadsInv, ThreadRecord
  <2> HIDE DEF x
  <2> QED  BY <1>2, <2>1, <2>2
<1>5. client_cnt' = client_cnt - 1
  <2>1. CountRange \in Nat \ {0}  BY ServerAssumption
  <2> HIDE DEF x
  <2>2. client_cnt # 0  BY <1>4
  <2> QED  BY <1>1, <1>4, <2>1, <2>2, CountDown
<1>6. \A s \in Threads : /\ thread'[s].pc = IF s = t THEN "close" ELSE thread[s].pc
                         /\ thread'[s].fd = thread[s].fd
                         /\ thread'[s].idx = thread[s].idx
  BY <1>1, Going DEF Places, IInv, ServerInv
<1>7. Clients' = Clients \ {t} /\ t \in Clients /\ Clients \in SUBSET Threads
  BY <1>1, <1>6 DEF Clients, Registered, IInv, ServerInv, ThreadsInv
<1>8. \A r, s \in Clients : r # s => thread[r].fd # thread[s].fd
  <2>1. Clients \subseteq Serving  BY DEF Clients, Registered, Serving
  <2> QED  BY <1>3, <2>1 DEF IInv, ServerInv, OwnDescriptor
<1>9. \A i \in 0 .. client_cnt' - 1 : client_fd'[i] = IF i < x THEN client_fd[i] ELSE client_fd[i + 1]
  <2>1. DOMAIN client_fd = 0 .. MaxClients - 1  BY DEF IInv, ServerInv, TablesInv
  <2>2. \A i \in 0 .. client_cnt' - 1 : i \in DOMAIN client_fd /\ i + 1 < client_cnt
    BY <1>3, <1>4, <1>5, <2>1, ServerAssumption
  <2>3. client_fd' = [i \in DOMAIN client_fd |-> IF x <= i /\ i + 1 < client_cnt THEN client_fd[i + 1]
                                                 ELSE client_fd[i]]
    BY <1>1 DEF Without
  <2> HIDE DEF x
  <2> QED  BY <1>4, <1>5, <2>2, <2>3
\* Where the entries come from.
<1> DEFINE From(i) == IF i < x THEN i ELSE i + 1
<1>10. \A i \in 0 .. client_cnt' - 1 :
         /\ From(i) \in (0 .. client_cnt - 1) \ {x} /\ client_fd'[i] = client_fd[From(i)]
         /\ \A j \in 0 .. client_cnt' - 1 : From(i) = From(j) => i = j
  <2> HIDE DEF x
  <2> QED  BY <1>4, <1>5, <1>9
<1>11. \A k \in (0 .. client_cnt - 1) \ {x} : \E i \in 0 .. client_cnt' - 1 : From(i) = k
  <2> SUFFICES ASSUME NEW k \in (0 .. client_cnt - 1) \ {x}
               PROVE  \E i \in 0 .. client_cnt' - 1 : From(i) = k
    OBVIOUS
  <2> HIDE DEF x
  <2>1. CASE k < x
    <3>1. k \in 0 .. client_cnt' - 1 /\ From(k) = k  BY <1>4, <1>5, <2>1
    <3> QED  BY <3>1
  <2>2. CASE ~(k < x)
    <3>1. k - 1 \in 0 .. client_cnt' - 1 /\ From(k - 1) = k  BY <1>4, <1>5, <2>2
    <3> QED  BY <3>1
  <2> QED  BY <2>1, <2>2
<1>16. \A s \in Clients' \ moved' :
         thread'[s].idx < client_cnt' /\ client_fd'[thread'[s].idx] = thread'[s].fd
  <2> SUFFICES ASSUME NEW s \in Clients' \ moved'
               PROVE  thread'[s].idx < client_cnt' /\ client_fd'[thread'[s].idx] = thread'[s].fd
    OBVIOUS
  <2> DEFINE y == thread[s].idx
  <2>1. s \in Clients \ moved /\ s # t /\ ~(y > x)  BY <1>1, <1>7
  <2>2. y < client_cnt /\ client_fd[y] = thread[s].fd  BY <1>3, <2>1
  <2>3. y \in Int /\ y >= 0
    BY <1>7, <2>1, ServerAssumption DEF Clients, Registered, IInv, ServerInv, ThreadsInv, ThreadRecord
  <2>4. y # x  BY <1>2, <1>7, <1>8, <2>1, <2>2
  <2>5. thread'[s].idx = y /\ thread'[s].fd = thread[s].fd  BY <1>6, <1>7, <2>1
  <2> HIDE DEF x, y
  <2>6. y < x /\ y \in 0 .. client_cnt' - 1 /\ y < client_cnt'  BY <1>4, <1>5, <2>1, <2>3, <2>4
  <2>7. client_fd'[y] = client_fd[y]  BY <1>9, <2>6
  <2> QED  BY <2>2, <2>5, <2>6, <2>7
<1> HIDE DEF From, x
<1>12. client_cnt' = Cardinality(Clients') /\ client_cnt' <= MaxClients
  <2>1. Cardinality(Clients') = Cardinality(Clients) - 1  BY <1>7, OneLess
  <2> QED  BY <1>3, <1>4, <1>5, <2>1, ServerAssumption
<1>13. \A i \in 0 .. client_cnt' - 1 : \E s \in Clients' : client_fd'[i] = thread'[s].fd
  <2> SUFFICES ASSUME NEW i \in 0 .. client_cnt' - 1
               PROVE  \E s \in Clients' : client_fd'[i] = thread'[s].fd
    OBVIOUS
  <2>1. From(i) \in 0 .. client_cnt - 1 /\ From(i) # x /\ client_fd'[i] = client_fd[From(i)]  BY <1>10
  <2>2. PICK s \in Clients : client_fd[From(i)] = thread[s].fd  BY <1>3, <2>1
  <2>3. s # t  BY <1>2, <1>3, <1>4, <2>1, <2>2
  <2> QED  BY <1>6, <1>7, <2>1, <2>2, <2>3
<1>14. \A s \in Clients' : \E i \in 0 .. client_cnt' - 1 : client_fd'[i] = thread'[s].fd
  <2> SUFFICES ASSUME NEW s \in Clients'
               PROVE  \E i \in 0 .. client_cnt' - 1 : client_fd'[i] = thread'[s].fd
    OBVIOUS
  <2>1. s \in Clients /\ s # t /\ thread'[s].fd = thread[s].fd  BY <1>6, <1>7
  <2>2. PICK k \in 0 .. client_cnt - 1 : client_fd[k] = thread[s].fd  BY <1>3, <2>1
  <2>3. k # x  BY <1>2, <1>7, <1>8, <2>1, <2>2
  <2>4. PICK i \in 0 .. client_cnt' - 1 : From(i) = k  BY <1>11, <2>3
  <2> QED  BY <1>10, <2>1, <2>2, <2>4
<1>15. \A i, j \in 0 .. client_cnt' - 1 : client_fd'[i] = client_fd'[j] => i = j
  BY <1>3, <1>10
<1> QED  BY <1>1, <1>3, <1>12, <1>13, <1>14, <1>15, <1>16 DEF TableInv

\* close() of a server without clients.
LEMMA TableClose ==
  ASSUME IInv, TableInv, CloseAll
  PROVE  TableInv'
<1>1. /\ client_cnt' = 0 /\ forgotten' = forgotten + client_cnt
      /\ thread' = thread /\ client_fd' = client_fd
      /\ orderly' = (orderly /\ client_cnt = 0)
  BY DEF CloseAll, Forgets
<1> SUFFICES ASSUME orderly' PROVE TableInv'  BY DEF TableInv
<1>2. orderly /\ client_cnt = 0 /\ forgotten = 0  BY <1>1 DEF TableInv
<1>3. \A t \in Clients : \E i \in 0 .. client_cnt - 1 : client_fd[i] = thread[t].fd
  BY <1>2 DEF TableInv
<1>4. Clients' = {}  BY <1>1, <1>2, <1>3 DEF Clients, Registered
<1>5. Cardinality(Clients') = 0  BY <1>4, FS_EmptySet
<1>6. \A i \in 0 .. client_cnt' - 1 : FALSE  BY <1>1
<1> QED  BY <1>1, <1>2, <1>4, <1>5, <1>6, ServerAssumption DEF TableInv

\* Every step keeps the table right.
LEMMA TableNext == IInv /\ TableInv /\ [Next]_vars => TableInv'
<1> SUFFICES ASSUME IInv, TableInv, [Next]_vars PROVE TableInv'  OBVIOUS
<1>1. ServerInv /\ NetworkInv  BY DEF IInv
<1>2. CASE ServerConnect
  <2>1. SameClients  BY <1>1, <1>2, ConnectStep
  <2>2. orderly' = orderly /\ moved' = moved  BY <1>2 DEF ServerConnect
  <2> QED  BY <2>1, <2>2, SameTable
<1>3. CASE ServerClose \/ ServerConnectFails
  BY <1>3, TableClose DEF ServerClose, ServerConnectFails
<1>4. CASE \/ ServerWrite \/ ServerRead \/ LingerEnds
           \/ ClientNext /\ UNCHANGED <<server, serverHistory>>
           \/ \E k \in Conns : Break(k) /\ UNCHANGED <<server, serverHistory, clients>>
           \/ UNCHANGED vars
  <2>1. /\ UNCHANGED <<thread, tid_cnt, client_fd, client_cnt, fds, opens, unspawned, forgotten>>
        /\ orderly' = orderly /\ moved' = moved
    BY <1>4 DEF ServerWrite, ServerRead, LingerEnds, server, serverHistory, vars
  <2>2. SameClients  BY <1>1, <2>1, SameServer
  <2> QED  BY <2>1, <2>2, SameTable
<1>5. ASSUME NEW t \in Threads, RunAccept(t) PROVE TableInv'
  <2>1. SameClients  BY <1>1, <1>5, AcceptStep
  <2>2. orderly' = orderly /\ moved' = moved  BY <1>5 DEF RunAccept
  <2> QED  BY <2>1, <2>2, SameTable
<1>6. ASSUME NEW t \in Threads, RunRequest(t) \/ RunReply(t) \/ RunRead(t) PROVE TableInv'
  <2>1. SameClients  BY <1>1, <1>6, RunGoingOn
  <2>2. orderly' = orderly /\ moved' = moved
    BY <1>6 DEF RunRequest, RunReply, RunRead, RestUnchanged, serverHistory
  <2> QED  BY <2>1, <2>2, SameTable
<1>7. ASSUME NEW t \in Threads, RunClose(t) PROVE TableInv'
  <2>1. SameClients  BY <1>1, <1>7, RunCloseStep
  <2>2. orderly' = orderly /\ moved' = moved  BY <1>7 DEF RunClose, serverHistory
  <2> QED  BY <2>1, <2>2, SameTable
<1>8. ASSUME NEW t \in Threads, RunRegister(t) \/ RunLeave(t) PROVE TableInv'
  BY <1>8, TableRegister, TableLeave
<1> QED
  BY <1>2, <1>3, <1>4, <1>5, <1>6, <1>7, <1>8 DEF Next, ServerNext, RunStep

\* It holds from the beginning.
LEMMA TableInvariance == Spec => []TableInv
<1>1. Init => TableInv
  <2> SUFFICES ASSUME Init PROVE TableInv  OBVIOUS
  <2>1. /\ client_cnt = 0 /\ forgotten = 0 /\ \A t \in Threads : thread[t] = NoThread
    BY DEF Init, ServerInit
  <2>2. Clients = {}  BY <2>1 DEF Clients, Registered, NoThread
  <2>3. \A i \in 0 .. client_cnt - 1 : FALSE  BY <2>1
  <2> QED  BY <2>1, <2>2, <2>3, FS_EmptySet, ServerAssumption DEF TableInv
<1> QED  BY <1>1, TableNext, Invariance, PTL DEF Spec

\* Until a thread leaves in front of which another has left, or close() drops clients,
\* the table has the descriptors of the clients (_tcp_server.cpp:215-217, 240-242).
THEOREM TableRight == Spec => []TableIsRegistered
<1>1. TableInv => TableIsRegistered  BY DEF TableInv, TableIsRegistered, Table
<1> QED  BY <1>1, TableInvariance, PTL

\* Until close() drops clients, threads have descriptors of their own, which are open
\* (_tcp_server.cpp:68, 166, 248).
THEOREM DescriptorsOwned == Spec => []OwnDescriptor
<1>1. IInv => OwnDescriptor  BY DEF IInv, ServerInv
<1> QED  BY <1>1, Invariance, PTL

\* One thread waits for the next connection for each connect(), unless it could not
\* be created (_tcp_server.cpp:142, 168).
THEOREM AcceptorsCounted == Spec => []AcceptorsAccounted
<1>1. IInv => AcceptorsAccounted  BY DEF IInv, ServerInv
<1> QED  BY <1>1, Invariance, PTL

-----------------------------------------------------------------------------
(* One connection                                                          *)

EndFields == {"open", "in", "eof", "st"}

\* A connection consists of two ends.
Pair(c) ==
    /\ DOMAIN c = Ends
    /\ \A e \in Ends : DOMAIN c[e] = EndFields /\ c[e].open \in BOOLEAN

\* The server finds an error, or the end of the stream, at its end only when the
\* client has closed the other one.
Honest(c) == c["S"].open /\ (c["S"].st # "up" \/ c["S"].eof) => ~c["C"].open

\* What most calls do to a connection: no end is opened, and the server's not closed.
Softly(c, d) ==
    /\ Pair(d)
    /\ Honest(c) => Honest(d)
    /\ d["S"].open = c["S"].open
    /\ d["C"].open => c["C"].open

\* Doing nothing, or one thing after the other.
LEMMA SoftlyAgain ==
  /\ \A c : Pair(c) => Softly(c, c)
  /\ \A c, d, x : Softly(c, d) /\ Softly(d, x) => Softly(c, x)
BY DEF Softly

\* send() at either end.
LEMMA SentSoftly ==
  ASSUME NEW c, Pair(c), NEW e \in Ends, NEW tokens
  PROVE  Softly(c, Sent(c, e, tokens))
<1>1. "S" # "C" /\ Ends = {"S", "C"} /\ Peer("S") = "C" /\ Peer("C") = "S"  BY DEF Ends, Peer
<1>2. CASE ~c[e].open  BY <1>2, SoftlyAgain DEF Sent
<1>3. CASE c[e].open /\ ~SendOk(c, e)
  <2>1. Sent(c, e, tokens) = [c EXCEPT ![e].st = "dead"]  BY <1>3 DEF Sent
  <2>2. c[e].st # "up"  BY <1>3 DEF SendOk
  <2> QED  BY <1>1, <1>3, <2>1, <2>2 DEF Softly, Pair, Honest, EndFields
<1>4. CASE SendOk(c, e) /\ c[Peer(e)].open
  <2>1. Sent(c, e, tokens) = [c EXCEPT ![Peer(e)].in = @ \o tokens]  BY <1>4 DEF Sent, SendOk
  <2> DEFINE d == Sent(c, e, tokens)
  <2>2. /\ DOMAIN d = Ends
        /\ \A x \in Ends : DOMAIN d[x] = EndFields /\ d[x].open = c[x].open /\ d[x].st = c[x].st /\ d[x].eof = c[x].eof
    BY <1>1, <2>1 DEF Pair, EndFields
  <2> HIDE DEF d
  <2>3. Softly(c, d)  BY <1>1, <2>2 DEF Softly, Pair, Honest
  <2> QED  BY <2>3 DEF d
<1>5. CASE SendOk(c, e) /\ ~c[Peer(e)].open
  <2>1. Sent(c, e, tokens) = [c EXCEPT ![e].st = "err"]  BY <1>5 DEF Sent, SendOk
  <2> QED  BY <1>1, <1>5, <2>1 DEF Softly, Pair, Honest, EndFields, SendOk
<1> QED  BY <1>2, <1>3, <1>4, <1>5

\* What is left of a connection when one end is closed.
LEMMA ClosedEnds ==
  ASSUME NEW c, Pair(c), NEW e \in Ends
  PROVE  LET d == Closed(c, e)
         IN  /\ Honest(c) => Honest(d)
             /\ ~d[e].open /\ d[Peer(e)].open = c[Peer(e)].open
             /\ Pair(d)
<1>1. "S" # "C" /\ Ends = {"S", "C"} /\ Peer("S") = "C" /\ Peer("C") = "S"  BY DEF Ends, Peer
<1>2. DOMAIN Unused = EndFields /\ Unused.open = FALSE  BY DEF Unused, EndFields
<1> DEFINE d == Closed(c, e)
           p == Peer(e)
<1>3. p \in Ends /\ p # e  BY <1>1
<1>4. CASE ~c[e].open  BY <1>4 DEF Closed
<1>5. CASE c[e].open
  <2> DEFINE q == IF ~c[p].open THEN c[p]
                  ELSE IF c[e].in # <<>> THEN Reset(c[p])
                  ELSE [c[p] EXCEPT !.eof = TRUE]
  <2>1. d = [c EXCEPT ![e] = Unused, ![p] = q]  BY <1>5 DEF Closed
  <2>2. DOMAIN q = EndFields /\ q.open = c[p].open
    BY <1>3 DEF Pair, Reset, EndFields
  <2> HIDE DEF q
  <2>3. DOMAIN d = Ends /\ d[e] = Unused /\ d[p] = q  BY <1>3, <2>1 DEF Pair
  <2> HIDE DEF d, p
  <2>4. Ends = {e, p}  BY <1>1, <1>3
  <2>5. Pair(d)
    <3>1. \A x \in Ends : d[x] = Unused \/ d[x] = q  BY <2>3, <2>4
    <3>2. c[p].open \in BOOLEAN  BY <1>3 DEF Pair
    <3> QED  BY <1>2, <2>2, <2>3, <3>1, <3>2 DEF Pair
  <2>6. Honest(d)
    <3>1. CASE e = "S"  BY <1>2, <2>3, <3>1 DEF Honest
    <3>2. CASE e = "C"  BY <1>2, <2>3, <3>2 DEF Honest
    <3> QED  BY <1>1, <3>1, <3>2
  <2> QED  BY <1>2, <2>2, <2>3, <2>5, <2>6 DEF d, p
<1> QED  BY <1>4, <1>5 DEF Pair

\* recv() at either end.
LEMMA ReceivedSoftly ==
  ASSUME NEW c, Pair(c), NEW e \in Ends
  PROVE  /\ Softly(c, [c EXCEPT ![e].in = Tail(@)])
         /\ \A at : Softly(c, [c EXCEPT ![e] = ReadFrom(@, at)])
<1>1. "S" # "C" /\ Ends = {"S", "C"}  BY DEF Ends
<1>2. ASSUME NEW d, DOMAIN d = EndFields, d.open = c[e].open, d.eof = c[e].eof,
             d.st = "up" <=> c[e].st = "up"
      PROVE  Softly(c, [c EXCEPT ![e] = d])
  BY <1>1, <1>2 DEF Softly, Pair, Honest
<1>3. ASSUME NEW v PROVE Softly(c, [c EXCEPT ![e].in = v])
  <2> DEFINE d == [c[e] EXCEPT !.in = v]
  <2>1. DOMAIN d = EndFields /\ d.open = c[e].open /\ d.eof = c[e].eof /\ d.st = c[e].st
    BY DEF Pair, EndFields
  <2> HIDE DEF d
  <2>2. Softly(c, [c EXCEPT ![e] = d])  BY <1>2, <2>1
  <2> QED  BY <2>2 DEF d
<1>4. ASSUME NEW at PROVE Softly(c, [c EXCEPT ![e] = ReadFrom(@, at)])
  <2> DEFINE d == ReadFrom(c[e], at)
  <2>1. DOMAIN d = EndFields /\ d.open = c[e].open /\ d.eof = c[e].eof /\ (d.st = "up" <=> c[e].st = "up")
    <3>1. \/ d = [c[e] EXCEPT !.in = Tail(@)]
          \/ d = Reported(c[e]) \/ d = c[e]
      BY DEF ReadFrom
    <3>2. CASE d = [c[e] EXCEPT !.in = Tail(@)]  BY <3>2 DEF Pair, EndFields
    <3>3. CASE d = Reported(c[e])  BY <3>3 DEF Pair, EndFields, Reported
    <3>4. CASE d = c[e]  BY <3>4 DEF Pair
    <3> QED  BY <3>1, <3>2, <3>3, <3>4
  <2> HIDE DEF d
  <2>2. Softly(c, [c EXCEPT ![e] = d])  BY <1>2, <2>1
  <2> QED  BY <2>2 DEF d
<1> QED  BY <1>3, <1>4

-----------------------------------------------------------------------------
(* All connections, as long as nothing broke and no client was dropped      *)

\* A descriptor is open for a connection of its own, and so is everything that waits
\* to be accepted; a thread leaves its loop only when its client is gone.
CalmInv ==
    /\ DOMAIN sock = Conns \cup {0}
    /\ \A k \in DOMAIN sock : Pair(sock[k]) /\ Honest(sock[k])
    /\ \A f \in Fds : fds[f] # 0 => fds[f] \in 1 .. conns /\ sock[fds[f]]["S"].open
    /\ \A f, g \in Fds : f # g /\ fds[f] # 0 => fds[f] # fds[g]
    /\ \A i \in DOMAIN backlog : /\ backlog[i] \in 1 .. conns /\ sock[backlog[i]]["S"].open
                                 /\ \A f \in Fds : fds[f] # backlog[i]
    /\ \A i, j \in DOMAIN backlog : i # j => backlog[i] # backlog[j]
    /\ \A t \in Threads : thread[t].pc = "leave" => ~sock[Conn(t)]["C"].open

Calm == faults = 0 /\ forgotten = 0

\* A call that concerns one connection.
LEMMA OneConnection ==
  ASSUME CalmInv, NEW k \in DOMAIN sock, NEW d, Softly(sock[k], d), sock' = [sock EXCEPT ![k] = d]
  PROVE  DOMAIN sock' = DOMAIN sock /\ \A j \in DOMAIN sock : Softly(sock[j], sock'[j])
<1>1. \A j \in DOMAIN sock : Softly(sock[j], sock[j])  BY SoftlyAgain DEF CalmInv
<1> QED  BY <1>1

\* The connection of a thread is one.
LEMMA ConnIsOne ==
  ASSUME IInv, CalmInv, NEW t \in Threads
  PROVE  Conn(t) \in DOMAIN sock
BY DEF IInv, ServerInv, TablesInv, CalmInv, Conn, ConnOf

\* Steps that neither open nor close an end of the server.
LEMMA SoftStep ==
  ASSUME IInv, CalmInv, UNCHANGED <<fds, backlog, conns>>,
         DOMAIN sock' = DOMAIN sock, \A k \in DOMAIN sock : Softly(sock[k], sock'[k]),
         \A t \in Threads : thread'[t].pc = "leave" =>
            thread'[t].fd = thread[t].fd /\ (thread[t].pc = "leave" \/ ~sock[Conn(t)]["C"].open)
  PROVE  CalmInv'
<1>1. \A k \in DOMAIN sock' : Pair(sock'[k]) /\ Honest(sock'[k])  BY DEF CalmInv, Softly
<1>2. \A k \in Conns \cup {0} : /\ sock'[k]["S"].open = sock[k]["S"].open
                                /\ sock'[k]["C"].open => sock[k]["C"].open
  BY DEF CalmInv, Softly
<1>3. conns \in 0 .. MaxConns /\ MaxConns \in Nat  BY SocketsAssumption DEF IInv, NetworkInv
<1>4. \A k \in 1 .. conns : k \in Conns  BY <1>3 DEF Conns
<1>5. \A t \in Threads : thread'[t].pc = "leave" => ~sock'[Conn(t)']["C"].open
  <2> SUFFICES ASSUME NEW t \in Threads, thread'[t].pc = "leave" PROVE ~sock'[Conn(t)']["C"].open
    OBVIOUS
  <2>1. Conn(t)' = Conn(t)  BY DEF Conn, ConnOf
  <2>2. ~sock[Conn(t)]["C"].open  BY DEF CalmInv
  <2>3. Conn(t) \in Conns \cup {0}  BY ConnIsOne DEF CalmInv
  <2> QED  BY <1>2, <2>1, <2>2, <2>3
<1> QED  BY <1>1, <1>2, <1>4, <1>5 DEF CalmInv

\* A thread that goes on, but not out of its loop.
LEMMA SoftGoing ==
  ASSUME IInv, CalmInv, UNCHANGED <<fds, backlog, conns>>, NEW t \in Threads,
         NEW p \in Places, Goto(t, p), p = "leave" => ~sock[Conn(t)]["C"].open,
         DOMAIN sock' = DOMAIN sock, \A k \in DOMAIN sock : Softly(sock[k], sock'[k])
  PROVE  CalmInv'
<1>1. \A s \in Threads : /\ thread'[s].pc = IF s = t THEN p ELSE thread[s].pc
                         /\ thread'[s].fd = thread[s].fd
  BY Going DEF IInv, ServerInv
<1> QED  BY <1>1, SoftStep

-----------------------------------------------------------------------------
(* Steps of threads                                                        *)

\* The handshake.
LEMMA HandshakeStep ==
  ASSUME IInv, CalmInv, Calm, Calm', NEW t \in Threads, RunRequest(t) \/ RunReply(t)
  PROVE  CalmInv'
<1> DEFINE k == Conn(t)
<1>1. k \in DOMAIN sock /\ Pair(sock[k])  BY ConnIsOne DEF CalmInv
<1>2. "S" \in Ends  BY DEF Ends
<1>3. \A j \in DOMAIN sock : Softly(sock[j], sock[j])  BY SoftlyAgain DEF CalmInv
<1>4. UNCHANGED <<fds, backlog, conns>>  BY DEF RunRequest, RunReply, RestUnchanged
<1>5. CASE RunRequest(t)
  <2>1. PICK p \in {"reply", "close"} : Goto(t, p)  BY <1>5 DEF RunRequest
  <2> DEFINE d == [sock[k] EXCEPT !["S"].in = Tail(@)]
  <2>2. sock' = sock \/ sock' = [sock EXCEPT ![k] = d]
    <3>1. \/ sock' = sock
          \/ sock' = [sock EXCEPT ![k]["S"].in = Tail(@)]
      BY <1>5 DEF RunRequest
    <3> QED  BY <1>1, <3>1
  <2>3. DOMAIN sock' = DOMAIN sock /\ \A j \in DOMAIN sock : Softly(sock[j], sock'[j])
    <3>1. Softly(sock[k], d)  BY <1>1, <1>2, ReceivedSoftly
    <3> HIDE DEF d
    <3> QED  BY <1>1, <1>3, <2>2, <3>1, OneConnection
  <2>4. p \in Places /\ p # "leave"  BY DEF Places
  <2> QED  BY <1>4, <2>1, <2>3, <2>4, SoftGoing
<1>6. CASE RunReply(t)
  <2>1. PICK p \in {"register", "close"} : Goto(t, p)  BY <1>6 DEF RunReply
  <2> DEFINE d == Sent(sock[k], "S", << <<"answer">> >>)
  <2>2. sock' = [sock EXCEPT ![k] = d]  BY <1>6 DEF RunReply
  <2>3. Softly(sock[k], d)  BY <1>1, <1>2, SentSoftly
  <2>4. DOMAIN sock' = DOMAIN sock /\ \A j \in DOMAIN sock : Softly(sock[j], sock'[j])
    BY <1>1, <2>2, <2>3, OneConnection
  <2>5. p \in Places /\ p # "leave"  BY DEF Places
  <2> QED  BY <1>4, <2>1, <2>4, <2>5, SoftGoing
<1> QED  BY <1>5, <1>6

\* What a thread finds in its loop: an end that is lost is one whose peer is closed.
LEMMA LostIsClosed ==
  ASSUME IInv, CalmInv, Calm, NEW t \in Threads, thread[t].pc \in {"poll", "peek"},
         AfterRead(sock[Conn(t)]["S"], thread[t].pc) = "lost"
  PROVE  ~sock[Conn(t)]["C"].open
<1> DEFINE end == sock[Conn(t)]["S"]
<1>1. t \in Serving /\ thread[t].fd \in Fds  BY DEF Serving, IInv, ServerInv, ThreadsInv
<1>2. Conn(t) # 0 /\ Conn(t) = fds[thread[t].fd]
  BY <1>1 DEF Conn, ConnOf, IInv, ServerInv, OwnDescriptor, Calm
<1>3. end.open  BY <1>1, <1>2 DEF CalmInv
<1>4. Honest(sock[Conn(t)])  BY ConnIsOne DEF CalmInv
<1>5. Readable(end) \in {"error", "eof"}
  <2>1. Readable(end) \in {"error", "data", "eof", "nothing"}  BY DEF Readable
  <2>2. CASE thread[t].pc = "poll"  BY <2>1, <2>2 DEF AfterRead, AfterPoll
  <2>3. CASE thread[t].pc = "peek"  BY <2>1, <2>3 DEF AfterRead, AfterPeek
  <2> QED  BY <2>2, <2>3
<1>6. end.st \in {"err", "dead"} \/ end.eof  BY <1>3, <1>5 DEF Readable
<1> QED  BY <1>3, <1>4, <1>6 DEF Honest

\* The loop.
LEMMA ReadStep ==
  ASSUME IInv, CalmInv, Calm, NEW t \in Threads, RunRead(t)
  PROVE  CalmInv'
<1> DEFINE k == Conn(t)
           d == [sock[k] EXCEPT !["S"] = ReadFrom(@, thread[t].pc)]
           result == AfterRead(sock[k]["S"], thread[t].pc)
<1>1. k \in DOMAIN sock /\ Pair(sock[k]) /\ "S" \in Ends  BY ConnIsOne DEF CalmInv, Ends
<1>2. UNCHANGED <<fds, backlog, conns>>  BY DEF RunRead, RestUnchanged
<1>3. sock' = [sock EXCEPT ![k] = d]  BY DEF RunRead
<1>4. Softly(sock[k], d)  BY <1>1, ReceivedSoftly
<1>5. DOMAIN sock' = DOMAIN sock /\ \A j \in DOMAIN sock : Softly(sock[j], sock'[j])
  <2> HIDE DEF d
  <2> QED  BY <1>1, <1>3, <1>4, OneConnection
<1>6. PICK p \in {"poll", "peek", "leave"} : Goto(t, p) /\ (p = "leave" => result = "lost")
  BY DEF RunRead
<1>7. p = "leave" => ~sock[k]["C"].open  BY <1>6, LostIsClosed DEF RunRead
<1>8. p \in Places  BY DEF Places
<1> HIDE DEF d, result
<1> QED  BY <1>2, <1>5, <1>6, <1>7, <1>8, SoftGoing

\* Entering the table and leaving it.
LEMMA TableStep ==
  ASSUME IInv, CalmInv, NEW t \in Threads, RunRegister(t) \/ RunLeave(t)
  PROVE  CalmInv'
<1>1. UNCHANGED <<fds, backlog, conns, sock>>
  BY DEF RunRegister, RunLeave, Descriptors, sockets
<1>2. \A k \in DOMAIN sock : Softly(sock[k], sock[k])  BY SoftlyAgain DEF CalmInv
<1>3. \A s \in Threads : thread'[s].pc = "leave" => thread'[s].fd = thread[s].fd /\ thread[s].pc = "leave"
  <2>1. CASE RunRegister(t)
    <3>1. thread' = [thread EXCEPT ![t].pc = "poll", ![t].idx = client_cnt]  BY <2>1 DEF RunRegister
    <3>2. thread \in [Threads -> ThreadRecord]  BY DEF IInv, ServerInv, ThreadsInv
    <3>3. thread'[t].pc = "poll" /\ \A s \in Threads \ {t} : thread'[s] = thread[s]
      BY <3>1, <3>2 DEF ThreadRecord
    <3> QED  BY <3>3
  <2>2. CASE RunLeave(t)
    <3>1. Goto(t, "close") /\ "close" \in Places  BY <2>2 DEF RunLeave, Places
    <3> QED  BY <3>1, Going DEF IInv, ServerInv
  <2> QED  BY <2>1, <2>2
<1> QED  BY <1>1, <1>2, <1>3, SoftStep

\* The end of a thread: its descriptor is that of no other one, hence its connection.
LEMMA EndStep ==
  ASSUME IInv, CalmInv, Calm, NEW t \in Threads, RunClose(t)
  PROVE  CalmInv'
<1> DEFINE k == Conn(t)
           fd == thread[t].fd
           d == Closed(sock[k], "S")
<1>1. /\ thread[t].pc = "close" /\ Goto(t, "done")
      /\ sock' = [sock EXCEPT ![k] = d]
      /\ fds' = [f \in Fds |-> IF f = fd THEN 0 ELSE fds[f]]
      /\ UNCHANGED <<backlog, conns>>
  BY DEF RunClose, At
<1>2. \A s \in Threads : /\ thread'[s].pc = IF s = t THEN "done" ELSE thread[s].pc
                         /\ thread'[s].fd = thread[s].fd
  BY <1>1, Going DEF IInv, ServerInv, Places
<1>3. t \in Serving /\ fd \in Fds  BY <1>1 DEF Serving, IInv, ServerInv, ThreadsInv
<1>4. k # 0 /\ k = fds[fd] /\ k \in DOMAIN sock
  BY <1>3, ConnIsOne DEF Conn, ConnOf, IInv, ServerInv, OwnDescriptor, Calm
<1>5. /\ Pair(d) /\ Honest(d) /\ ~d["S"].open /\ d["C"].open = sock[k]["C"].open
  BY <1>4, ClosedEnds DEF CalmInv, Ends, Peer
<1> HIDE DEF d, k, fd
<1>6. DOMAIN sock' = DOMAIN sock /\ sock'[k] = d /\ \A j \in DOMAIN sock \ {k} : sock'[j] = sock[j]
  BY <1>1, <1>4
<1>7. \A f \in Fds : fds'[f] # 0 => f # fd /\ fds'[f] = fds[f] /\ fds[f] # k
  BY <1>1, <1>3, <1>4 DEF CalmInv
<1>8. \A f \in Fds : fds'[f] = 0 \/ fds'[f] = fds[f]  BY <1>1
<1>9. conns \in 0 .. MaxConns /\ MaxConns \in Nat  BY SocketsAssumption DEF IInv, NetworkInv
<1>10. \A j \in 1 .. conns : j \in DOMAIN sock /\ j # 0  BY <1>9 DEF Conns, CalmInv
<1>11. \A j \in DOMAIN sock' : Pair(sock'[j]) /\ Honest(sock'[j])  BY <1>5, <1>6 DEF CalmInv
<1>12. \A f \in Fds : fds'[f] # 0 => fds'[f] \in 1 .. conns' /\ sock'[fds'[f]]["S"].open
  BY <1>1, <1>6, <1>7, <1>10 DEF CalmInv
<1>13. \A i \in DOMAIN backlog : backlog[i] # k  BY <1>3, <1>4 DEF CalmInv
<1>14. \A i \in DOMAIN backlog : /\ backlog[i] \in 1 .. conns' /\ sock'[backlog[i]]["S"].open
                                 /\ \A f \in Fds : fds'[f] # backlog[i]
  BY <1>1, <1>6, <1>8, <1>10, <1>13 DEF CalmInv
<1>15. \A s \in Threads : thread'[s].pc = "leave" => ~sock'[Conn(s)']["C"].open
  <2> SUFFICES ASSUME NEW s \in Threads, thread'[s].pc = "leave" PROVE ~sock'[Conn(s)']["C"].open
    OBVIOUS
  <2>1. thread[s].pc = "leave" /\ s # t /\ s \in Serving  BY <1>1, <1>2 DEF Serving
  <2>2. thread[s].fd # fd /\ thread[s].fd \in Fds
    BY <1>3, <2>1 DEF IInv, ServerInv, ThreadsInv, OwnDescriptor, Calm, fd
  <2>3. Conn(s)' = Conn(s)  BY <1>1, <1>2, <2>2 DEF Conn, ConnOf
  <2>4. ~sock[Conn(s)]["C"].open /\ Conn(s) \in DOMAIN sock  BY <2>1, ConnIsOne DEF CalmInv
  <2> QED  BY <1>5, <1>6, <2>3, <2>4
<1>16. \A f, g \in Fds : f # g /\ fds'[f] # 0 => fds'[f] # fds'[g]
  BY <1>7, <1>8 DEF CalmInv
<1> QED  BY <1>1, <1>6, <1>11, <1>12, <1>14, <1>15, <1>16 DEF CalmInv

-----------------------------------------------------------------------------
(* Calls of the owner                                                      *)

\* What a loop over the first entries of the table makes of the connections.
Loop(f, n, full) == f = [i \in 0 .. n |-> IF i = 0 THEN sock ELSE AfterEntry(f[i - 1], i - 1, full)]

\* There is such a function, for any number of entries.
LEMMA LoopExists ==
  ASSUME NEW full, NEW n \in Nat
  PROVE  \E f : Loop(f, n, full)
<1> DEFINE Bad == {m \in Nat : ~\E f : Loop(f, m, full)}
<1>1. CASE Bad # {}
  <2>1. PICK m \in Bad : \A j \in Bad : m <= j  BY <1>1, LeastNat
  <2>2. CASE m = 0
    <3> DEFINE f == [i \in 0 .. 0 |-> sock]
    <3>1. f = [i \in 0 .. 0 |-> IF i = 0 THEN sock ELSE AfterEntry(f[i - 1], i - 1, full)]  OBVIOUS
    <3>2. Loop(f, 0, full)  BY <3>1 DEF Loop
    <3> QED  BY <2>2, <3>2
  <2>3. CASE m # 0
    <3>1. m - 1 \in Nat /\ m - 1 \notin Bad  BY <2>1, <2>3
    <3>2. PICK f : Loop(f, m - 1, full)  BY <3>1
    <3> DEFINE x == AfterEntry(f[m - 1], m - 1, full)
               g == [i \in 0 .. m |-> IF i = m THEN x ELSE f[i]]
    <3>3. \A i \in 0 .. m - 1 : f[i] = IF i = 0 THEN sock ELSE AfterEntry(f[i - 1], i - 1, full)
      BY <3>2 DEF Loop
    <3>4. \A i \in 0 .. m : g[i] = IF i = 0 THEN sock ELSE AfterEntry(g[i - 1], i - 1, full)
      <4> SUFFICES ASSUME NEW i \in 0 .. m
                   PROVE  g[i] = IF i = 0 THEN sock ELSE AfterEntry(g[i - 1], i - 1, full)
        OBVIOUS
      <4>1. i # 0 => g[i - 1] = f[i - 1]  OBVIOUS
      <4>2. CASE i = m  BY <2>3, <4>1, <4>2
      <4>3. CASE i # m  BY <3>3, <4>1, <4>3
      <4> QED  BY <4>2, <4>3
    <3>5. g = [i \in 0 .. m |-> IF i = 0 THEN sock ELSE AfterEntry(g[i - 1], i - 1, full)]
      <4>1. g = [i \in 0 .. m |-> g[i]]  OBVIOUS
      <4> HIDE DEF g
      <4> QED  BY <3>4, <4>1
    <3>6. Loop(g, m, full)  BY <3>5 DEF Loop
    <3> QED  BY <2>1, <3>6
  <2> QED  BY <2>2, <2>3
<1>2. CASE Bad = {}  BY <1>2
<1> QED  BY <1>1, <1>2

\* Every turn of the loop of write() sends.
LEMMA LoopSoftly ==
  ASSUME CalmInv, NEW full, NEW n \in Nat, NEW f, Loop(f, n, full),
         \A i \in Nat : ConnOf(client_fd[i]) \in DOMAIN sock
  PROVE  DOMAIN f[n] = DOMAIN sock /\ \A k \in DOMAIN sock : Softly(sock[k], f[n][k])
<1> DEFINE Fine(ss) == DOMAIN ss = DOMAIN sock /\ \A k \in DOMAIN sock : Softly(sock[k], ss[k])
           Bad == {m \in Nat : m <= n /\ ~Fine(f[m])}
<1>1. Fine(sock)  BY SoftlyAgain DEF CalmInv
<1>2. ASSUME NEW ss, Fine(ss), NEW i \in Nat PROVE Fine(AfterEntry(ss, i, full))
  <2> DEFINE k == ConnOf(client_fd[i])
             d == Written(ss[k], writes + 1, k = full)
  <2>1. k \in DOMAIN sock /\ Pair(ss[k])  BY <1>2 DEF Softly
  <2>2. Softly(ss[k], d)
    <3>1. \A x : Softly(ss[k], Sent(ss[k], "S", x))  BY <2>1, SentSoftly DEF Ends
    <3> QED  BY <3>1 DEF Written
  <2>3. Softly(sock[k], d)  BY <1>2, <2>1, <2>2, SoftlyAgain
  <2>4. AfterEntry(ss, i, full) = [ss EXCEPT ![k] = d] \/ AfterEntry(ss, i, full) = ss
    BY DEF AfterEntry
  <2> HIDE DEF d, k
  <2> QED  BY <1>2, <2>1, <2>3, <2>4
<1>3. \A i \in 0 .. n : f[i] = IF i = 0 THEN sock ELSE AfterEntry(f[i - 1], i - 1, full)  BY DEF Loop
<1> HIDE DEF Fine
<1>4. CASE Bad # {}
  <2>1. PICK m \in Bad : \A j \in Bad : m <= j  BY <1>4, LeastNat
  <2>2. m # 0  BY <1>1, <1>3, <2>1
  <2>3. m - 1 \in Nat /\ m - 1 \in 0 .. n /\ m - 1 \notin Bad  BY <2>1, <2>2
  <2>4. Fine(f[m - 1])  BY <2>3
  <2>5. f[m] = AfterEntry(f[m - 1], m - 1, full)  BY <1>3, <2>1, <2>2
  <2> QED  BY <1>2, <2>1, <2>3, <2>4, <2>5
<1>5. CASE Bad = {}  BY <1>5 DEF Fine
<1> QED  BY <1>4, <1>5

\* write().
LEMMA WriteStep ==
  ASSUME IInv, CalmInv, ServerWrite
  PROVE  CalmInv'
<1>1. UNCHANGED <<fds, backlog, conns, thread>>  BY DEF ServerWrite, server
<1>2. client_cnt \in Nat  BY ServerAssumption DEF IInv, ServerInv, TablesInv
<1>3. PICK full \in Conns \cup {0} :
        sock' = LET after[i \in 0 .. client_cnt] ==
                      IF i = 0 THEN sock ELSE AfterEntry(after[i - 1], i - 1, full)
                IN  after[client_cnt]
  BY DEF ServerWrite
<1>4. PICK f : Loop(f, client_cnt, full) /\ sock' = f[client_cnt]
  <2>1. \E f : Loop(f, client_cnt, full)  BY <1>2, LoopExists
  <2> DEFINE f == CHOOSE f : Loop(f, client_cnt, full)
  <2>2. Loop(f, client_cnt, full)  BY <2>1
  <2>3. sock' = f[client_cnt]  BY <1>3 DEF Loop
  <2> HIDE DEF f
  <2> QED  BY <2>2, <2>3
<1>5. \A i \in Nat : ConnOf(client_fd[i]) \in DOMAIN sock
  BY DEF ConnOf, CalmInv, IInv, ServerInv, TablesInv
<1>6. DOMAIN sock' = DOMAIN sock /\ \A k \in DOMAIN sock : Softly(sock[k], sock'[k])
  BY <1>2, <1>4, <1>5, LoopSoftly
<1> QED  BY <1>1, <1>6, SoftStep DEF CalmInv

\* A connection that is reset before anyone has accepted it.
LEMMA RefusedEnds ==
  ASSUME CalmInv, NEW k \in DOMAIN sock
  PROVE  /\ Pair(Refused(k)) /\ Honest(Refused(k))
         /\ Refused(k)["C"].open = sock[k]["C"].open
<1> DEFINE d == Refused(k)
<1>1. Pair(sock[k]) /\ Ends = {"S", "C"} /\ "S" # "C"  BY DEF CalmInv, Ends
<1>2. DOMAIN Unused = EndFields /\ Unused.open = FALSE  BY DEF Unused, EndFields
<1>3. DOMAIN Reset(sock[k]["C"]) = EndFields /\ Reset(sock[k]["C"]).open = sock[k]["C"].open
  BY <1>1 DEF Pair, Reset, EndFields
<1>4. DOMAIN d = Ends /\ d["S"] = Unused /\ d["C"] = Reset(sock[k]["C"])
  BY <1>1 DEF Refused, Pair
<1> HIDE DEF d
<1>5. Pair(d)  BY <1>1, <1>2, <1>3, <1>4 DEF Pair
<1>6. Honest(d)  BY <1>2, <1>4 DEF Honest
<1> QED  BY <1>3, <1>4, <1>5, <1>6 DEF d

\* Connections that wait are reset, or stay; those of the descriptors stay.
LEMMA RefusingStep ==
  ASSUME IInv, CalmInv, UNCHANGED <<fds, conns, thread>>, NEW R \in SUBSET Waiting,
         sock' = [k \in DOMAIN sock |-> IF k \in R THEN Refused(k) ELSE sock[k]],
         backlog' = <<>> \/ (backlog' = backlog /\ R = {})
  PROVE  CalmInv'
<1>1. \A k \in DOMAIN sock : /\ Pair(sock'[k]) /\ Honest(sock'[k])
                             /\ sock'[k]["C"].open = sock[k]["C"].open
                             /\ k \notin R => sock'[k] = sock[k]
  BY RefusedEnds DEF CalmInv
<1>2. DOMAIN sock' = DOMAIN sock  OBVIOUS
<1>3. \A f \in Fds : fds[f] \notin R  BY DEF CalmInv, Waiting
<1>4. conns \in 0 .. MaxConns /\ MaxConns \in Nat  BY SocketsAssumption DEF IInv, NetworkInv
<1>5. \A j \in 1 .. conns : j \in DOMAIN sock  BY <1>4 DEF Conns, CalmInv
<1>6. \A t \in Threads : Conn(t)' = Conn(t) /\ Conn(t) \in DOMAIN sock
  BY ConnIsOne DEF Conn, ConnOf
<1>7. \A t \in Threads : thread'[t].pc = "leave" => ~sock'[Conn(t)']["C"].open
  BY <1>1, <1>6 DEF CalmInv
<1>8. \A f \in Fds : fds[f] # 0 => fds[f] \in 1 .. conns /\ sock'[fds[f]]["S"].open
  BY <1>1, <1>3, <1>5 DEF CalmInv
<1>9. \A i \in DOMAIN backlog' : /\ backlog' = backlog /\ R = {} /\ i \in DOMAIN backlog
  OBVIOUS
<1>10. \A i \in DOMAIN backlog' : /\ backlog'[i] \in 1 .. conns' /\ sock'[backlog'[i]]["S"].open
                                  /\ \A f \in Fds : fds'[f] # backlog'[i]
  BY <1>1, <1>5, <1>9 DEF CalmInv
<1>11. \A i, j \in DOMAIN backlog' : i # j => backlog'[i] # backlog'[j]  BY <1>9 DEF CalmInv
<1> QED  BY <1>1, <1>2, <1>7, <1>8, <1>10, <1>11 DEF CalmInv

\* close() of a server without clients.
LEMMA CloseCalm ==
  ASSUME IInv, CalmInv, Calm, Calm', CloseAll
  PROVE  CalmInv'
<1>1. client_cnt \in Nat /\ forgotten \in Nat  BY ServerAssumption DEF IInv, ServerInv, TablesInv
<1>2. client_cnt = 0  BY <1>1 DEF CloseAll, Calm
<1>3. {client_fd[i] : i \in 0 .. client_cnt - 1} = {}  BY <1>2
<1>4. fds' = fds
  <2>1. fds' = [f \in Fds |-> fds[f]]  BY <1>3 DEF CloseAll
  <2> QED  BY <2>1 DEF IInv, ServerInv, TablesInv
<1> DEFINE R == IF lingering' = 0 THEN Waiting ELSE {}
<1>5. sock' = [k \in DOMAIN sock |-> IF k \in R THEN Refused(k) ELSE sock[k]]
  BY <1>3 DEF CloseAll
<1>6. backlog' = <<>> \/ (backlog' = backlog /\ R = {})  BY DEF CloseAll
<1>7. UNCHANGED <<conns, thread>>  BY DEF CloseAll
<1> QED  BY <1>4, <1>5, <1>6, <1>7, RefusingStep

\* accept() at a closed socket gives up.
LEMMA LingerCalm ==
  ASSUME IInv, CalmInv, LingerEnds
  PROVE  CalmInv'
<1> DEFINE R == IF LastWaits THEN Waiting ELSE {}
<1>1. sock' = [k \in DOMAIN sock |-> IF k \in R THEN Refused(k) ELSE sock[k]]  BY DEF LingerEnds
<1>2. backlog' = <<>> \/ (backlog' = backlog /\ R = {})  BY DEF LingerEnds
<1>3. UNCHANGED <<fds, conns, thread>>  BY DEF LingerEnds, server
<1> QED  BY <1>1, <1>2, <1>3, RefusingStep

\* accept(): the first connection that waits gets a descriptor.
LEMMA AcceptCalm ==
  ASSUME IInv, CalmInv, Calm, Calm', NEW t \in Threads, RunAccept(t)
  PROVE  CalmInv'
<1>1. PICK f \in Fds :
        /\ fds[f] = 0
        /\ fds' = [fds EXCEPT ![f] = Head(backlog)]
        /\ SpawnNext([thread EXCEPT ![t] = [pc |-> "request", fd |-> f, idx |-> -1]])
  <2>1. ~Fault  BY DEF Fault, Calm
  <2>2. PICK f \in Fds :
          /\ fds[f] = 0
          /\ fds' = [fds EXCEPT ![f] = Head(backlog)]
          /\ LET threads == [thread EXCEPT ![t] = [pc |-> "request", fd |-> f, idx |-> -1]]
             IN  SpawnNext(threads) \/ Fault
    BY DEF RunAccept
  <2> QED  BY <2>1, <2>2
<1>2. backlog \in Seq(Conns) /\ backlog # <<>> /\ conns' = conns
  BY DEF IInv, NetworkInv, RunAccept
<1> DEFINE gone == ~listening /\ lingering = 1
           R == IF gone THEN Waiting \ {Head(backlog)} ELSE {}
           threads == [thread EXCEPT ![t] = [pc |-> "request", fd |-> f, idx |-> -1]]
<1>3. /\ sock' = [k \in DOMAIN sock |-> IF k \in R THEN Refused(k) ELSE sock[k]]
      /\ backlog' = <<>> \/ (backlog' = Tail(backlog) /\ R = {})
      /\ Head(backlog) \notin R /\ R \subseteq Waiting
  BY DEF RunAccept, LastWaits
<1> HIDE DEF R
<1>4. /\ 1 \in DOMAIN backlog /\ Head(backlog) = backlog[1]
      /\ DOMAIN Tail(backlog) = 1 .. Len(backlog) - 1 /\ DOMAIN backlog = 1 .. Len(backlog)
      /\ \A i \in 1 .. Len(backlog) - 1 : Tail(backlog)[i] = backlog[i + 1]
  BY <1>2, HeadTailProperties
<1>5. conns \in 0 .. MaxConns /\ MaxConns \in Nat  BY SocketsAssumption DEF IInv, NetworkInv
<1>6. \A j \in 1 .. conns : j \in DOMAIN sock /\ j # 0  BY <1>5 DEF Conns, CalmInv
<1>7. Head(backlog) \in 1 .. conns /\ sock[Head(backlog)]["S"].open
      /\ \A g \in Fds : fds[g] # Head(backlog)
  BY <1>4 DEF CalmInv
<1>8. fds'[f] = Head(backlog) /\ \A g \in Fds \ {f} : fds'[g] = fds[g]
  BY <1>1 DEF IInv, ServerInv, TablesInv
<1>9. /\ DOMAIN sock' = DOMAIN sock
      /\ \A k \in DOMAIN sock : /\ Pair(sock'[k]) /\ Honest(sock'[k])
                                /\ sock'[k]["C"].open = sock[k]["C"].open
                                /\ k \notin R => sock'[k] = sock[k]
  BY <1>3, RefusedEnds DEF CalmInv
<1>10. \A g \in Fds : fds[g] \notin R  BY <1>3 DEF CalmInv, Waiting
<1>11. \A g \in Fds : fds'[g] # 0 => fds'[g] \in 1 .. conns' /\ sock'[fds'[g]]["S"].open
  <2> SUFFICES ASSUME NEW g \in Fds, fds'[g] # 0
               PROVE  fds'[g] \in 1 .. conns' /\ sock'[fds'[g]]["S"].open
    OBVIOUS
  <2>1. CASE g = f  BY <1>2, <1>3, <1>6, <1>7, <1>8, <1>9, <2>1
  <2>2. CASE g # f  BY <1>2, <1>6, <1>8, <1>9, <1>10, <2>2 DEF CalmInv
  <2> QED  BY <2>1, <2>2
<1>12. \A g, h \in Fds : g # h /\ fds'[g] # 0 => fds'[g] # fds'[h]
  BY <1>1, <1>7, <1>8 DEF CalmInv
<1>13. \A i \in DOMAIN backlog' :
         /\ backlog' = Tail(backlog) /\ R = {} /\ i + 1 \in DOMAIN backlog /\ i + 1 # 1
         /\ backlog'[i] = backlog[i + 1]
  BY <1>3, <1>4
<1>14. \A i \in DOMAIN backlog' : /\ backlog'[i] \in 1 .. conns' /\ sock'[backlog'[i]]["S"].open
                                  /\ \A g \in Fds : fds'[g] # backlog'[i]
  <2> SUFFICES ASSUME NEW i \in DOMAIN backlog'
               PROVE  /\ backlog'[i] \in 1 .. conns' /\ sock'[backlog'[i]]["S"].open
                      /\ \A g \in Fds : fds'[g] # backlog'[i]
    OBVIOUS
  <2>1. backlog'[i] \in 1 .. conns /\ sock[backlog'[i]]["S"].open /\ backlog'[i] # Head(backlog)
        /\ \A g \in Fds : fds[g] # backlog'[i]
    BY <1>4, <1>13 DEF CalmInv
  <2> QED  BY <1>2, <1>6, <1>8, <1>9, <1>13, <2>1
<1>15. \A i, j \in DOMAIN backlog' : i # j => backlog'[i] # backlog'[j]
  <2> SUFFICES ASSUME NEW i \in DOMAIN backlog', NEW j \in DOMAIN backlog', i # j
               PROVE  backlog'[i] # backlog'[j]
    OBVIOUS
  <2>1. i \in Int /\ j \in Int  BY <1>3, <1>4
  <2>2. i + 1 # j + 1  BY <2>1
  <2> QED  BY <1>13, <2>2 DEF CalmInv
<1>16. \A s \in Threads : thread'[s].pc = "leave" =>
         thread[s].pc = "leave" /\ thread'[s] = thread[s]
  <2>1. [pc |-> "request", fd |-> f, idx |-> -1] \in ThreadRecord
    BY ServerAssumption DEF ThreadRecord, Places
  <2>2. threads \in [Threads -> ThreadRecord]  BY <2>1 DEF IInv, ServerInv, ThreadsInv
  <2>3. Spawn(threads)  BY <1>1 DEF SpawnNext
  <2> HIDE DEF threads
  <2>4. /\ thread'[tid_cnt] = [pc |-> "accept", fd |-> 0, idx |-> -1]
        /\ \A s \in Threads \ {tid_cnt} : thread'[s] = threads[s]
    BY <2>2, <2>3, Spawning DEF IInv, ServerInv
  <2>5. \A s \in Threads : threads[s] = IF s = t THEN [pc |-> "request", fd |-> f, idx |-> -1] ELSE thread[s]
    BY DEF threads, IInv, ServerInv, ThreadsInv
  <2> QED  BY <2>4, <2>5
<1>17. \A s \in Threads : thread'[s].pc = "leave" => ~sock'[Conn(s)']["C"].open
  <2> SUFFICES ASSUME NEW s \in Threads, thread'[s].pc = "leave" PROVE ~sock'[Conn(s)']["C"].open
    OBVIOUS
  <2>1. thread[s].pc = "leave" /\ thread'[s] = thread[s] /\ s \in Serving  BY <1>16 DEF Serving
  <2>2. thread[s].fd \in Fds /\ Conn(s) # 0 /\ Conn(s) = fds[thread[s].fd]
    BY <2>1 DEF IInv, ServerInv, ThreadsInv, OwnDescriptor, Calm, Conn, ConnOf
  <2>3. Conn(s)' = Conn(s)  BY <1>1, <1>8, <2>1, <2>2 DEF Conn, ConnOf
  <2>4. ~sock[Conn(s)]["C"].open /\ Conn(s) \in DOMAIN sock  BY <2>1, ConnIsOne DEF CalmInv
  <2> QED  BY <1>9, <2>3, <2>4
<1> QED  BY <1>9, <1>11, <1>12, <1>14, <1>15, <1>17 DEF CalmInv

-----------------------------------------------------------------------------
(* Calls of clients                                                        *)

\* A connection that is new.
LEMMA UpEnds ==
  LET up == [e \in Ends |-> Opened]
  IN  Pair(up) /\ Honest(up) /\ up["S"].open
<1>1. DOMAIN Unused = EndFields /\ Unused.st = "up" /\ Unused.eof = FALSE  BY DEF Unused, EndFields
<1>2. DOMAIN Opened = EndFields /\ Opened.open = TRUE /\ Opened.st = "up" /\ Opened.eof = FALSE
  BY <1>1 DEF Opened, EndFields
<1> QED  BY <1>2 DEF Pair, Honest, Ends

\* connect(): the connection is in the queue, and no thread's.
LEMMA ConnectCalm ==
  ASSUME IInv, CalmInv, NEW c \in Nodes, NEW path, ClientConnect(c, path), UNCHANGED <<server, serverHistory>>
  PROVE  CalmInv'
<1> DEFINE k == conns + 1
           up == [e \in Ends |-> Opened]
           d == IF path = <<>> THEN up ELSE Sent(up, "C", Request(path))
<1>1. /\ conns' = k /\ conns < MaxConns /\ backlog' = Append(backlog, k)
      /\ sock' = [sock EXCEPT ![k] = d]
  BY DEF ClientConnect
<1>2. Pair(d) /\ Honest(d) /\ d["S"].open
  <2>1. Pair(up) /\ Honest(up) /\ up["S"].open  BY UpEnds
  <2> HIDE DEF up
  <2>2. Softly(up, Sent(up, "C", Request(path)))  BY <2>1, SentSoftly DEF Ends
  <2> QED  BY <2>1, <2>2 DEF Softly
<1> HIDE DEF d
<1>3. conns \in 0 .. MaxConns /\ MaxConns \in Nat /\ backlog \in Seq(Conns)
  BY SocketsAssumption DEF IInv, NetworkInv
<1>4. k \in Conns /\ k \in DOMAIN sock  BY <1>1, <1>3 DEF Conns, CalmInv
<1>5. UNCHANGED <<thread, fds>>  BY DEF server
<1>6. DOMAIN sock' = DOMAIN sock /\ sock'[k] = d /\ \A j \in DOMAIN sock \ {k} : sock'[j] = sock[j]
  BY <1>1, <1>4
<1>7. \A j \in 1 .. conns : j \in DOMAIN sock \ {k} /\ j \in 1 .. conns'
  BY <1>1, <1>3 DEF Conns, CalmInv
<1>8. \A f \in Fds : fds[f] # k /\ fds[f] \in DOMAIN sock
  <2>1. \A f \in Fds : fds[f] = 0 \/ fds[f] \in 1 .. conns  BY DEF CalmInv
  <2> QED  BY <1>3, <1>7, <2>1 DEF CalmInv
<1>9. /\ DOMAIN backlog' = 1 .. Len(backlog) + 1 /\ DOMAIN backlog = 1 .. Len(backlog) /\ Len(backlog) \in Nat
      /\ backlog'[Len(backlog) + 1] = k
      /\ \A i \in DOMAIN backlog : backlog'[i] = backlog[i]
  BY <1>1, <1>3, <1>4
<1>10. \A i \in DOMAIN backlog' : IF i = Len(backlog) + 1 THEN backlog'[i] = k
                                  ELSE i \in DOMAIN backlog /\ backlog'[i] = backlog[i] /\ backlog[i] # k
  <2>1. \A i \in DOMAIN backlog : backlog[i] # k  BY <1>7 DEF CalmInv
  <2> QED  BY <1>9, <2>1
<1>11. \A j \in DOMAIN sock' : Pair(sock'[j]) /\ Honest(sock'[j])  BY <1>2, <1>6 DEF CalmInv
<1>12. \A f \in Fds : fds'[f] # 0 => fds'[f] \in 1 .. conns' /\ sock'[fds'[f]]["S"].open
  BY <1>5, <1>6, <1>7 DEF CalmInv
<1>13. \A i \in DOMAIN backlog' : /\ backlog'[i] \in 1 .. conns' /\ sock'[backlog'[i]]["S"].open
                                  /\ \A f \in Fds : fds'[f] # backlog'[i]
  <2> SUFFICES ASSUME NEW i \in DOMAIN backlog'
               PROVE  /\ backlog'[i] \in 1 .. conns' /\ sock'[backlog'[i]]["S"].open
                      /\ \A f \in Fds : fds'[f] # backlog'[i]
    OBVIOUS
  <2>1. CASE i = Len(backlog) + 1
    <3>1. backlog'[i] = k /\ k \in 1 .. conns'  BY <1>1, <1>3, <1>10, <2>1
    <3> QED  BY <1>2, <1>5, <1>6, <1>8, <3>1
  <2>2. CASE i # Len(backlog) + 1
    <3>1. i \in DOMAIN backlog /\ backlog'[i] = backlog[i]  BY <1>10, <2>2
    <3> QED  BY <1>5, <1>6, <1>7, <3>1 DEF CalmInv
  <2> QED  BY <2>1, <2>2
<1>14. \A i, j \in DOMAIN backlog' : i # j => backlog'[i] # backlog'[j]  BY <1>10 DEF CalmInv
<1>15. \A t \in Threads : thread'[t].pc = "leave" => ~sock'[Conn(t)']["C"].open
  <2>1. \A t \in Threads : Conn(t)' = Conn(t)  BY <1>5 DEF Conn, ConnOf
  <2>2. \A t \in Threads : Conn(t) \in DOMAIN sock \ {k}
    <3>1. 0 # k  BY <1>3
    <3> QED  BY <1>8, <3>1, ConnIsOne DEF Conn, ConnOf
  <2> QED  BY <1>5, <1>6, <2>1, <2>2 DEF CalmInv
<1> QED  BY <1>5, <1>6, <1>11, <1>12, <1>13, <1>14, <1>15 DEF CalmInv

\* close() at the end of the client.
LEMMA ClosedSoftly ==
  ASSUME NEW c, Pair(c)
  PROVE  Softly(c, Closed(c, "C"))
<1>1. LET d == Closed(c, "C")
      IN  /\ Honest(c) => Honest(d)
          /\ ~d["C"].open /\ d["S"].open = c["S"].open
          /\ Pair(d)
  BY ClosedEnds DEF Ends, Peer
<1> QED  BY <1>1 DEF Softly

\* The other calls.
LEMMA ClientCalm ==
  ASSUME IInv, CalmInv, Calm, Calm', NEW c \in Nodes, UNCHANGED <<server, serverHistory>>,
         ClientConnectFails(c) \/ ClientAnswer(c) \/ ClientRead(c) \/ ClientWrite(c) \/ ClientClose(c)
  PROVE  CalmInv'
<1> DEFINE k == client[c].conn
           s == sock[k]
<1>1. ~Fault  BY DEF Fault, Calm
<1>2. k \in DOMAIN sock
  <2>1. k \in 0 .. conns  BY DEF IInv, NetworkInv, ClientRecord
  <2>2. conns \in 0 .. MaxConns /\ MaxConns \in Nat  BY SocketsAssumption DEF IInv, NetworkInv
  <2> QED  BY <2>1, <2>2 DEF Conns, CalmInv
<1>3. Pair(s) /\ "C" \in Ends  BY <1>2 DEF CalmInv, Ends
<1>4. UNCHANGED <<thread, fds, backlog, conns>>
  BY DEF server, ClientConnectFails, ClientAnswer, ClientRead, ClientWrite, ClientClose, sockets
<1>5. \A d : Softly(s, d) => Softly(s, Closed(d, "C"))  BY ClosedSoftly, SoftlyAgain DEF Softly
<1>6. Softly(s, s) /\ \A x : Softly(s, Sent(s, "C", x))  BY <1>3, SentSoftly, SoftlyAgain
<1>7. /\ Softly(s, [s EXCEPT !["C"].in = Tail(@)])
      /\ \A at : Softly(s, [s EXCEPT !["C"] = ReadFrom(@, at)])
  BY <1>3, ReceivedSoftly
<1>8. sock' = sock \/ \E d : Softly(s, d) /\ sock' = [sock EXCEPT ![k] = d]
  <2>2. CASE sock' = CloseSocket(sock, k)
    <3>1. sock' = [sock EXCEPT ![k] = Closed(s, "C")]  BY <2>2 DEF CloseSocket
    <3> QED  BY <1>5, <1>6, <3>1
  <2>3. CASE ClientAnswer(c)
    <3>1. CASE sock' = [sock EXCEPT ![k]["C"].in = Tail(@)]
      <4>1. sock' = [sock EXCEPT ![k] = [s EXCEPT !["C"].in = Tail(@)]]  BY <1>2, <1>3, <3>1
      <4> QED  BY <1>7, <4>1
    <3> DEFINE skipped == [sock EXCEPT ![k]["C"].in = Tail(@)]
    <3>2. CASE sock' = CloseSocket(skipped, k)
      <4> DEFINE d == [s EXCEPT !["C"].in = Tail(@)]
      <4>1. skipped = [sock EXCEPT ![k] = d]  BY <1>2, <1>3
      <4>2. Softly(s, d)  BY <1>7
      <4> HIDE DEF d, skipped
      <4>3. CloseSocket(skipped, k) = [sock EXCEPT ![k] = Closed(d, "C")]
        BY <1>2, <4>1 DEF CloseSocket
      <4> QED  BY <1>5, <3>2, <4>2, <4>3
    <3>3. \/ sock' = skipped \/ sock' = CloseSocket(sock, k) \/ sock' = CloseSocket(skipped, k)
      BY <2>3 DEF ClientAnswer
    <3> QED  BY <2>2, <3>1, <3>2, <3>3
  <2>4. CASE ClientRead(c)
    <3> DEFINE at == IF InCall(c, "idle") THEN "poll" ELSE "peek"
               d == [s EXCEPT !["C"] = ReadFrom(@, at)]
               read == [sock EXCEPT ![k]["C"] = ReadFrom(@, at)]
    <3>1. sock' = read \/ sock' = CloseSocket(read, k)  BY <2>4 DEF ClientRead
    <3>2. read = [sock EXCEPT ![k] = d]  OBVIOUS
    <3>3. Softly(s, d)  BY <1>7
    <3> HIDE DEF d, read
    <3>4. CloseSocket(read, k) = [sock EXCEPT ![k] = Closed(d, "C")]
      BY <1>2, <3>2 DEF CloseSocket
    <3> QED  BY <1>5, <3>1, <3>2, <3>3, <3>4
  <2>5. CASE ClientWrite(c)
    <3>1. \/ \E x : sock' = [sock EXCEPT ![k] = Sent(s, "C", x)]
          \/ sock' = CloseSocket(sock, k)
      BY <1>1, <2>5 DEF ClientWrite
    <3> QED  BY <1>6, <2>2, <3>1
  <2>6. CASE ClientClose(c)  BY <2>2, <2>6 DEF ClientClose
  <2>7. CASE ClientConnectFails(c)  BY <2>7 DEF ClientConnectFails, sockets
  <2> QED  BY <2>3, <2>4, <2>5, <2>6, <2>7
<1>9. DOMAIN sock' = DOMAIN sock /\ \A j \in DOMAIN sock : Softly(sock[j], sock'[j])
  <2>1. CASE sock' = sock  BY <2>1, SoftlyAgain DEF CalmInv
  <2>2. CASE \E d : Softly(s, d) /\ sock' = [sock EXCEPT ![k] = d]
    BY <1>2, <2>2, OneConnection
  <2> QED  BY <1>8, <2>1, <2>2
<1> QED  BY <1>4, <1>9, SoftStep DEF CalmInv

-----------------------------------------------------------------------------
(* Invariance                                                              *)

LinkInv == IInv /\ faults \in Nat /\ (Calm => CalmInv)

\* What broke stays broken, and what was dropped, dropped.
LEMMA CalmBefore ==
  ASSUME IInv, faults \in Nat, [Next]_vars
  PROVE  faults' \in Nat /\ (faults' = 0 => faults = 0) /\ (Calm' => Calm)
<1>1. forgotten \in Nat /\ client_cnt \in Nat  BY ServerAssumption DEF IInv, ServerInv, TablesInv
<1>2. faults' = faults \/ faults' = faults + 1
  <2>1. CASE ServerNext
    BY <2>1 DEF ServerNext, ServerConnect, ServerConnectFails, ServerClose, ServerWrite, ServerRead,
                LingerEnds, RunAccept, RunStep, RunRequest, NoLine, RunReply, RunRegister, RunRead, RunLeave,
                RunClose, Fault, sockets
  <2>2. CASE ClientNext
    BY <2>2 DEF ClientNext, ClientConnect, ClientConnectFails, ClientStep, ClientAnswer, NoLine,
                ClientRead, ClientWrite, ClientClose, Fault, sockets
  <2>3. CASE \E k \in Conns : Break(k)  BY <2>3 DEF Break, Fault
  <2>4. CASE UNCHANGED vars  BY <2>4 DEF vars, sockets
  <2> QED  BY <2>1, <2>2, <2>3, <2>4 DEF Next
<1>3. forgotten' = forgotten \/ forgotten' = forgotten + client_cnt
  <2>1. CASE ServerNext
    BY <2>1 DEF ServerNext, ServerConnect, ServerConnectFails, ServerClose, CloseAll, ServerWrite,
                ServerRead, LingerEnds, RunAccept, RunStep, RunRequest, RunReply, RunRegister, RunRead,
                RunLeave, RunClose, RestUnchanged, serverHistory
  <2>2. CASE UNCHANGED serverHistory  BY <2>2 DEF serverHistory
  <2>3. CASE UNCHANGED vars  BY <2>3 DEF vars, serverHistory
  <2> QED  BY <2>1, <2>2, <2>3 DEF Next
<1> QED  BY <1>1, <1>2, <1>3 DEF Calm

\* Steps of the server.
LEMMA ServerCalm ==
  ASSUME IInv, CalmInv, Calm, Calm', ServerNext
  PROVE  CalmInv'
<1>1. CASE ServerConnect
  <2>1. /\ tid_cnt \in Threads /\ thread[tid_cnt].pc = "none"
        /\ thread'[tid_cnt] = [pc |-> "accept", fd |-> 0, idx |-> -1]
        /\ \A s \in Threads \ {tid_cnt} : thread'[s] = thread[s]
    BY <1>1, Spawning DEF ServerConnect, IInv, ServerInv, ThreadsInv
  <2>2. UNCHANGED <<fds, backlog, conns, sock>>  BY <1>1 DEF ServerConnect
  <2>3. \A s \in Threads : thread'[s].pc = "leave" => thread'[s].fd = thread[s].fd /\ thread[s].pc = "leave"
    BY <2>1
  <2>4. \A k \in DOMAIN sock : Softly(sock[k], sock[k])  BY SoftlyAgain DEF CalmInv
  <2> QED  BY <2>2, <2>3, <2>4, SoftStep
<1>2. CASE ServerConnectFails \/ ServerClose  BY <1>2, CloseCalm DEF ServerConnectFails, ServerClose
<1>3. CASE ServerWrite  BY <1>3, WriteStep
<1>4. CASE ServerRead
  <2>1. UNCHANGED <<fds, backlog, conns, sock, thread>>  BY <1>4 DEF ServerRead, sockets
  <2>2. \A k \in DOMAIN sock : Softly(sock[k], sock[k])  BY SoftlyAgain DEF CalmInv
  <2> QED  BY <2>1, <2>2, SoftStep
<1>5. ASSUME NEW t \in Threads, RunAccept(t) PROVE CalmInv'  BY <1>5, AcceptCalm
<1>6. ASSUME NEW t \in Threads, RunStep(t) PROVE CalmInv'
  BY <1>6, HandshakeStep, ReadStep, TableStep, EndStep DEF RunStep
<1>7. CASE LingerEnds  BY <1>7, LingerCalm
<1> QED  BY <1>1, <1>2, <1>3, <1>4, <1>5, <1>6, <1>7 DEF ServerNext

\* Every step keeps the invariant.
LEMMA LinkInvariance == Spec => []LinkInv
<1>1. Init => LinkInv
  <2> SUFFICES ASSUME Init PROVE LinkInv  OBVIOUS
  <2>1. IInv  BY InitInv
  <2>2. /\ faults = 0 /\ backlog = <<>>
        /\ sock = [k \in Conns \cup {0} |-> [e \in Ends |-> Unused]]
        /\ \A f \in Fds : fds[f] = 0
        /\ \A t \in Threads : thread[t].pc = "none"
    BY DEF Init, SocketsInit, ServerInit, NoThread
  <2>3. Pair([e \in Ends |-> Unused]) /\ Honest([e \in Ends |-> Unused])
    <3>1. DOMAIN Unused = EndFields /\ Unused.open = FALSE  BY DEF Unused, EndFields
    <3> QED  BY <3>1 DEF Pair, Honest, Ends
  <2>4. CalmInv  BY <2>2, <2>3 DEF CalmInv
  <2> QED  BY <2>1, <2>2, <2>4 DEF LinkInv
<1>2. LinkInv /\ [Next]_vars => LinkInv'
  <2> SUFFICES ASSUME LinkInv, [Next]_vars PROVE LinkInv'  OBVIOUS
  <2>1. IInv /\ IInv'  BY NextInv DEF LinkInv
  <2>2. faults' \in Nat /\ (Calm' => Calm)  BY CalmBefore DEF LinkInv
  <2>3. ASSUME Calm' PROVE CalmInv'
    <3>1. Calm /\ CalmInv  BY <2>2, <2>3 DEF LinkInv
    <3>2. CASE ServerNext  BY <2>1, <2>3, <3>1, <3>2, ServerCalm
    <3>3. CASE ClientNext /\ UNCHANGED <<server, serverHistory>>
      BY <2>1, <2>3, <3>1, <3>3, ConnectCalm, ClientCalm DEF ClientNext, ClientStep
    <3>4. CASE \E k \in Conns : Break(k)
      <4>1. faults' = faults + 1  BY <3>4 DEF Break, Fault
      <4> QED  BY <2>3, <3>1, <4>1 DEF Calm
    <3>5. CASE UNCHANGED vars
      <4>1. UNCHANGED <<fds, backlog, conns, sock, thread>>  BY <3>5 DEF vars, sockets, server
      <4>2. \A k \in DOMAIN sock : Softly(sock[k], sock[k])  BY <3>1, SoftlyAgain DEF CalmInv
      <4> QED  BY <2>1, <3>1, <4>1, <4>2, SoftStep
    <3> QED  BY <3>2, <3>3, <3>4, <3>5 DEF Next
  <2> QED  BY <2>1, <2>2, <2>3 DEF LinkInv
<1> QED  BY <1>1, <1>2, PTL DEF Spec

\* Unless something broke or close() dropped clients, a thread leaves its loop only when
\* the client has closed its end: a socket that has no data is not taken for one
\* that was lost (tcp_client.cpp:214-245, _tcp_server.cpp:219-238).
THEOREM LostLeave == Spec => []OnlyLostLeave
<1>1. LinkInv => OnlyLostLeave
  BY DEF LinkInv, CalmInv, Calm, OnlyLostLeave, At
<1> QED  BY <1>1, LinkInvariance, PTL

-----------------------------------------------------------------------------
(* What the connections carry                                              *)

Words == ({"get"} \X Seq(Chars)) \cup {<<"answer">>} \cup ({"packet", "torn", "up", "cut"} \X Nat)

\* Requests that the server answers, and what the handshake depends on.
Requests == {<<"get", path>> : path \in {p \in Seq(Chars) : Begins(ServerPath, p)}}
Special  == Requests \cup {<<"answer">>}

EndRecord  == [open : BOOLEAN, in : Seq(Words), eof : BOOLEAN, st : {"up", "err", "dead"}]
ConnRecord == [Ends -> EndRecord]

\* A word waits to be read.
Carries(in, word) == \E i \in DOMAIN in : in[i] = word
Asks(in) == \E word \in Requests : Carries(in, word)

\* What the words are.
LEMMA WordsAre ==
  /\ Special \subseteq Words
  /\ \A x \in Words : Accepts(x) => x \in Requests
  /\ \A n \in Nat, w \in {"packet", "torn", "up", "cut"} : <<w, n>> \in Words \ Special
  /\ \A path \in Seq(Chars) : /\ <<"get", path>> \in Words
                             /\ <<"get", path>> \in Special => Begins(ServerPath, path)
  /\ <<"answer">> \notin Requests
<1>1. Special \subseteq Words /\ <<"answer">> \notin Requests  BY DEF Special, Requests, Words
<1>2. ASSUME NEW x \in Words, Accepts(x) PROVE x \in Requests
  <2>1. x[1] = "get" /\ Begins(ServerPath, x[2])  BY <1>2 DEF Accepts
  <2>2. x \in {"get"} \X Seq(Chars)  BY <1>2, <2>1 DEF Words
  <2>3. x = <<"get", x[2]>> /\ x[2] \in Seq(Chars)  BY <2>2
  <2> QED  BY <2>1, <2>3 DEF Requests
<1>3. ASSUME NEW n \in Nat, NEW w \in {"packet", "torn", "up", "cut"} PROVE <<w, n>> \in Words \ Special
  <2>1. <<w, n>> \in Words  BY <1>3 DEF Words
  <2>2. \A path : <<w, n>> # <<"get", path>>  BY <1>3
  <2>3. <<w, n>> # <<"answer">>  OBVIOUS
  <2> QED  BY <2>1, <2>2, <2>3 DEF Special, Requests
<1>4. ASSUME NEW path \in Seq(Chars)
      PROVE  /\ <<"get", path>> \in Words
             /\ <<"get", path>> \in Special => Begins(ServerPath, path)
  <2>1. <<"get", path>> \in Words  BY <1>4 DEF Words
  <2>2. <<"get", path>> # <<"answer">>  OBVIOUS
  <2>3. \A p : <<"get", path>> = <<"get", p>> => path = p  OBVIOUS
  <2> QED  BY <2>1, <2>2, <2>3 DEF Special, Requests
<1> QED  BY <1>1, <1>2, <1>3, <1>4

\* What is in a sequence that is shortened or extended by a word.
LEMMA CarriesAfter ==
  ASSUME NEW in \in Seq(Words), NEW x \in Words, NEW word
  PROVE  /\ Append(in, x) \in Seq(Words) /\ in \o <<x>> = Append(in, x)
         /\ Carries(Append(in, x), word) => Carries(in, word) \/ word = x
         /\ Carries(Append(in, x), x)
         /\ in # <<>> => /\ Head(in) \in Words /\ Tail(in) \in Seq(Words) /\ Carries(in, Head(in))
                         /\ Carries(Tail(in), word) => Carries(in, word)
<1>1. Append(in, x) \in Seq(Words) /\ in \o <<x>> = Append(in, x)  OBVIOUS
<1>2. /\ Len(Append(in, x)) = Len(in) + 1 /\ DOMAIN Append(in, x) = 1 .. Len(in) + 1
      /\ DOMAIN in = 1 .. Len(in) /\ Len(in) \in Nat
      /\ \A i \in 1 .. Len(in) : Append(in, x)[i] = in[i]
      /\ Append(in, x)[Len(in) + 1] = x
  OBVIOUS
<1>3. \A i \in 1 .. Len(in) + 1 : i \in 1 .. Len(in) \/ i = Len(in) + 1  BY <1>2
<1>4. Carries(Append(in, x), word) => Carries(in, word) \/ word = x  BY <1>2, <1>3 DEF Carries
<1>5. Carries(Append(in, x), x)  BY <1>2 DEF Carries
<1>6. ASSUME in # <<>>
      PROVE  /\ Head(in) \in Words /\ Tail(in) \in Seq(Words) /\ Carries(in, Head(in))
             /\ Carries(Tail(in), word) => Carries(in, word)
  <2>1. /\ Head(in) = in[1] /\ 1 \in DOMAIN in /\ Tail(in) \in Seq(Words)
        /\ DOMAIN Tail(in) = 1 .. Len(in) - 1
        /\ \A i \in 1 .. Len(in) - 1 : Tail(in)[i] = in[i + 1] /\ i + 1 \in DOMAIN in
    BY <1>6, HeadTailProperties
  <2> QED  BY <2>1 DEF Carries
<1> QED  BY <1>1, <1>4, <1>5, <1>6

\* The ends that the calls of TcpSockets make are ends.
LEMMA EndsMade ==
  /\ Unused \in EndRecord /\ Opened \in EndRecord
  /\ Unused.in = <<>> /\ Opened.in = <<>> /\ Unused.open = FALSE /\ Opened.open = TRUE
  /\ \A end \in EndRecord :
       /\ Reset(end) \in EndRecord /\ Reset(end).in = end.in /\ Reset(end).open = end.open
       /\ Reported(end) \in EndRecord /\ Reported(end).in = end.in /\ Reported(end).open = end.open
       /\ \A x \in BOOLEAN : [end EXCEPT !.eof = x] \in EndRecord
       /\ \A x \in {"err", "dead"} : [end EXCEPT !.st = x] \in EndRecord
       /\ \A x \in Seq(Words) : [end EXCEPT !.in = x] \in EndRecord
<1>1. <<>> \in Seq(Words)  OBVIOUS
<1>2. Unused \in EndRecord /\ Unused.in = <<>> /\ Unused.open = FALSE  BY <1>1 DEF EndRecord, Unused
<1>4. Opened \in EndRecord /\ Opened.in = <<>> /\ Opened.open = TRUE  BY <1>2 DEF EndRecord, Opened
<1>5. ASSUME NEW end \in EndRecord
      PROVE  /\ \A x \in BOOLEAN : [end EXCEPT !.eof = x] \in EndRecord
             /\ \A x \in {"up", "err", "dead"} : /\ [end EXCEPT !.st = x] \in EndRecord
                                               /\ [end EXCEPT !.st = x].in = end.in
                                               /\ [end EXCEPT !.st = x].open = end.open
             /\ \A x \in Seq(Words) : [end EXCEPT !.in = x] \in EndRecord
  <2>1. \A x \in BOOLEAN : [end EXCEPT !.eof = x] \in EndRecord  BY DEF EndRecord
  <2>2. \A x \in {"up", "err", "dead"} : /\ [end EXCEPT !.st = x] \in EndRecord
                                        /\ [end EXCEPT !.st = x].in = end.in
                                        /\ [end EXCEPT !.st = x].open = end.open
    BY DEF EndRecord
  <2>3. \A x \in Seq(Words) : [end EXCEPT !.in = x] \in EndRecord  BY DEF EndRecord
  <2> QED  BY <2>1, <2>2, <2>3
<1>6. ASSUME NEW end \in EndRecord
      PROVE  /\ Reset(end) \in EndRecord /\ Reset(end).in = end.in /\ Reset(end).open = end.open
             /\ Reported(end) \in EndRecord /\ Reported(end).in = end.in /\ Reported(end).open = end.open
  <2>1. end.st \in {"up", "err", "dead"}  BY DEF EndRecord
  <2>2. PICK x \in {"up", "err", "dead"} : Reset(end) = [end EXCEPT !.st = x]  BY <2>1 DEF Reset
  <2>3. PICK y \in {"up", "err", "dead"} : Reported(end) = [end EXCEPT !.st = y]
    BY <2>1 DEF Reported
  <2>4. /\ [end EXCEPT !.st = x] \in EndRecord
        /\ [end EXCEPT !.st = x].in = end.in
        /\ [end EXCEPT !.st = x].open = end.open
    BY DEF EndRecord
  <2>5. /\ [end EXCEPT !.st = y] \in EndRecord
        /\ [end EXCEPT !.st = y].in = end.in
        /\ [end EXCEPT !.st = y].open = end.open
    BY DEF EndRecord
  <2> QED  BY <2>2, <2>3, <2>4, <2>5, Zenon
<1> QED  BY <1>2, <1>4, <1>5, <1>6

\* send() of one word.
LEMMA SentWords ==
  ASSUME NEW c \in ConnRecord, NEW e \in Ends, NEW x \in Words
  PROVE  LET d == Sent(c, e, <<x>>)
         IN  /\ d \in ConnRecord
             /\ \A f \in Ends : d[f].open = c[f].open
             /\ d[e].in = c[e].in
             /\ d[Peer(e)].in = IF SendOk(c, e) /\ c[Peer(e)].open THEN Append(c[Peer(e)].in, x)
                                ELSE c[Peer(e)].in
<1>1. e # Peer(e) /\ Ends = {e, Peer(e)} /\ Peer(e) \in Ends  BY DEF Ends, Peer
<1>2. c[e] \in EndRecord /\ c[Peer(e)] \in EndRecord  BY <1>1 DEF ConnRecord
<1>3. /\ c[Peer(e)].in \in Seq(Words) /\ c[Peer(e)].in \o <<x>> = Append(c[Peer(e)].in, x)
      /\ Append(c[Peer(e)].in, x) \in Seq(Words)
  BY <1>2 DEF EndRecord
<1> DEFINE y == Append(c[Peer(e)].in, x)
           SameWords(d) == /\ d \in ConnRecord
                           /\ \A f \in Ends : d[f].open = c[f].open /\ d[f].in = c[f].in
<1>8. \A st \in {"err", "dead"} : SameWords([c EXCEPT ![e].st = st])
  <2> SUFFICES ASSUME NEW st \in {"err", "dead"} PROVE SameWords([c EXCEPT ![e].st = st])
    OBVIOUS
  <2> DEFINE z == [c[e] EXCEPT !.st = st]
  <2>1. z \in EndRecord /\ z.open = c[e].open /\ z.in = c[e].in  BY <1>2, EndsMade DEF EndRecord
  <2>2. [c EXCEPT ![e].st = st] = [c EXCEPT ![e] = z]  OBVIOUS
  <2> HIDE DEF z
  <2>3. SameWords([c EXCEPT ![e] = z])  BY <1>1, <2>1 DEF ConnRecord
  <2> QED  BY <2>2, <2>3
<1> HIDE DEF SameWords
<1>4. CASE ~c[e].open  BY <1>1, <1>4 DEF Sent, SendOk
<1>5. CASE c[e].open /\ ~SendOk(c, e)
  <2>1. Sent(c, e, <<x>>) = [c EXCEPT ![e].st = "dead"]  BY <1>5 DEF Sent
  <2>2. SameWords([c EXCEPT ![e].st = "dead"])  BY <1>8
  <2> QED  BY <1>1, <1>5, <2>1, <2>2 DEF SameWords
<1>6. CASE SendOk(c, e) /\ c[Peer(e)].open
  <2>1. Sent(c, e, <<x>>) = [c EXCEPT ![Peer(e)].in = c[Peer(e)].in \o <<x>>]
    BY <1>6 DEF Sent, SendOk
  <2>2. Sent(c, e, <<x>>) = [c EXCEPT ![Peer(e)].in = y]  BY <1>3, <2>1
  <2> HIDE DEF y
  <2>3. y \in Seq(Words)  BY <1>3 DEF y
  <2>4. [c EXCEPT ![Peer(e)].in = y] \in ConnRecord  BY <1>1, <1>2, <2>3 DEF ConnRecord, EndRecord
  <2>5. /\ \A f \in Ends : [c EXCEPT ![Peer(e)].in = y][f].open = c[f].open
        /\ [c EXCEPT ![Peer(e)].in = y][e].in = c[e].in
        /\ [c EXCEPT ![Peer(e)].in = y][Peer(e)].in = y
    BY <1>1, <1>2 DEF ConnRecord, EndRecord
  <2> QED  BY <1>6, <2>2, <2>4, <2>5 DEF y
<1>7. CASE SendOk(c, e) /\ ~c[Peer(e)].open
  <2>1. Sent(c, e, <<x>>) = [c EXCEPT ![e].st = "err"]  BY <1>7 DEF Sent, SendOk
  <2>2. SameWords([c EXCEPT ![e].st = "err"])  BY <1>8
  <2> QED  BY <1>1, <1>7, <2>1, <2>2 DEF SameWords
<1> QED  BY <1>4, <1>5, <1>6, <1>7

\* close().
LEMMA ClosedWords ==
  ASSUME NEW c \in ConnRecord, NEW e \in Ends
  PROVE  LET d == Closed(c, e)
         IN  /\ d \in ConnRecord
             /\ d[e].in = <<>> \/ d[e].in = c[e].in
             /\ d[Peer(e)].in = c[Peer(e)].in /\ d[Peer(e)].open = c[Peer(e)].open
<1>1. e # Peer(e) /\ Ends = {e, Peer(e)} /\ Peer(e) \in Ends  BY DEF Ends, Peer
<1>2. c[e] \in EndRecord /\ c[Peer(e)] \in EndRecord  BY <1>1 DEF ConnRecord
<1> DEFINE p == Peer(e)
           q == IF ~c[p].open THEN c[p]
                ELSE IF c[e].in # <<>> THEN Reset(c[p])
                ELSE [c[p] EXCEPT !.eof = TRUE]
<1>3. q \in EndRecord /\ q.in = c[p].in /\ q.open = c[p].open
  <2>1. [c[p] EXCEPT !.eof = TRUE].in = c[p].in /\ [c[p] EXCEPT !.eof = TRUE].open = c[p].open
    BY <1>2 DEF EndRecord
  <2> QED  BY <1>2, <2>1, EndsMade
<1>4. CASE ~c[e].open  BY <1>4 DEF Closed
<1>5. CASE c[e].open
  <2>1. Closed(c, e) = [c EXCEPT ![e] = Unused, ![p] = q]  BY <1>5 DEF Closed
  <2> HIDE DEF q
  <2>2. Closed(c, e) \in ConnRecord /\ Closed(c, e)[e] = Unused /\ Closed(c, e)[p] = q
    BY <1>1, <1>3, <2>1, EndsMade DEF ConnRecord
  <2> QED  BY <1>3, <2>2, EndsMade
<1> QED  BY <1>4, <1>5

\* recv() of a word, or of none.
LEMMA ReadWords ==
  ASSUME NEW end \in EndRecord, NEW at
  PROVE  LET new == ReadFrom(end, at)
         IN  /\ new \in EndRecord /\ new.open = end.open
             /\ IF AfterRead(end, at) = "data" THEN end.in # <<>> /\ new.in = Tail(end.in)
                ELSE new.in = end.in
<1>1. CASE AfterRead(end, at) = "data"
  <2>1. Readable(end) = "data"  BY <1>1 DEF AfterRead, AfterPoll, AfterPeek, Readable
  <2>2. end.in # <<>>  BY <2>1 DEF Readable
  <2>3. ReadFrom(end, at) = [end EXCEPT !.in = Tail(end.in)]  BY <1>1, <2>1 DEF ReadFrom
  <2>4. end.in \in Seq(Words)  BY DEF EndRecord
  <2>5. Tail(end.in) \in Seq(Words)  BY <2>2, <2>4
  <2>6. ReadFrom(end, at) \in EndRecord
    <3>1. [end EXCEPT !.in = Tail(end.in)] \in EndRecord  BY <2>5 DEF EndRecord
    <3> QED  BY <2>3, <3>1
  <2>7. ReadFrom(end, at).in = Tail(end.in) /\ ReadFrom(end, at).open = end.open
    BY <2>3 DEF EndRecord
  <2> QED  BY <1>1, <2>2, <2>6, <2>7
<1>2. CASE AfterRead(end, at) # "data"
  <2>1. ReadFrom(end, at) = Reported(end) \/ ReadFrom(end, at) = end  BY <1>2 DEF ReadFrom
  <2> QED  BY <1>2, <2>1, EndsMade
<1> QED  BY <1>1, <1>2

-----------------------------------------------------------------------------
(* The handshake                                                           *)

Traffic == sock \in [Conns \cup {0} -> ConnRecord] /\ writes \in Nat /\ sends \in Nat

\* Connections have been made before they are accepted.
Made ==
    /\ \A f \in Fds : fds[f] \in 0 .. conns
    /\ \A i \in DOMAIN backlog : backlog[i] \in 1 .. conns

\* A client has the end of a connection of its own, and needs one in a call.
ClientsInv ==
    /\ \A c \in Nodes : client[c].conn # 0 => sock[client[c].conn]["C"].open
    /\ \A c, d \in Nodes : c # d /\ client[c].conn # 0 => client[c].conn # client[d].conn
    /\ \A c \in Nodes : client[c].pc # "idle" => client[c].conn # 0

\* Nobody sent a request that the server answers on this connection, and nobody answers.
Unasked(k) ==
    /\ ~Asks(sock[k]["S"].in) /\ ~Carries(sock[k]["C"].in, <<"answer">>)
    /\ \A t \in Threads : thread[t].pc = "reply" => Conn(t) # k

\* A client whose path does not begin with that of the server, or that has none, is
\* not answered.
Stranger(path) == path = <<>> \/ ~Begins(ServerPath, path)
UnansweredInv ==
    \A c \in Nodes : client[c].conn # 0 /\ Stranger(client[c].path) =>
        Unasked(client[c].conn) /\ (client[c].path # <<>> => client[c].pc = "answer")

HandInv == Traffic /\ Made /\ ClientsInv /\ (forgotten = 0 => UnansweredInv)

\* A call that brings neither a request nor an answer.
Quietly(c, d) ==
    /\ d \in ConnRecord
    /\ Asks(d["S"].in) => Asks(c["S"].in)
    /\ Carries(d["C"].in, <<"answer">>) => Carries(c["C"].in, <<"answer">>)

\* What the calls do, in these terms.
LEMMA QuietCalls ==
  ASSUME NEW c \in ConnRecord
  PROVE  /\ Quietly(c, c)
         /\ \A e \in Ends, x \in Words \ Special : Quietly(c, Sent(c, e, <<x>>))
         /\ \A e \in Ends : Quietly(c, Closed(c, e))
         /\ \A e \in Ends : \A at : Quietly(c, [c EXCEPT ![e] = ReadFrom(@, at)])
         /\ \A e \in Ends : c[e].in # <<>> => Quietly(c, [c EXCEPT ![e].in = Tail(@)])
         /\ Quietly(c, [c EXCEPT !["S"] = Unused, !["C"] = Reset(@)])
         /\ Quietly(c, [e \in Ends |-> IF c[e].open THEN Reset(c[e]) ELSE c[e]])
<1>1. "S" # "C" /\ Ends = {"S", "C"} /\ Peer("S") = "C" /\ Peer("C") = "S"  BY DEF Ends, Peer
<1>2. c["S"] \in EndRecord /\ c["C"] \in EndRecord /\ DOMAIN c = Ends  BY <1>1 DEF ConnRecord
<1>3. \A in, word : in = <<>> => ~Carries(in, word)  BY DEF Carries
<1>4. ASSUME NEW d \in ConnRecord,
             \A e \in Ends, word \in Special : Carries(d[e].in, word) => Carries(c[e].in, word)
      PROVE  Quietly(c, d)
  BY <1>1, <1>4 DEF Quietly, Special, Asks
<1>5. ASSUME NEW e \in Ends, NEW x \in Words \ Special
      PROVE  Quietly(c, Sent(c, e, <<x>>))
  <2> DEFINE d == Sent(c, e, <<x>>)
  <2>1. /\ d \in ConnRecord /\ d[e].in = c[e].in
        /\ d[Peer(e)].in = IF SendOk(c, e) /\ c[Peer(e)].open THEN Append(c[Peer(e)].in, x)
                           ELSE c[Peer(e)].in
    BY <1>5, SentWords
  <2> HIDE DEF d
  <2>2. c[Peer(e)].in \in Seq(Words)  BY <1>1, <1>2 DEF EndRecord
  <2>3. \A word : Carries(Append(c[Peer(e)].in, x), word) => Carries(c[Peer(e)].in, word) \/ word = x
    BY <1>5, <2>2, CarriesAfter
  <2>4. \A f \in Ends : f = e \/ f = Peer(e)  BY <1>1
  <2>5. \A f \in Ends, word \in Special : Carries(d[f].in, word) => Carries(c[f].in, word)
    BY <1>5, <2>1, <2>3, <2>4
  <2>6. Quietly(c, d)  BY <1>4, <2>1, <2>5
  <2> QED  BY <2>6 DEF d
<1>6. ASSUME NEW e \in Ends PROVE Quietly(c, Closed(c, e))
  <2> DEFINE d == Closed(c, e)
  <2>1. /\ d[e].in = <<>> \/ d[e].in = c[e].in
        /\ d[Peer(e)].in = c[Peer(e)].in
    BY <1>6, ClosedWords
  <2> HIDE DEF d
  <2>2. d \in ConnRecord  BY <1>6, ClosedWords DEF d
  <2>3. \A f \in Ends : f = e \/ f = Peer(e)  BY <1>1
  <2>4. \A f \in Ends, word \in Special : Carries(d[f].in, word) => Carries(c[f].in, word)
    BY <1>3, <2>1, <2>3
  <2>5. Quietly(c, d)  BY <1>4, <2>2, <2>4
  <2> QED  BY <2>5 DEF d
<1>7. ASSUME NEW e \in Ends, NEW end \in EndRecord,
             \A word : Carries(end.in, word) => Carries(c[e].in, word)
      PROVE  Quietly(c, [c EXCEPT ![e] = end])
  <2>1. [c EXCEPT ![e] = end] \in ConnRecord  BY <1>7 DEF ConnRecord
  <2>2. \A f \in Ends : [c EXCEPT ![e] = end][f] = IF f = e THEN end ELSE c[f]  BY <1>2
  <2> QED  BY <1>4, <1>7, <2>1, <2>2
<1>8. \A e \in Ends : c[e].in # <<>> =>
        /\ Tail(c[e].in) \in Seq(Words)
        /\ \A word : Carries(Tail(c[e].in), word) => Carries(c[e].in, word)
  <2>1. \A e \in Ends : c[e].in \in Seq(Words)  BY <1>1, <1>2 DEF EndRecord
  <2>2. <<"answer">> \in Words  BY DEF Words
  <2> QED  BY <2>1, <2>2, CarriesAfter
<1>9. ASSUME NEW e \in Ends, NEW at PROVE Quietly(c, [c EXCEPT ![e] = ReadFrom(@, at)])
  <2> DEFINE end == ReadFrom(c[e], at)
  <2>1. /\ end \in EndRecord
        /\ IF AfterRead(c[e], at) = "data" THEN c[e].in # <<>> /\ end.in = Tail(c[e].in)
           ELSE end.in = c[e].in
    BY <1>1, <1>2, <1>9, ReadWords
  <2> HIDE DEF end
  <2>2. Quietly(c, [c EXCEPT ![e] = end])  BY <1>7, <1>8, <1>9, <2>1
  <2> QED  BY <2>2 DEF end
<1>10. ASSUME NEW e \in Ends, c[e].in # <<>> PROVE Quietly(c, [c EXCEPT ![e].in = Tail(@)])
  <2> DEFINE end == [c[e] EXCEPT !.in = Tail(@)]
  <2>1. c[e] \in EndRecord  BY <1>1, <1>2, <1>10
  <2>2. end \in EndRecord /\ end.in = Tail(c[e].in)  BY <1>8, <1>10, <2>1 DEF EndRecord
  <2>3. [c EXCEPT ![e].in = Tail(@)] = [c EXCEPT ![e] = end]  OBVIOUS
  <2> HIDE DEF end
  <2>4. Quietly(c, [c EXCEPT ![e] = end])  BY <1>7, <1>8, <1>10, <2>2
  <2> QED  BY <2>3, <2>4
<1>11. Quietly(c, [c EXCEPT !["S"] = Unused, !["C"] = Reset(@)])
  <2> DEFINE d == [c EXCEPT !["S"] = Unused, !["C"] = Reset(@)]
  <2>1. d["S"] = Unused /\ d["C"] = Reset(c["C"]) /\ DOMAIN d = Ends  BY <1>1, <1>2
  <2>2. d = [e \in Ends |-> d[e]]  BY <2>1
  <2> HIDE DEF d
  <2>3. /\ d["S"] \in EndRecord /\ d["S"].in = <<>>
        /\ d["C"] \in EndRecord /\ d["C"].in = c["C"].in
    <3>1. Unused \in EndRecord /\ Unused.in = <<>>  BY EndsMade
    <3>2. c["C"] \in EndRecord  BY <1>2
    <3>3. Reset(c["C"]) \in EndRecord /\ Reset(c["C"]).in = c["C"].in  BY <3>2, EndsMade
    <3> QED  BY <2>1, <3>1, <3>3
  <2>4. d \in ConnRecord  BY <1>1, <2>2, <2>3 DEF ConnRecord
  <2>5. Quietly(c, d)  BY <1>1, <1>3, <1>4, <2>3, <2>4
  <2> QED  BY <2>5 DEF d
<1>12. Quietly(c, [e \in Ends |-> IF c[e].open THEN Reset(c[e]) ELSE c[e]])
  <2> DEFINE d == [e \in Ends |-> IF c[e].open THEN Reset(c[e]) ELSE c[e]]
  <2>1. \A e \in Ends : c[e] \in EndRecord  BY <1>1, <1>2
  <2>2. \A e \in Ends : d[e] \in EndRecord /\ d[e].in = c[e].in  BY <2>1, EndsMade
  <2>3. d = [e \in Ends |-> d[e]]  OBVIOUS
  <2> HIDE DEF d
  <2>4. d \in ConnRecord  BY <2>2, <2>3 DEF ConnRecord
  <2>5. Quietly(c, d)  BY <1>4, <2>2, <2>4
  <2> QED  BY <2>5 DEF d
<1>13. Quietly(c, c)  BY <1>4
<1> QED  BY <1>5, <1>6, <1>9, <1>10, <1>11, <1>12, <1>13

\* Where a step takes a thread.
LEMMA RunMoves ==
  ASSUME IInv, NEW t \in Threads, RunStep(t)
  PROVE  /\ \A s \in Threads \ {t} : thread'[s].pc = thread[s].pc
         /\ \A s \in Threads : thread'[s].fd = thread[s].fd
         /\ thread'[t].pc \in CASE thread[t].pc = "request"  -> {"reply", "close"}
                                [] thread[t].pc = "reply"    -> {"register", "close"}
                                [] thread[t].pc = "register" -> {"poll"}
                                [] thread[t].pc \in {"poll", "peek"} -> {"poll", "peek", "leave"}
                                [] thread[t].pc = "leave"    -> {"close"}
                                [] OTHER                     -> {"done"}
         /\ thread[t].pc \in {"request", "reply", "register", "poll", "peek", "leave", "close"}
         /\ UNCHANGED <<backlog, conns, forgotten, writes>>
         /\ IF thread[t].pc = "close" THEN fds' = [f \in Fds |-> IF f = thread[t].fd THEN 0 ELSE fds[f]]
            ELSE fds' = fds
<1> DEFINE Goes(p) == /\ \A s \in Threads \ {t} : thread'[s].pc = thread[s].pc
                      /\ \A s \in Threads : thread'[s].fd = thread[s].fd
                      /\ thread'[t].pc = p
<1>1. \A p \in Places : Goto(t, p) => Goes(p)  BY Going DEF IInv, ServerInv
<1>2. CASE RunRequest(t)
  <2>1. thread[t].pc = "request" /\ UNCHANGED <<backlog, conns, forgotten, writes, fds>>
    BY <1>2 DEF RunRequest, RestUnchanged, serverHistory, At
  <2>2. PICK p \in {"reply", "close"} : Goto(t, p)  BY <1>2 DEF RunRequest
  <2>3. Goes(p)  BY <1>1, <2>2 DEF Places
  <2> QED  BY <2>1, <2>3
<1>3. CASE RunReply(t)
  <2>1. thread[t].pc = "reply" /\ UNCHANGED <<backlog, conns, forgotten, writes, fds>>
    BY <1>3 DEF RunReply, RestUnchanged, serverHistory, At
  <2>2. PICK p \in {"register", "close"} : Goto(t, p)  BY <1>3 DEF RunReply
  <2>3. Goes(p)  BY <1>1, <2>2 DEF Places
  <2> QED  BY <2>1, <2>3
<1>4. CASE RunRegister(t)
  <2>1. /\ thread[t].pc = "register" /\ client_cnt < MaxClients
        /\ UNCHANGED <<backlog, conns, forgotten, writes, fds>>
        /\ thread' = [thread EXCEPT ![t].pc = "poll", ![t].idx = client_cnt]
    BY <1>4 DEF RunRegister, sockets, At
  <2>2. thread \in [Threads -> ThreadRecord]  BY DEF IInv, ServerInv, ThreadsInv
  <2>3. Goes("poll")  BY <2>1, <2>2 DEF ThreadRecord
  <2>4. thread[t].pc = "register" /\ UNCHANGED <<backlog, conns, forgotten, writes, fds>>  BY <2>1
  <2> QED  BY <2>3, <2>4
<1>5. CASE RunRead(t)
  <2>1. thread[t].pc \in {"poll", "peek"} /\ UNCHANGED <<backlog, conns, forgotten, writes, fds>>
    BY <1>5 DEF RunRead, RestUnchanged, serverHistory
  <2>2. PICK p \in {"poll", "peek", "leave"} : Goto(t, p)  BY <1>5 DEF RunRead
  <2>3. Goes(p)  BY <1>1, <2>2 DEF Places
  <2>4. CASE thread[t].pc = "poll"  BY <2>1, <2>3, <2>4
  <2>5. CASE thread[t].pc = "peek"  BY <2>1, <2>3, <2>5
  <2> QED  BY <2>1, <2>4, <2>5
<1>6. CASE RunLeave(t)
  <2>1. thread[t].pc = "leave" /\ UNCHANGED <<backlog, conns, forgotten, writes, fds>>
    BY <1>6 DEF RunLeave, Descriptors, sockets, At
  <2>2. Goto(t, "close")  BY <1>6 DEF RunLeave
  <2>3. Goes("close")  BY <1>1, <2>2 DEF Places
  <2> QED  BY <2>1, <2>3
<1>7. CASE RunClose(t)
  <2>1. /\ thread[t].pc = "close" /\ UNCHANGED <<backlog, conns, forgotten, writes>>
        /\ fds' = [f \in Fds |-> IF f = thread[t].fd THEN 0 ELSE fds[f]]
    BY <1>7 DEF RunClose, serverHistory, At
  <2>2. Goto(t, "done")  BY <1>7 DEF RunClose
  <2>3. Goes("done")  BY <1>1, <2>2 DEF Places
  <2> QED  BY <2>1, <2>3
<1> QED  BY <1>2, <1>3, <1>4, <1>5, <1>6, <1>7 DEF RunStep

\* What accept() does to threads, descriptors and connections.
LEMMA AcceptMoves ==
  ASSUME IInv, NEW t \in Threads, RunAccept(t)
  PROVE  /\ \E f \in Fds :
              /\ fds[f] = 0 /\ fds' = [fds EXCEPT ![f] = Head(backlog)]
              /\ thread'[t].pc = "request" /\ thread'[t].fd = f
         /\ thread[t].pc = "accept"
         /\ \A s \in Threads \ {t} : \/ thread'[s] = thread[s]
                                     \/ thread[s].pc = "none" /\ thread'[s].pc = "accept"
         /\ backlog # <<>> /\ (backlog' = <<>> \/ backlog' = Tail(backlog))
         /\ \E R \in SUBSET (Waiting \ {Head(backlog)}) :
              /\ sock' = [k \in DOMAIN sock |-> IF k \in R THEN Refused(k) ELSE sock[k]]
              /\ R # {} => backlog' = <<>>
         /\ UNCHANGED <<conns, forgotten, writes>>
<1>1. PICK f \in Fds :
        /\ fds[f] = 0 /\ fds' = [fds EXCEPT ![f] = Head(backlog)]
        /\ LET threads == [thread EXCEPT ![t] = [pc |-> "request", fd |-> f, idx |-> -1]]
           IN  Spawn(threads) \/ thread' = threads
  BY DEF RunAccept, SpawnNext
<1> DEFINE threads == [thread EXCEPT ![t] = [pc |-> "request", fd |-> f, idx |-> -1]]
<1>2. [pc |-> "request", fd |-> f, idx |-> -1] \in ThreadRecord
  BY ServerAssumption DEF ThreadRecord, Places
<1>3. /\ threads \in [Threads -> ThreadRecord]
      /\ threads[t].pc = "request" /\ threads[t].fd = f /\ \A s \in Threads \ {t} : threads[s] = thread[s]
  BY <1>2 DEF IInv, ServerInv, ThreadsInv
<1>4. thread[t].pc = "accept" /\ UNCHANGED <<conns, forgotten, writes>>
      /\ backlog # <<>> /\ (backlog' = <<>> \/ backlog' = Tail(backlog))
  BY DEF RunAccept, At
<1>5. \/ thread' = threads
      \/ /\ tid_cnt \in Threads /\ thread[tid_cnt].pc = "none" /\ thread'[tid_cnt].pc = "accept"
         /\ \A s \in Threads \ {tid_cnt} : thread'[s] = threads[s]
  <2> HIDE DEF threads
  <2>1. ASSUME Spawn(threads)
        PROVE  /\ tid_cnt \in Threads /\ thread[tid_cnt].pc = "none"
               /\ thread'[tid_cnt] = [pc |-> "accept", fd |-> 0, idx |-> -1]
               /\ \A s \in Threads \ {tid_cnt} : thread'[s] = threads[s]
    BY <1>3, <2>1, Spawning DEF IInv, ServerInv
  <2>2. Spawn(threads) \/ thread' = threads  BY <1>1 DEF threads
  <2> QED  BY <2>1, <2>2
<1> DEFINE gone == ~listening /\ lingering = 1
           R == IF gone THEN Waiting \ {Head(backlog)} ELSE {}
<1>6. /\ sock' = [k \in DOMAIN sock |-> IF k \in R THEN Refused(k) ELSE sock[k]]
      /\ R \in SUBSET (Waiting \ {Head(backlog)})
      /\ R # {} => backlog' = <<>>
  BY DEF RunAccept, LastWaits
<1> HIDE DEF threads, R
<1>7. thread'[t].pc = "request" /\ thread'[t].fd = f
  BY <1>3, <1>4, <1>5
<1>8. \A s \in Threads \ {t} : \/ thread'[s] = thread[s]
                               \/ thread[s].pc = "none" /\ thread'[s].pc = "accept"
  BY <1>3, <1>5
<1> QED  BY <1>1, <1>4, <1>6, <1>7, <1>8

\* What is true of the connections before the loop of write(), and kept by each turn, is
\* true behind it.
LEMMA LoopWithin ==
  ASSUME NEW full, NEW n \in Nat, NEW f, Loop(f, n, full), NEW S, sock \in S,
         \A ss \in S, i \in Nat : AfterEntry(ss, i, full) \in S
  PROVE  f[n] \in S
<1> DEFINE Bad == {m \in Nat : m <= n /\ f[m] \notin S}
<1>1. \A i \in 0 .. n : f[i] = IF i = 0 THEN sock ELSE AfterEntry(f[i - 1], i - 1, full)  BY DEF Loop
<1>2. CASE Bad # {}
  <2>1. PICK m \in Bad : \A j \in Bad : m <= j  BY <1>2, LeastNat
  <2>2. m # 0 /\ m \in 0 .. n  BY <1>1, <2>1
  <2>3. m - 1 \in Nat /\ m - 1 \in 0 .. n /\ m - 1 \notin Bad  BY <2>1, <2>2
  <2>4. f[m - 1] \in S  BY <2>3
  <2>5. f[m] = AfterEntry(f[m - 1], m - 1, full)  BY <1>1, <2>2
  <2> QED  BY <2>1, <2>3, <2>4, <2>5
<1>3. CASE Bad = {}  BY <1>3
<1> QED  BY <1>2, <1>3

\* The function that write() computes.
LEMMA WriteLoops ==
  ASSUME IInv, ServerWrite
  PROVE  /\ \E full \in Conns \cup {0} :
              /\ full # 0 => Fault
              /\ \E f : Loop(f, client_cnt, full) /\ sock' = f[client_cnt]
         /\ client_cnt \in Nat /\ client_cnt <= MaxClients
         /\ UNCHANGED <<fds, backlog, conns, thread, client_fd, client_cnt, forgotten, orderly, since>>
         /\ writes' = writes + 1
<1>1. /\ client_cnt <= MaxClients /\ writes' = writes + 1
      /\ UNCHANGED <<fds, backlog, conns, thread, client_fd, client_cnt, forgotten, orderly, since>>
  BY DEF ServerWrite, server
<1>2. client_cnt \in Nat  BY ServerAssumption DEF IInv, ServerInv, TablesInv
<1>3. PICK full \in Conns \cup {0} :
        /\ full # 0 => Fault
        /\ sock' = LET after[i \in 0 .. client_cnt] ==
                         IF i = 0 THEN sock ELSE AfterEntry(after[i - 1], i - 1, full)
                   IN  after[client_cnt]
  BY DEF ServerWrite
<1>4. \E f : Loop(f, client_cnt, full) /\ sock' = f[client_cnt]
  <2>1. \E f : Loop(f, client_cnt, full)  BY <1>2, LoopExists
  <2> DEFINE f == CHOOSE f : Loop(f, client_cnt, full)
  <2>2. Loop(f, client_cnt, full)  BY <2>1
  <2>3. sock' = f[client_cnt]  BY <1>3 DEF Loop
  <2> HIDE DEF f
  <2> QED  BY <2>2, <2>3
<1> QED  BY <1>1, <1>2, <1>3, <1>4

\* Steps of the server, by what they do to clients that were not answered.
LEMMA ServerHand ==
  ASSUME IInv, HandInv, UNCHANGED <<client, conns, sends>>, writes' \in Nat, Made',
         forgotten' = 0 => forgotten = 0,
         sock' \in [Conns \cup {0} -> ConnRecord],
         \A k \in Conns : sock'[k]["C"].open = sock[k]["C"].open,
         \A k \in Conns : forgotten = 0 /\ Unasked(k) => Unasked(k)'
  PROVE  HandInv'
<1>1. \A c \in Nodes : client[c].conn # 0 => client[c].conn \in Conns
  <2>1. \A c \in Nodes : client[c].conn \in 0 .. conns  BY DEF IInv, NetworkInv, ClientRecord
  <2>2. conns \in 0 .. MaxConns /\ MaxConns \in Nat  BY SocketsAssumption DEF IInv, NetworkInv
  <2> QED  BY <2>1, <2>2 DEF Conns
<1>2. Traffic'  BY DEF HandInv, Traffic
<1>3. ClientsInv'  BY <1>1 DEF HandInv, ClientsInv
<1>4. ASSUME forgotten' = 0 PROVE UnansweredInv'
  <2>1. forgotten = 0 /\ UnansweredInv  BY <1>4 DEF HandInv
  <2>2. client' = client  OBVIOUS
  <2>3. ASSUME NEW c \in Nodes, client[c].conn # 0, Stranger(client[c].path)
        PROVE  Unasked(client[c].conn)' /\ (client[c].path # <<>> => client[c].pc = "answer")
    <3>1. Unasked(client[c].conn) /\ (client[c].path # <<>> => client[c].pc = "answer")
      BY <2>1, <2>3 DEF UnansweredInv
    <3>2. PICK k \in Conns : k = client[c].conn  BY <1>1, <2>3
    <3>3. Unasked(k)'  BY <2>1, <3>1, <3>2
    <3>4. Unasked(client[c].conn)'  BY <2>2, <3>2, <3>3 DEF Unasked
    <3> QED  BY <3>1, <3>4
  <2> QED  BY <2>2, <2>3 DEF UnansweredInv
<1> QED  BY <1>2, <1>3, <1>4 DEF HandInv

\* What keeps a connection unasked.
LEMMA StillUnasked ==
  ASSUME NEW k \in Conns, Unasked(k),
         Asks(sock'[k]["S"].in) => Asks(sock[k]["S"].in),
         Carries(sock'[k]["C"].in, <<"answer">>) => Carries(sock[k]["C"].in, <<"answer">>),
         \A t \in Threads : thread'[t].pc = "reply" /\ Conn(t)' = k => thread[t].pc = "reply" /\ Conn(t) = k
  PROVE  Unasked(k)'
<1>1. \A t \in Threads : thread'[t].pc = "reply" => Conn(t)' # k  BY DEF Unasked
<1>2. ~Asks(sock'[k]["S"].in) /\ ~Carries(sock'[k]["C"].in, <<"answer">>)
  BY DEF Unasked
<1> QED  BY <1>1, <1>2 DEF Unasked

\* Threads and descriptors that stay, or are closed, keep their connections, or lose them.
LEMMA ConnAfter ==
  ASSUME NEW t \in Threads, thread'[t].fd = thread[t].fd, \A f \in Fds : fds'[f] \in {fds[f], 0}
  PROVE  Conn(t)' \in {Conn(t), 0}
BY DEF Conn, ConnOf

\* A call that concerns one connection.
LEMMA OneQuiet ==
  ASSUME Traffic, NEW k \in Conns \cup {0}, NEW d, Quietly(sock[k], d), sock' = [sock EXCEPT ![k] = d]
  PROVE  /\ sock' \in [Conns \cup {0} -> ConnRecord] /\ sock'[k] = d
         /\ \A j \in Conns \cup {0} : Quietly(sock[j], sock'[j]) /\ (j # k => sock'[j] = sock[j])
<1>1. \A j \in Conns \cup {0} : Quietly(sock[j], sock[j])  BY QuietCalls DEF Traffic
<1>2. d \in ConnRecord  BY DEF Quietly
<1> QED  BY <1>1, <1>2 DEF Traffic

\* The steps of run() behind accept().
LEMMA RunHand ==
  ASSUME IInv, HandInv, NEW t \in Threads, RunStep(t), UNCHANGED <<client, sends>>
  PROVE  HandInv'
<1> DEFINE k == Conn(t)
           c == sock[k]
<1>1. k \in Conns \cup {0}  BY DEF Conn, ConnOf, IInv, ServerInv, TablesInv
<1>2. c \in ConnRecord /\ "S" \in Ends /\ "C" \in Ends /\ Peer("S") = "C" /\ "S" # "C"
  BY <1>1 DEF HandInv, Traffic, Ends, Peer
<1>3. /\ UNCHANGED <<backlog, conns, forgotten, writes>>
      /\ \A s \in Threads : thread'[s].fd = thread[s].fd
      /\ \A s \in Threads \ {t} : thread'[s].pc = thread[s].pc
      /\ \A f \in Fds : fds'[f] \in {fds[f], 0}
  <2>1. fds' = fds \/ fds' = [f \in Fds |-> IF f = thread[t].fd THEN 0 ELSE fds[f]]  BY RunMoves
  <2>2. \A f \in Fds : fds'[f] \in {fds[f], 0}  BY <2>1
  <2> QED  BY <2>2, RunMoves
<1>4. \A s \in Threads : Conn(s)' \in {Conn(s), 0}  BY <1>3, ConnAfter
<1>5. Made'
  <2>1. conns \in Nat  BY SocketsAssumption DEF IInv, NetworkInv
  <2> QED  BY <1>3, <2>1 DEF HandInv, Made
<1>6. \A j \in Conns : j # 0  BY DEF Conns
<1>7. ASSUME NEW d, Quietly(c, d), d["C"].open = c["C"].open, sock' = [sock EXCEPT ![k] = d],
             forgotten = 0 /\ thread'[t].pc = "reply" => ~Unasked(k)
      PROVE  HandInv'
  <2>1. /\ sock' \in [Conns \cup {0} -> ConnRecord] /\ sock'[k] = d
        /\ \A j \in Conns \cup {0} : Quietly(sock[j], sock'[j]) /\ (j # k => sock'[j] = sock[j])
    BY <1>1, <1>7, OneQuiet DEF HandInv
  <2>2. \A j \in Conns : sock'[j]["C"].open = sock[j]["C"].open  BY <1>7, <2>1
  <2> HIDE DEF k, c
  <2>3. ASSUME NEW j \in Conns, forgotten = 0, Unasked(j) PROVE Unasked(j)'
    <3>1. \A s \in Threads : thread'[s].pc = "reply" /\ Conn(s)' = j => thread[s].pc = "reply" /\ Conn(s) = j
      <4> SUFFICES ASSUME NEW s \in Threads, thread'[s].pc = "reply", Conn(s)' = j
                   PROVE  thread[s].pc = "reply" /\ Conn(s) = j
        OBVIOUS
      <4>1. Conn(s) = j  BY <1>4, <1>6, <2>3
      <4>2. CASE s = t  BY <1>7, <2>3, <4>1, <4>2 DEF k
      <4>3. CASE s # t  BY <1>3, <4>1, <4>3
      <4> QED  BY <4>2, <4>3
    <3>2. Quietly(sock[j], sock'[j])  BY <2>1, <2>3
    <3> QED  BY <2>3, <3>1, <3>2, StillUnasked DEF Quietly
  <2>4. writes' \in Nat  BY <1>3 DEF HandInv, Traffic
  <2> QED  BY <1>3, <1>5, <2>1, <2>2, <2>3, <2>4, ServerHand
<1>8. ASSUME UNCHANGED sock, forgotten = 0 /\ thread'[t].pc = "reply" => ~Unasked(k)
      PROVE  HandInv'
  <2>1. sock' = [sock EXCEPT ![k] = c]  BY <1>1, <1>8 DEF HandInv, Traffic
  <2>2. Quietly(c, c)  BY <1>2, QuietCalls
  <2> HIDE DEF k, c
  <2> QED  BY <1>7, <1>8, <2>1, <2>2
<1>9. CASE RunRequest(t)
  <2>1. CASE thread'[t].pc = "reply"
    <3>1. PICK p \in {"reply", "close"} :
            /\ Goto(t, p)
            /\ p = "reply" => /\ Readable(c["S"]) = "data" /\ Accepts(Head(c["S"].in))
                              /\ sock' = [sock EXCEPT ![k]["S"].in = Tail(@)]
      BY <1>9 DEF RunRequest, FirstToken
    <3>2. p = "reply"
      <4>1. thread'[t].pc = p  BY <3>1, Going DEF IInv, ServerInv, Places
      <4> QED  BY <2>1, <4>1
    <3>3. c["S"].in # <<>>  BY <3>1, <3>2 DEF Readable
    <3>4. c["S"].in \in Seq(Words)  BY <1>2 DEF ConnRecord, EndRecord
    <3>5. Asks(c["S"].in)
      <4>1. Head(c["S"].in) \in Words /\ Carries(c["S"].in, Head(c["S"].in))
        <5>1. <<"answer">> \in Words  BY DEF Words
        <5> QED  BY <3>3, <3>4, <5>1, CarriesAfter
      <4>2. Head(c["S"].in) \in Requests  BY <3>1, <3>2, <4>1, WordsAre
      <4> QED  BY <4>1, <4>2 DEF Asks
    <3> DEFINE d == [c EXCEPT !["S"].in = Tail(@)]
    <3>6. sock' = [sock EXCEPT ![k] = d]  BY <3>1, <3>2
    <3>7. Quietly(c, d)  BY <1>2, <3>3, QuietCalls
    <3>8. d["C"] = c["C"]  BY <1>2
    <3>9. ~Unasked(k)  BY <3>5 DEF Unasked
    <3> HIDE DEF d
    <3> QED  BY <1>7, <3>6, <3>7, <3>8, <3>9
  <2>2. CASE thread'[t].pc # "reply"
    <3>1. PICK p \in {"reply", "close"} : Goto(t, p) /\ (p = "close" => sock' = sock)
      BY <1>9 DEF RunRequest
    <3>2. p = "close"
      <4>1. thread'[t].pc = p  BY <3>1, Going DEF IInv, ServerInv, Places
      <4> QED  BY <2>2, <4>1
    <3> QED  BY <1>8, <2>2, <3>1, <3>2
  <2> QED  BY <2>1, <2>2
<1>10. CASE RunReply(t)
  <2> DEFINE d == Sent(c, "S", << <<"answer">> >>)
  <2>1. sock' = [sock EXCEPT ![k] = d]  BY <1>10 DEF RunReply
  <2>2. <<"answer">> \in Words  BY DEF Words
  <2>3. /\ d \in ConnRecord /\ \A e \in Ends : d[e].open = c[e].open
        /\ d["S"].in = c["S"].in
    BY <1>2, <2>2, SentWords
  <2>4. thread[t].pc = "reply" /\ thread'[t].pc # "reply"  BY <1>10, RunMoves DEF RunReply, At
  <2> HIDE DEF d
  <2>5. /\ sock' \in [Conns \cup {0} -> ConnRecord] /\ sock'[k] = d
        /\ \A j \in (Conns \cup {0}) \ {k} : sock'[j] = sock[j]
    BY <1>1, <2>1, <2>3 DEF HandInv, Traffic
  <2>6. \A j \in Conns : sock'[j]["C"].open = sock[j]["C"].open  BY <1>2, <2>3, <2>5
  <2> HIDE DEF k, c
  <2>7. ASSUME NEW j \in Conns, Unasked(j) PROVE Unasked(j)'
    <3>1. j # k  BY <2>4, <2>7 DEF Unasked, k
    <3>2. sock'[j] = sock[j]  BY <2>5, <3>1
    <3>3. \A s \in Threads : thread'[s].pc = "reply" /\ Conn(s)' = j => thread[s].pc = "reply" /\ Conn(s) = j
      BY <1>3, <1>4, <1>6, <2>4
    <3> QED  BY <2>7, <3>2, <3>3, StillUnasked
  <2>8. writes' \in Nat  BY <1>3 DEF HandInv, Traffic
  <2> QED  BY <1>3, <1>5, <2>5, <2>6, <2>7, <2>8, ServerHand
<1>11. CASE RunRegister(t) \/ RunLeave(t)
  <2>1. UNCHANGED sock  BY <1>11 DEF RunRegister, RunLeave, sockets
  <2>2. thread'[t].pc # "reply"  BY <1>11, RunMoves DEF RunRegister, RunLeave, At
  <2> QED  BY <1>8, <2>1, <2>2
<1>12. CASE RunRead(t)
  <2> DEFINE at == thread[t].pc
             d == [c EXCEPT !["S"] = ReadFrom(@, at)]
  <2>1. sock' = [sock EXCEPT ![k] = d]  BY <1>12 DEF RunRead
  <2>2. Quietly(c, d)  BY <1>2, QuietCalls
  <2>3. d["C"] = c["C"]  BY <1>2
  <2>4. thread'[t].pc # "reply"
    <3>1. thread[t].pc \in {"poll", "peek"}  BY <1>12 DEF RunRead
    <3>2. CASE thread[t].pc = "poll"  BY <3>2, RunMoves
    <3>3. CASE thread[t].pc = "peek"  BY <3>3, RunMoves
    <3> QED  BY <3>1, <3>2, <3>3
  <2> HIDE DEF d
  <2> QED  BY <1>7, <2>1, <2>2, <2>3, <2>4
<1>13. CASE RunClose(t)
  <2> DEFINE d == Closed(c, "S")
  <2>1. sock' = [sock EXCEPT ![k] = d]  BY <1>13 DEF RunClose
  <2>2. Quietly(c, d)  BY <1>2, QuietCalls
  <2>3. d["C"].open = c["C"].open  BY <1>2, ClosedWords
  <2>4. thread'[t].pc # "reply"  BY <1>13, RunMoves DEF RunClose, At
  <2> HIDE DEF d
  <2> QED  BY <1>7, <2>1, <2>2, <2>3, <2>4
<1> QED  BY <1>9, <1>10, <1>11, <1>12, <1>13 DEF RunStep

\* A connection that is reset before anyone has accepted it.
LEMMA RefusedWords ==
  ASSUME Traffic, NEW k \in Conns \cup {0}
  PROVE  Quietly(sock[k], Refused(k)) /\ Refused(k)["C"].open = sock[k]["C"].open
<1>1. sock[k] \in ConnRecord  BY DEF Traffic
<1>2. Refused(k) = [sock[k] EXCEPT !["S"] = Unused, !["C"] = Reset(@)]  BY DEF Refused
<1>3. "S" # "C" /\ "C" \in Ends  BY DEF Ends
<1>4. Refused(k)["C"] = Reset(sock[k]["C"]) /\ sock[k]["C"] \in EndRecord
  BY <1>1, <1>2, <1>3 DEF ConnRecord
<1> QED  BY <1>1, <1>2, <1>4, QuietCalls, EndsMade

\* accept().
LEMMA AcceptHand ==
  ASSUME IInv, HandInv, NEW t \in Threads, RunAccept(t), UNCHANGED <<client, sends>>
  PROVE  HandInv'
<1>1. PICK f \in Fds :
        /\ fds[f] = 0 /\ fds' = [fds EXCEPT ![f] = Head(backlog)]
        /\ thread'[t].pc = "request" /\ thread'[t].fd = f
  BY AcceptMoves
<1>2. PICK R \in SUBSET (Waiting \ {Head(backlog)}) :
        sock' = [k \in DOMAIN sock |-> IF k \in R THEN Refused(k) ELSE sock[k]]
  BY AcceptMoves
<1>3. /\ \A s \in Threads \ {t} : \/ thread'[s] = thread[s]
                                  \/ thread[s].pc = "none" /\ thread'[s].pc = "accept"
      /\ backlog # <<>> /\ (backlog' = <<>> \/ backlog' = Tail(backlog))
      /\ UNCHANGED <<conns, forgotten, writes>>
  BY AcceptMoves
<1>4. /\ sock' \in [Conns \cup {0} -> ConnRecord]
      /\ \A k \in Conns \cup {0} : Quietly(sock[k], sock'[k]) /\ sock'[k]["C"].open = sock[k]["C"].open
  <2>1. \A k \in Conns \cup {0} : /\ Quietly(sock[k], Refused(k))
                                  /\ Refused(k)["C"].open = sock[k]["C"].open
                                  /\ Quietly(sock[k], sock[k])
    BY RefusedWords, QuietCalls DEF HandInv, Traffic
  <2>2. DOMAIN sock = Conns \cup {0}  BY DEF HandInv, Traffic
  <2>3. \A k \in Conns \cup {0} : /\ Quietly(sock[k], sock'[k])
                                  /\ sock'[k]["C"].open = sock[k]["C"].open
    BY <1>2, <2>1, <2>2
  <2> QED  BY <1>2, <2>2, <2>3 DEF Quietly
<1>5. backlog \in Seq(Conns)  BY DEF IInv, NetworkInv
<1>6. /\ Head(backlog) = backlog[1] /\ 1 \in DOMAIN backlog
      /\ DOMAIN Tail(backlog) = 1 .. Len(backlog) - 1
      /\ \A i \in 1 .. Len(backlog) - 1 : Tail(backlog)[i] = backlog[i + 1] /\ i + 1 \in DOMAIN backlog
  BY <1>3, <1>5, HeadTailProperties
<1>7. Made'
  <2>1. conns \in Nat  BY SocketsAssumption DEF IInv, NetworkInv
  <2>2. \A g \in Fds : fds'[g] \in {fds[g], Head(backlog)}  BY <1>1 DEF IInv, ServerInv, TablesInv
  <2>3. \A g \in Fds : fds'[g] \in 0 .. conns  BY <1>6, <2>1, <2>2 DEF HandInv, Made
  <2>4. \A i \in DOMAIN backlog' : backlog'[i] \in 1 .. conns  BY <1>3, <1>6 DEF HandInv, Made
  <2> QED  BY <1>3, <2>3, <2>4 DEF Made
<1>8. ASSUME NEW k \in Conns, forgotten = 0, Unasked(k) PROVE Unasked(k)'
  <2>1. \A s \in Threads : thread'[s].pc = "reply" /\ Conn(s)' = k => thread[s].pc = "reply" /\ Conn(s) = k
    <3> SUFFICES ASSUME NEW s \in Threads, thread'[s].pc = "reply", Conn(s)' = k
                 PROVE  thread[s].pc = "reply" /\ Conn(s) = k
      OBVIOUS
    <3>1. s # t /\ thread'[s] = thread[s] /\ thread[s].pc = "reply"  BY <1>1, <1>3
    <3>2. s \in Serving /\ Conn(s) # 0 /\ thread[s].fd \in Fds
      BY <1>8, <3>1 DEF Serving, IInv, ServerInv, OwnDescriptor, ThreadsInv
    <3>3. thread[s].fd # f  BY <1>1, <3>2 DEF Conn, ConnOf
    <3>4. Conn(s)' = Conn(s)  BY <1>1, <3>1, <3>2, <3>3 DEF Conn, ConnOf, IInv, ServerInv, TablesInv
    <3> QED  BY <3>1, <3>4
  <2>2. Quietly(sock[k], sock'[k])  BY <1>4, <1>8
  <2> QED  BY <1>8, <2>1, <2>2, StillUnasked DEF Quietly
<1>9. writes' \in Nat  BY <1>3 DEF HandInv, Traffic
<1>10. \A k \in Conns : sock'[k]["C"].open = sock[k]["C"].open  BY <1>4
<1> QED  BY <1>3, <1>4, <1>7, <1>8, <1>9, <1>10, ServerHand

\* write() brings clients no answer.
LEMMA WriteQuiet ==
  ASSUME IInv, HandInv, ServerWrite
  PROVE  /\ sock' \in [Conns \cup {0} -> ConnRecord]
         /\ \A k \in Conns \cup {0} : Quietly(sock[k], sock'[k]) /\ sock'[k]["C"].open = sock[k]["C"].open
<1> DEFINE Kept(ss) == \A k \in Conns \cup {0} : Quietly(sock[k], ss[k]) /\ ss[k]["C"].open = sock[k]["C"].open
           S == {ss \in [Conns \cup {0} -> ConnRecord] : Kept(ss)}
<1>1. sock \in S
  <2>1. \A k \in Conns \cup {0} : Quietly(sock[k], sock[k])  BY QuietCalls DEF HandInv, Traffic
  <2> QED  BY <2>1 DEF HandInv, Traffic
<1>2. writes \in Nat  BY DEF HandInv, Traffic
<1> HIDE DEF S
<1>3. PICK full \in Conns \cup {0} : \E f : Loop(f, client_cnt, full) /\ sock' = f[client_cnt]
  BY WriteLoops
<1>4. PICK f : Loop(f, client_cnt, full) /\ sock' = f[client_cnt]  BY <1>3
<1>5. /\ client_cnt \in Nat /\ writes' = writes + 1
      /\ UNCHANGED <<fds, backlog, conns, thread, forgotten>>
  BY WriteLoops
<1>6. ASSUME NEW ss \in S, NEW i \in Nat PROVE AfterEntry(ss, i, full) \in S
  <2> DEFINE k == ConnOf(client_fd[i])
             d == Written(ss[k], writes + 1, k = full)
  <2>1. k \in Conns \cup {0}  BY DEF ConnOf, IInv, ServerInv, TablesInv
  <2>2. ss \in [Conns \cup {0} -> ConnRecord] /\ Kept(ss)  BY <1>6 DEF S
  <2>3. ss[k] \in ConnRecord /\ "S" \in Ends /\ "C" \in Ends  BY <2>1, <2>2 DEF Ends
  <2>4. PICK x \in Words \ Special : d = Sent(ss[k], "S", <<x>>)
    <3>1. writes + 1 \in Nat  BY <1>2
    <3>2. /\ <<"packet", writes + 1>> \in Words \ Special
          /\ <<"torn", writes + 1>> \in Words \ Special
      BY <3>1, WordsAre
    <3> QED  BY <3>2 DEF Written
  <2>5. Quietly(ss[k], d) /\ d["C"].open = ss[k]["C"].open
    <3>1. Quietly(ss[k], Sent(ss[k], "S", <<x>>))  BY <2>3, QuietCalls
    <3>2. \A e \in Ends : Sent(ss[k], "S", <<x>>)[e].open = ss[k][e].open
      BY <2>3, SentWords
    <3> QED  BY <2>3, <2>4, <3>1, <3>2
  <2>6. AfterEntry(ss, i, full) = [ss EXCEPT ![k] = d] \/ AfterEntry(ss, i, full) = ss  BY DEF AfterEntry
  <2> HIDE DEF k, d
  <2>7. Quietly(sock[k], d) /\ d["C"].open = sock[k]["C"].open /\ d \in ConnRecord
    BY <2>1, <2>2, <2>5 DEF Quietly
  <2>8. [ss EXCEPT ![k] = d] \in S
    <3>1. [ss EXCEPT ![k] = d] \in [Conns \cup {0} -> ConnRecord]  BY <2>2, <2>7
    <3>2. Kept([ss EXCEPT ![k] = d])  BY <2>2, <2>7
    <3> QED  BY <3>1, <3>2 DEF S
  <2> QED  BY <1>6, <2>6, <2>8
<1>7. sock' \in S  BY <1>1, <1>4, <1>5, <1>6, LoopWithin
<1> QED  BY <1>7 DEF S

\* The calls of the owner, and accept() that gives up.
LEMMA OwnerHand ==
  ASSUME IInv, HandInv, UNCHANGED <<client, sends>>,
         ServerConnect \/ ServerConnectFails \/ ServerClose \/ ServerWrite \/ ServerRead \/ LingerEnds
  PROVE  HandInv'
<1> DEFINE Kept(ss) == \A k \in Conns \cup {0} : Quietly(sock[k], ss[k]) /\ ss[k]["C"].open = sock[k]["C"].open
           S == {ss \in [Conns \cup {0} -> ConnRecord] : Kept(ss)}
<1>1. sock \in S
  <2>1. \A k \in Conns \cup {0} : Quietly(sock[k], sock[k])  BY QuietCalls DEF HandInv, Traffic
  <2> QED  BY <2>1 DEF HandInv, Traffic
<1>2. ASSUME sock' \in S, conns' = conns, writes' \in Nat, forgotten' = 0 => forgotten = 0,
             \A f \in Fds : fds'[f] \in {fds[f], 0}, backlog' = backlog \/ backlog' = <<>>,
             \A s \in Threads : \/ thread'[s] = thread[s]
                                \/ thread[s].pc = "none" /\ thread'[s].pc = "accept"
      PROVE  HandInv'
  <2>1. Made'
    <3>1. conns \in Nat  BY SocketsAssumption DEF IInv, NetworkInv
    <3>2. \A i \in DOMAIN backlog' : backlog'[i] \in 1 .. conns  BY <1>2 DEF HandInv, Made
    <3> QED  BY <1>2, <3>1, <3>2 DEF HandInv, Made
  <2>2. ASSUME NEW k \in Conns, Unasked(k) PROVE Unasked(k)'
    <3>1. \A s \in Threads : thread'[s].pc = "reply" /\ Conn(s)' = k => thread[s].pc = "reply" /\ Conn(s) = k
      <4> SUFFICES ASSUME NEW s \in Threads, thread'[s].pc = "reply", Conn(s)' = k
                   PROVE  thread[s].pc = "reply" /\ Conn(s) = k
        OBVIOUS
      <4>1. thread'[s] = thread[s]  BY <1>2
      <4>2. Conn(s)' \in {Conn(s), 0}  BY <1>2, <4>1, ConnAfter
      <4> QED  BY <2>2, <4>1, <4>2 DEF Conns
    <3>2. Quietly(sock[k], sock'[k])  BY <1>2, <2>2
    <3> QED  BY <2>2, <3>1, <3>2, StillUnasked DEF Quietly
  <2>3. \A k \in Conns : sock'[k]["C"].open = sock[k]["C"].open  BY <1>2
  <2>4. sock' \in [Conns \cup {0} -> ConnRecord]  BY <1>2
  <2> HIDE DEF S, Kept
  <2> QED  BY <1>2, <2>1, <2>2, <2>3, <2>4, ServerHand
<1>3. writes \in Nat /\ forgotten \in Nat /\ client_cnt \in Nat
  BY ServerAssumption DEF HandInv, Traffic, IInv, ServerInv, TablesInv
<1>4. \A f \in Fds : fds[f] \in {fds[f], 0}  OBVIOUS
<1> HIDE DEF S
<1>5. CASE ServerConnect
  <2>1. /\ tid_cnt \in Threads /\ thread[tid_cnt].pc = "none" /\ thread'[tid_cnt].pc = "accept"
        /\ \A s \in Threads \ {tid_cnt} : thread'[s] = thread[s]
    <3>1. Spawn(thread) /\ thread \in [Threads -> ThreadRecord] /\ ThreadsInv
      BY <1>5 DEF ServerConnect, IInv, ServerInv, ThreadsInv
    <3>2. /\ tid_cnt \in Threads /\ thread[tid_cnt].pc = "none"
          /\ thread'[tid_cnt] = [pc |-> "accept", fd |-> 0, idx |-> -1]
          /\ \A s \in Threads \ {tid_cnt} : thread'[s] = thread[s]
      BY <3>1, Spawning
    <3> QED  BY <3>2
  <2>2. UNCHANGED <<fds, backlog, conns, sock, writes, forgotten>>  BY <1>5 DEF ServerConnect
  <2> QED  BY <1>1, <1>2, <1>3, <1>4, <2>1, <2>2
<1>6. CASE ServerConnectFails \/ ServerClose
  <2>1. CloseAll  BY <1>6 DEF ServerConnectFails, ServerClose
  <2>2. /\ UNCHANGED <<thread, conns, writes>> /\ forgotten' = forgotten + client_cnt
        /\ backlog' = backlog \/ backlog' = <<>>
    BY <2>1 DEF CloseAll
  <2>3. \A f \in Fds : fds'[f] \in {fds[f], 0}  BY <2>1 DEF CloseAll
  <2>4. PICK K, R : sock' = [k \in DOMAIN sock |-> IF k \in K THEN Closed(sock[k], "S")
                                                   ELSE IF k \in R THEN Refused(k) ELSE sock[k]]
    <3> DEFINE K == {ConnOf(f) : f \in {client_fd[i] : i \in 0 .. client_cnt - 1}}
               R == IF lingering' = 0 THEN Waiting ELSE {}
    <3>1. sock' = [k \in DOMAIN sock |-> IF k \in K THEN Closed(sock[k], "S")
                                         ELSE IF k \in R THEN Refused(k) ELSE sock[k]]
      BY <2>1 DEF CloseAll
    <3> HIDE DEF K, R
    <3> QED  BY <3>1
  <2>5. sock' \in S
    <3>1. DOMAIN sock = Conns \cup {0}  BY DEF HandInv, Traffic
    <3>2. \A k \in Conns \cup {0} : /\ Quietly(sock[k], Refused(k))
                                    /\ Refused(k)["C"].open = sock[k]["C"].open
      BY RefusedWords DEF HandInv
    <3>3. "S" \in Ends /\ Peer("S") = "C"  BY DEF Ends, Peer
    <3>4. ASSUME NEW k \in Conns \cup {0}
          PROVE  /\ Quietly(sock[k], Closed(sock[k], "S"))
                 /\ Closed(sock[k], "S")["C"].open = sock[k]["C"].open
                 /\ Quietly(sock[k], sock[k])
      <4>1. sock[k] \in ConnRecord  BY <3>4 DEF HandInv, Traffic
      <4>2. Quietly(sock[k], Closed(sock[k], "S")) /\ Quietly(sock[k], sock[k])
        BY <3>3, <4>1, QuietCalls
      <4>3. Closed(sock[k], "S")[Peer("S")].open = sock[k][Peer("S")].open
        BY <3>3, <4>1, ClosedWords
      <4> QED  BY <3>3, <4>2, <4>3
    <3>5. \A k \in Conns \cup {0} : Quietly(sock[k], sock'[k]) /\ sock'[k]["C"].open = sock[k]["C"].open
      BY <2>4, <3>1, <3>2, <3>4
    <3>6. sock' \in [Conns \cup {0} -> ConnRecord]  BY <2>4, <3>1, <3>5 DEF Quietly
    <3> QED  BY <3>5, <3>6 DEF S
  <2>6. forgotten' = 0 => forgotten = 0  BY <1>3, <2>2
  <2> QED  BY <1>2, <1>3, <2>2, <2>3, <2>5, <2>6
<1>7. CASE ServerWrite
  <2>1. client_cnt \in Nat /\ writes' = writes + 1 /\ UNCHANGED <<fds, backlog, conns, thread, forgotten>>
    BY <1>7, WriteLoops
  <2>2. sock' \in S  BY <1>7, WriteQuiet DEF S
  <2>3. writes' \in Nat  BY <1>3, <2>1
  <2> QED  BY <1>2, <1>4, <2>1, <2>2, <2>3
<1>8. CASE ServerRead
  <2>1. UNCHANGED <<fds, backlog, conns, sock, thread, writes, forgotten>>
    BY <1>8 DEF ServerRead, sockets, serverHistory
  <2> QED  BY <1>1, <1>2, <1>3, <1>4, <2>1
<1>9. CASE LingerEnds
  <2>1. UNCHANGED <<fds, conns, thread, writes, forgotten>> /\ (backlog' = backlog \/ backlog' = <<>>)
    BY <1>9 DEF LingerEnds, server, serverHistory
  <2>2. PICK R : sock' = [k \in DOMAIN sock |-> IF k \in R THEN Refused(k) ELSE sock[k]]
    <3> DEFINE R == IF LastWaits THEN Waiting ELSE {}
    <3>1. sock' = [k \in DOMAIN sock |-> IF k \in R THEN Refused(k) ELSE sock[k]]
      BY <1>9 DEF LingerEnds
    <3> HIDE DEF R
    <3> QED  BY <3>1
  <2>3. sock' \in S
    <3>1. DOMAIN sock = Conns \cup {0}  BY DEF HandInv, Traffic
    <3>2. \A k \in Conns \cup {0} : /\ Quietly(sock[k], Refused(k)) /\ Quietly(sock[k], sock[k])
                                    /\ Refused(k)["C"].open = sock[k]["C"].open
      BY RefusedWords, QuietCalls DEF HandInv, Traffic
    <3>3. \A k \in Conns \cup {0} : Quietly(sock[k], sock'[k]) /\ sock'[k]["C"].open = sock[k]["C"].open
      BY <2>2, <3>1, <3>2
    <3>4. sock' \in [Conns \cup {0} -> ConnRecord]  BY <2>2, <3>1, <3>3 DEF Quietly
    <3> QED  BY <3>3, <3>4 DEF S
  <2> QED  BY <1>2, <1>3, <1>4, <2>1, <2>3
<1> QED  BY <1>5, <1>6, <1>7, <1>8, <1>9

\* What a client may do with its end of connection k, which becomes that of d: take the
\* answer, skip what is none, read something else, close it, or leave what waits there
\* alone.
Takes(c, k, d) ==
    LET in == sock[k]["C"].in
    IN  \/ /\ client[c].pc = "answer" /\ in # <<>> /\ Head(in) = <<"answer">>
           /\ d["C"].open = sock[k]["C"].open /\ d["C"].in = Tail(in) /\ heard' = heard
           /\ client'[c].conn = k /\ client'[c].pc = "idle"
        \/ /\ client[c].pc = "answer" /\ in # <<>> /\ Head(in) # <<"answer">>
           /\ d["C"].open = sock[k]["C"].open /\ d["C"].in = Tail(in) /\ heard' = heard
           /\ client' = client
        \/ /\ client[c].pc # "answer" /\ in # <<>>
           /\ d["C"].open = sock[k]["C"].open /\ d["C"].in = Tail(in)
           /\ heard' = [heard EXCEPT ![k] = Append(@, Head(in))]
           /\ client'[c].conn = k
        \/ /\ ~d["C"].open /\ (d["C"].in = <<>> \/ d["C"].in = in) /\ heard' = heard
           /\ client'[c].conn = 0 /\ client'[c].pc = "idle"
        \/ /\ client[c].pc # "answer"
           /\ d["C"].open = sock[k]["C"].open /\ d["C"].in = in /\ heard' = heard
           /\ client'[c].conn = k

\* What the calls of a client behind connect() do to its connection.
LEMMA ClientTakes ==
  ASSUME IInv, HandInv, NEW c \in Nodes,
         ClientAnswer(c) \/ ClientRead(c) \/ ClientWrite(c) \/ ClientClose(c)
  PROVE  LET k == client[c].conn
         IN  /\ k \in Conns
             /\ \E d : Quietly(sock[k], d) /\ sock' = [sock EXCEPT ![k] = d] /\ Takes(c, k, d)
<1> DEFINE k == client[c].conn
           s == sock[k]
<1>1. client[c] \in ClientRecord(0 .. conns) /\ client \in [Nodes -> ClientRecord(0 .. conns)]
  BY DEF IInv, NetworkInv
<1>2. k # 0
  BY DEF HandInv, ClientsInv, ClientAnswer, InCall, ClientRead, ClientWrite, IsConnected, ClientClose
<1>3. k \in Conns
  <2>1. k \in 0 .. conns  BY <1>1 DEF ClientRecord
  <2>2. conns \in 0 .. MaxConns /\ MaxConns \in Nat  BY SocketsAssumption DEF IInv, NetworkInv
  <2> HIDE DEF k
  <2> QED  BY <1>2, <2>1, <2>2 DEF Conns
<1>4. s \in ConnRecord /\ s["C"] \in EndRecord /\ "C" \in Ends /\ "S" \in Ends /\ Peer("C") = "S"
  BY <1>3 DEF HandInv, Traffic, ConnRecord, Ends, Peer
<1>5. ASSUME NEW d, Quietly(s, d), d["C"].in = s["C"].in
      PROVE  LET x == Closed(d, "C")
             IN  Quietly(s, x) /\ ~x["C"].open /\ (x["C"].in = <<>> \/ x["C"].in = s["C"].in)
  <2>1. d \in ConnRecord  BY <1>5 DEF Quietly
  <2>2. Quietly(d, Closed(d, "C"))  BY <1>4, <2>1, QuietCalls
  <2>3. Closed(d, "C")["C"].in = <<>> \/ Closed(d, "C")["C"].in = d["C"].in
    BY <1>4, <2>1, ClosedWords
  <2>4. Quietly(s, Closed(d, "C"))  BY <1>5, <2>2 DEF Quietly
  <2>5. ~Closed(d, "C")["C"].open
    <3>1. Pair(d)  BY <2>1 DEF ConnRecord, EndRecord, Pair, EndFields
    <3> QED  BY <1>4, <3>1, ClosedEnds
  <2> QED  BY <1>5, <2>3, <2>4, <2>5
<1>6. /\ ClosedClient(c)[c].conn = 0 /\ ClosedClient(c)[c].pc = "idle"
      /\ \A b : /\ [ClosedClient(c) EXCEPT ![c].stream = b][c].conn = 0
                /\ [ClosedClient(c) EXCEPT ![c].stream = b][c].pc = "idle"
      /\ \A p : [client EXCEPT ![c].pc = p][c].conn = k
      /\ \A p, b : /\ [client EXCEPT ![c].pc = p, ![c].stream = b][c].conn = k
                   /\ [client EXCEPT ![c].pc = p, ![c].stream = b][c].pc = p
  BY <1>1 DEF ClosedClient, ClientRecord
<1>7. Quietly(s, s)  BY <1>4, QuietCalls
<1> DEFINE Goal == \E d : Quietly(s, d) /\ sock' = [sock EXCEPT ![k] = d] /\ Takes(c, k, d)
<1> SUFFICES Goal  BY <1>3
<1>8. ASSUME sock' = CloseSocket(sock, k), heard' = heard, client'[c].conn = 0, client'[c].pc = "idle"
      PROVE  Goal
  <2>1. sock' = [sock EXCEPT ![k] = Closed(s, "C")]  BY <1>8 DEF CloseSocket
  <2>2. Quietly(s, Closed(s, "C")) /\ Takes(c, k, Closed(s, "C"))  BY <1>5, <1>7, <1>8 DEF Takes
  <2> QED  BY <2>1, <2>2
<1>13. ASSUME NEW d, Quietly(s, d), sock' = [sock EXCEPT ![k] = d], Takes(c, k, d) PROVE Goal
  BY <1>13
<1> HIDE DEF Goal
<1>9. CASE ClientAnswer(c)
  <2>1. client[c].pc = "answer" /\ heard' = heard  BY <1>9 DEF ClientAnswer, InCall
  <2>2. CASE /\ Readable(s["C"]) = "data" /\ Head(s["C"].in) = <<"answer">>
             /\ sock' = [sock EXCEPT ![k]["C"].in = Tail(@)]
             /\ client' = [client EXCEPT ![c].pc = "idle", ![c].stream = TRUE]
    <3> DEFINE d == [s EXCEPT !["C"].in = Tail(@)]
    <3>1. s["C"].in # <<>>  BY <2>2 DEF Readable
    <3>2. sock' = [sock EXCEPT ![k] = d]  BY <2>2
    <3>3. Quietly(s, d)  BY <1>4, <3>1, QuietCalls
    <3>4. d["C"].open = s["C"].open /\ d["C"].in = Tail(s["C"].in)  BY <1>4 DEF ConnRecord, EndRecord
    <3>5. client'[c].conn = k /\ client'[c].pc = "idle"  BY <1>1, <2>2 DEF ClientRecord
    <3> HIDE DEF d
    <3>6. Takes(c, k, d)  BY <2>1, <2>2, <3>1, <3>4, <3>5 DEF Takes
    <3> QED  BY <1>13, <3>2, <3>3, <3>6
  <2>3. CASE sock' = CloseSocket(sock, k) /\ \E b \in BOOLEAN : client' = [ClosedClient(c) EXCEPT ![c].stream = b]
    BY <1>6, <1>8, <2>1, <2>3
  <2>5. CASE /\ Readable(s["C"]) = "data" /\ Head(s["C"].in) # <<"answer">>
             /\ \/ sock' = [sock EXCEPT ![k]["C"].in = Tail(@)] /\ client' = client
                \/ /\ sock' = CloseSocket([sock EXCEPT ![k]["C"].in = Tail(@)], k)
                   /\ client' = ClosedClient(c)
    <3> DEFINE d == [s EXCEPT !["C"].in = Tail(@)]
               skipped == [sock EXCEPT ![k]["C"].in = Tail(@)]
    <3>1. s["C"].in # <<>> /\ s["C"].open  BY <2>5 DEF Readable
    <3>2. skipped = [sock EXCEPT ![k] = d]  OBVIOUS
    <3>3. Quietly(s, d)  BY <1>4, <3>1, QuietCalls
    <3>4. d["C"].open = s["C"].open /\ d["C"].in = Tail(s["C"].in)  BY <1>4 DEF ConnRecord, EndRecord
    <3>5. DOMAIN sock = Conns \cup {0}  BY DEF HandInv, Traffic
    <3> HIDE DEF d
    <3>6. CASE sock' = skipped /\ client' = client
      <4>1. Takes(c, k, d)  BY <2>1, <2>5, <3>1, <3>4, <3>6 DEF Takes
      <4> QED  BY <1>13, <3>2, <3>3, <3>6, <4>1
    <3>7. CASE sock' = CloseSocket(skipped, k) /\ client' = ClosedClient(c)
      <4>1. sock' = [sock EXCEPT ![k] = Closed(d, "C")]
        BY <1>3, <3>2, <3>5, <3>7 DEF CloseSocket
      <4>2. d \in ConnRecord  BY <3>3 DEF Quietly
      <4>3. Quietly(d, Closed(d, "C"))  BY <1>4, <4>2, QuietCalls
      <4>4. Quietly(s, Closed(d, "C"))  BY <3>3, <4>3 DEF Quietly
      <4>5. Closed(d, "C")["C"] = Unused
        <5>1. d["C"].open  BY <3>1, <3>4
        <5>2. DOMAIN d = {"S", "C"} /\ "S" # "C"  BY <4>2 DEF ConnRecord, Ends
        <5> QED  BY <5>1, <5>2 DEF Closed, Peer
      <4>6. Unused.in = <<>> /\ ~Unused.open  BY DEF Unused
      <4>7. Takes(c, k, Closed(d, "C"))  BY <1>6, <2>1, <3>7, <4>5, <4>6 DEF Takes
      <4> QED  BY <1>13, <4>1, <4>4, <4>7
    <3> QED  BY <2>5, <3>6, <3>7
  <2>6. CASE sock' = CloseSocket(sock, k) /\ client' = ClosedClient(c)
    BY <1>6, <1>8, <2>1, <2>6
  <2>4. \/ /\ Readable(s["C"]) = "data" /\ Head(s["C"].in) = <<"answer">>
           /\ sock' = [sock EXCEPT ![k]["C"].in = Tail(@)]
           /\ client' = [client EXCEPT ![c].pc = "idle", ![c].stream = TRUE]
        \/ /\ Readable(s["C"]) = "data" /\ Head(s["C"].in) # <<"answer">>
           /\ \/ sock' = [sock EXCEPT ![k]["C"].in = Tail(@)] /\ client' = client
              \/ /\ sock' = CloseSocket([sock EXCEPT ![k]["C"].in = Tail(@)], k)
                 /\ client' = ClosedClient(c)
        \/ sock' = CloseSocket(sock, k) /\ client' = ClosedClient(c)
        \/ sock' = CloseSocket(sock, k) /\ \E b \in BOOLEAN : client' = [ClosedClient(c) EXCEPT ![c].stream = b]
    BY <1>9 DEF ClientAnswer, FirstToken
  <2> QED  BY <2>2, <2>3, <2>4, <2>5, <2>6
<1>10. CASE ClientRead(c)
  <2> DEFINE at == IF InCall(c, "idle") THEN "poll" ELSE "peek"
             d == [s EXCEPT !["C"] = ReadFrom(@, at)]
             read == [sock EXCEPT ![k]["C"] = ReadFrom(@, at)]
             result == AfterRead(s["C"], at)
  <2>1. /\ client[c].pc # "answer"
        /\ client' = IF result = "lost" THEN ClosedClient(c)
                     ELSE [client EXCEPT ![c].pc = IF result = "peek" THEN "peek" ELSE "idle"]
        /\ sock' = IF result = "lost" THEN CloseSocket(read, k) ELSE read
        /\ heard' = IF result = "data" THEN [heard EXCEPT ![k] = Append(@, Head(s["C"].in))] ELSE heard
    BY <1>10 DEF ClientRead
  <2>2. read = [sock EXCEPT ![k] = d]  OBVIOUS
  <2>3. Quietly(s, d)  BY <1>4, QuietCalls
  <2>4. /\ d["C"].open = s["C"].open
        /\ IF result = "data" THEN s["C"].in # <<>> /\ d["C"].in = Tail(s["C"].in)
           ELSE d["C"].in = s["C"].in
    <3> DEFINE end == ReadFrom(s["C"], at)
    <3>1. /\ end.open = s["C"].open
          /\ IF result = "data" THEN s["C"].in # <<>> /\ end.in = Tail(s["C"].in)
             ELSE end.in = s["C"].in
      BY <1>4, ReadWords
    <3>2. d["C"] = end  BY <1>4 DEF ConnRecord
    <3> HIDE DEF end, d, result
    <3> QED  BY <3>1, <3>2
  <2>5. DOMAIN sock = Conns \cup {0}  BY DEF HandInv, Traffic
  <2> HIDE DEF d, read, result
  <2>6. CASE result = "lost"
    <3>1. sock' = [sock EXCEPT ![k] = Closed(d, "C")]
      BY <1>3, <2>1, <2>2, <2>5, <2>6 DEF CloseSocket
    <3>2. Quietly(s, Closed(d, "C")) /\ Takes(c, k, Closed(d, "C"))
      BY <1>5, <1>6, <2>1, <2>3, <2>4, <2>6 DEF Takes
    <3> QED  BY <1>13, <3>1, <3>2
  <2>7. CASE result = "data"
    <3>1. Takes(c, k, d)  BY <1>6, <2>1, <2>4, <2>7 DEF Takes
    <3> QED  BY <1>13, <2>1, <2>2, <2>3, <2>7, <3>1
  <2>8. CASE result \notin {"lost", "data"}
    <3>1. Takes(c, k, d)  BY <1>6, <2>1, <2>4, <2>8 DEF Takes
    <3> QED  BY <1>13, <2>1, <2>2, <2>3, <2>8, <3>1
  <2> QED  BY <2>6, <2>7, <2>8
<1>11. CASE ClientWrite(c)
  <2>1. client[c].pc # "answer" /\ heard' = heard  BY <1>11 DEF ClientWrite, InCall
  <2>2. ASSUME NEW x \in Words \ Special
        PROVE  LET d == Sent(s, "C", <<x>>)
               IN  Quietly(s, d) /\ d["C"].open = s["C"].open /\ d["C"].in = s["C"].in
    <3>1. Quietly(s, Sent(s, "C", <<x>>))  BY <1>4, <2>2, QuietCalls
    <3>2. /\ \A e \in Ends : Sent(s, "C", <<x>>)[e].open = s[e].open
          /\ Sent(s, "C", <<x>>)["C"].in = s["C"].in
      BY <1>4, <2>2, SentWords
    <3> QED  BY <1>4, <3>1, <3>2
  <2>3. /\ <<"up", sends + 1>> \in Words \ Special
        /\ <<"cut", sends + 1>> \in Words \ Special
    <3>1. sends + 1 \in Nat  BY DEF HandInv, Traffic
    <3> QED  BY <3>1, WordsAre
  <2>4. CASE sock' = [sock EXCEPT ![k] = Sent(@, "C", << <<"up", sends + 1>> >>)] /\ client' = client
    <3> DEFINE d == Sent(s, "C", << <<"up", sends + 1>> >>)
    <3>1. sock' = [sock EXCEPT ![k] = d]  BY <2>4
    <3>2. Quietly(s, d) /\ d["C"].open = s["C"].open /\ d["C"].in = s["C"].in  BY <2>2, <2>3
    <3> HIDE DEF d
    <3>3. Takes(c, k, d)  BY <2>1, <2>4, <3>2 DEF Takes
    <3> QED  BY <1>13, <3>1, <3>2, <3>3
  <2>5. CASE /\ sock' = CloseSocket([sock EXCEPT ![k] = Sent(@, "C", << <<"cut", sends + 1>> >>)], k)
             /\ client' = ClosedClient(c)
    <3> DEFINE d == Sent(s, "C", << <<"cut", sends + 1>> >>)
    <3>1. Quietly(s, d) /\ d["C"].in = s["C"].in  BY <2>2, <2>3
    <3>2. sock' = CloseSocket([sock EXCEPT ![k] = d], k)  BY <2>5
    <3> HIDE DEF d
    <3>3. sock' = [sock EXCEPT ![k] = Closed(d, "C")]
      BY <1>3, <3>2 DEF CloseSocket, HandInv, Traffic
    <3>4. Quietly(s, Closed(d, "C")) /\ Takes(c, k, Closed(d, "C"))
      BY <1>5, <1>6, <2>1, <2>5, <3>1 DEF Takes
    <3> QED  BY <1>13, <3>3, <3>4
  <2>6. CASE sock' = CloseSocket(sock, k) /\ client' = ClosedClient(c)
    BY <1>6, <1>8, <2>1, <2>6
  <2>7. \/ sock' = [sock EXCEPT ![k] = Sent(@, "C", << <<"up", sends + 1>> >>)] /\ client' = client
        \/ /\ sock' = CloseSocket([sock EXCEPT ![k] = Sent(@, "C", << <<"cut", sends + 1>> >>)], k)
           /\ client' = ClosedClient(c)
        \/ sock' = CloseSocket(sock, k) /\ client' = ClosedClient(c)
    BY <1>11 DEF ClientWrite
  <2> QED  BY <2>4, <2>5, <2>6, <2>7
<1>12. CASE ClientClose(c)
  <2>1. sock' = CloseSocket(sock, k) /\ client' = ClosedClient(c) /\ heard' = heard
    BY <1>12 DEF ClientClose
  <2> QED  BY <1>6, <1>8, <2>1
<1> QED  BY <1>9, <1>10, <1>11, <1>12

\* What else these calls change, and what they do not.
LEMMA ClientStays ==
  ASSUME IInv, NEW c \in Nodes,
         ClientAnswer(c) \/ ClientRead(c) \/ ClientWrite(c) \/ ClientClose(c)
  PROVE  /\ \A b \in Nodes \ {c} : client'[b] = client[b]
         /\ client'[c].path = client[c].path
         /\ client'[c].pc = "answer" => client[c].pc = "answer"
         /\ UNCHANGED <<backlog, conns>>
         /\ sends' \in {sends, sends + 1}
<1>1. client[c] \in ClientRecord(0 .. conns) /\ client \in [Nodes -> ClientRecord(0 .. conns)]
  BY DEF IInv, NetworkInv
<1> DEFINE Stays(d) == (\A b \in Nodes \ {c} : d[b] = client[b]) /\ d[c].path = client[c].path
                     /\ (d[c].pc = "answer" => client[c].pc = "answer")
<1>2. /\ Stays(ClosedClient(c))
      /\ \A b : Stays([ClosedClient(c) EXCEPT ![c].stream = b])
      /\ \A p : p # "answer" => Stays([client EXCEPT ![c].pc = p])
      /\ \A b : Stays([client EXCEPT ![c].pc = "idle", ![c].stream = b])
      /\ Stays(client)
  BY <1>1 DEF ClosedClient, ClientRecord
<1> HIDE DEF Stays
<1>3. UNCHANGED <<backlog, conns>> /\ sends' \in {sends, sends + 1}
  BY DEF ClientAnswer, ClientRead, ClientWrite, ClientClose
<1>4. Stays(client')
  <2>1. CASE ClientAnswer(c)  BY <1>2, <2>1 DEF ClientAnswer
  <2>2. CASE ClientRead(c)
    <3>1. client' = ClosedClient(c) \/ \E p \in {"peek", "idle"} : client' = [client EXCEPT ![c].pc = p]
      BY <2>2 DEF ClientRead
    <3> QED  BY <1>2, <3>1
  <2>3. CASE ClientWrite(c)
    <3>1. client[c].pc = "idle" /\ (client' = client \/ client' = ClosedClient(c))
      BY <2>3 DEF ClientWrite, InCall
    <3> QED  BY <1>2, <3>1
  <2>4. CASE ClientClose(c)  BY <1>2, <2>4 DEF ClientClose
  <2> QED  BY <2>1, <2>2, <2>3, <2>4
<1> QED  BY <1>3, <1>4 DEF Stays

\* They keep what is known of clients that were not answered.
LEMMA CallHand ==
  ASSUME IInv, HandInv, NEW c \in Nodes, UNCHANGED <<server, serverHistory>>,
         ClientAnswer(c) \/ ClientRead(c) \/ ClientWrite(c) \/ ClientClose(c)
  PROVE  HandInv'
<1> DEFINE k == client[c].conn
<1>1. k \in Conns /\ \E d : Quietly(sock[k], d) /\ sock' = [sock EXCEPT ![k] = d] /\ Takes(c, k, d)
  BY ClientTakes
<1>2. PICK d : Quietly(sock[k], d) /\ sock' = [sock EXCEPT ![k] = d] /\ Takes(c, k, d)  BY <1>1
<1>3. /\ \A b \in Nodes \ {c} : client'[b] = client[b]
      /\ client'[c].path = client[c].path
      /\ UNCHANGED <<backlog, conns>>
      /\ sends' \in {sends, sends + 1}
  BY ClientStays
<1>4. UNCHANGED <<fds, thread, forgotten, writes>>  BY DEF server, serverHistory
<1>5. /\ sock' \in [Conns \cup {0} -> ConnRecord] /\ sock'[k] = d
      /\ \A j \in Conns \cup {0} : Quietly(sock[j], sock'[j]) /\ (j # k => sock'[j] = sock[j])
  BY <1>1, <1>2, OneQuiet DEF HandInv
<1>6. Traffic' /\ Made'  BY <1>3, <1>4, <1>5 DEF HandInv, Traffic, Made
<1>7. k # 0 /\ k \in Conns  BY <1>1 DEF Conns
<1>8. \A b \in Nodes : client[b].conn # 0 => client[b].conn \in Conns
  <2>1. \A b \in Nodes : client[b].conn \in 0 .. conns  BY DEF IInv, NetworkInv, ClientRecord
  <2>2. conns \in 0 .. MaxConns /\ MaxConns \in Nat  BY SocketsAssumption DEF IInv, NetworkInv
  <2> QED  BY <2>1, <2>2 DEF Conns
<1>9. sock[k]["C"].open /\ \A b \in Nodes \ {c} : client[b].conn # k
  BY <1>7 DEF HandInv, ClientsInv
<1>10. /\ client'[c].conn # 0 => client'[c].conn = k /\ d["C"].open
       /\ client'[c].pc # "idle" => client'[c].conn = k
       /\ client'[c].conn # 0 /\ client[c].pc = "answer" /\ client'[c].pc # "answer" =>
             Carries(sock[k]["C"].in, <<"answer">>)
  <2>1. sock[k]["C"].in \in Seq(Words) /\ <<"answer">> \in Words
    BY <1>7 DEF HandInv, Traffic, ConnRecord, EndRecord, Ends, Words
  <2>2. sock[k]["C"].in # <<>> => Carries(sock[k]["C"].in, Head(sock[k]["C"].in))
    BY <2>1, CarriesAfter
  <2>3. client' = client /\ client[c].pc = "answer" => client'[c].conn = k /\ client'[c].pc = "answer"
    OBVIOUS
  <2> HIDE DEF k
  <2> QED  BY <1>2, <1>7, <1>9, <2>2, <2>3 DEF Takes
<1> HIDE DEF k
<1>11. ClientsInv'
  <2>1. \A b \in Nodes : client'[b].conn # 0 => sock'[client'[b].conn]["C"].open
    BY <1>3, <1>5, <1>8, <1>9, <1>10 DEF HandInv, ClientsInv
  <2>2. \A a, b \in Nodes : a # b /\ client'[a].conn # 0 => client'[a].conn # client'[b].conn
    BY <1>3, <1>7, <1>9, <1>10 DEF HandInv, ClientsInv
  <2>3. \A b \in Nodes : client'[b].pc # "idle" => client'[b].conn # 0
    BY <1>3, <1>7, <1>10 DEF HandInv, ClientsInv
  <2> QED  BY <2>1, <2>2, <2>3 DEF ClientsInv
<1>12. ASSUME forgotten' = 0 PROVE UnansweredInv'
  <2>1. UnansweredInv  BY <1>4, <1>12 DEF HandInv
  <2>2. ASSUME NEW j \in Conns, Unasked(j) PROVE Unasked(j)'
    <3>1. \A t \in Threads : Conn(t)' = Conn(t)  BY <1>4 DEF Conn, ConnOf
    <3>2. Quietly(sock[j], sock'[j])  BY <1>5, <2>2
    <3> QED  BY <1>4, <2>2, <3>1, <3>2, StillUnasked DEF Quietly
  <2>3. ASSUME NEW b \in Nodes, client'[b].conn # 0, Stranger(client'[b].path)
        PROVE  Unasked(client[b].conn)' /\ (client'[b].path # <<>> => client'[b].pc = "answer")
    <3>1. client'[b].conn = client[b].conn /\ client[b].conn # 0 /\ client[b].path = client'[b].path
      BY <1>3, <1>7, <1>10, <2>3 DEF k
    <3>2. Unasked(client[b].conn) /\ (client[b].path # <<>> => client[b].pc = "answer")
      BY <2>1, <2>3, <3>1 DEF UnansweredInv
    <3>3. PICK j \in Conns : j = client[b].conn  BY <1>8, <3>1
    <3>4. Unasked(j)'  BY <2>2, <3>2, <3>3
    <3>5. client'[b].conn = j  BY <3>1, <3>3
    <3>6. Unasked(client[b].conn)'  BY <3>4, <3>5 DEF Unasked
    <3>7. client'[b].path # <<>> => client'[b].pc = "answer"
      <4>1. CASE b # c  BY <1>3, <3>2, <4>1
      <4>2. CASE b = c
        <5>1. j = k  BY <3>3, <4>2 DEF k
        <5>2. ~Carries(sock[k]["C"].in, <<"answer">>)  BY <3>2, <3>3, <5>1 DEF Unasked
        <5>3. client[c].pc # "answer" \/ client'[c].pc = "answer"  BY <1>10, <2>3, <4>2, <5>2
        <5> QED  BY <3>1, <3>2, <4>2, <5>3
      <4> QED  BY <4>1, <4>2
    <3> QED  BY <3>6, <3>7
  <2> QED  BY <2>3 DEF UnansweredInv
<1> QED  BY <1>6, <1>11, <1>12 DEF HandInv

\* connect() with nobody there.
LEMMA FailsHand ==
  ASSUME IInv, HandInv, NEW c \in Nodes, ClientConnectFails(c), UNCHANGED <<server, serverHistory>>
  PROVE  HandInv'
<1>1. /\ client[c].pc = "idle" /\ client' = [client EXCEPT ![c].conn = 0]
      /\ UNCHANGED <<sends, heard>> /\ UNCHANGED sockets
  BY DEF ClientConnectFails, InCall
<1>2. client \in [Nodes -> ClientRecord(0 .. conns)]  BY DEF IInv, NetworkInv
<1>3. /\ client'[c].conn = 0 /\ client'[c].pc = "idle"
      /\ \A b \in Nodes \ {c} : client'[b] = client[b]
  BY <1>1, <1>2 DEF ClientRecord
<1>4. UNCHANGED <<fds, thread, forgotten, writes>> /\ UNCHANGED <<sock, conns, backlog, sends>>
  BY <1>1 DEF server, serverHistory, sockets
<1>5. Traffic' /\ Made'  BY <1>4 DEF HandInv, Traffic, Made
<1>6. ClientsInv'  BY <1>3, <1>4 DEF HandInv, ClientsInv
<1>7. forgotten' = 0 => UnansweredInv'
  <2>1. \A t \in Threads : Conn(t)' = Conn(t)  BY <1>4 DEF Conn, ConnOf
  <2>2. \A j : Unasked(j) => Unasked(j)'
    <3> SUFFICES ASSUME NEW j, Unasked(j) PROVE Unasked(j)'  OBVIOUS
    <3> QED  BY <1>4, <2>1 DEF Unasked
  <2> SUFFICES ASSUME forgotten' = 0, NEW b \in Nodes, client'[b].conn # 0, Stranger(client'[b].path)
               PROVE  Unasked(client[b].conn)' /\ (client'[b].path # <<>> => client'[b].pc = "answer")
    BY DEF UnansweredInv
  <2>3. b # c /\ client'[b] = client[b]  BY <1>3
  <2>4. Unasked(client[b].conn) /\ (client[b].path # <<>> => client[b].pc = "answer")
    BY <1>4, <2>3 DEF HandInv, UnansweredInv
  <2>5. PICK j : j = client[b].conn  OBVIOUS
  <2>6. Unasked(j)' /\ client'[b].conn = j  BY <2>2, <2>3, <2>4, <2>5
  <2>7. Unasked(client[b].conn)'  BY <2>6 DEF Unasked
  <2> QED  BY <2>3, <2>4, <2>7
<1> QED  BY <1>5, <1>6, <1>7 DEF HandInv

\* connect(): only a client whose path begins with that of the server asks for it.
LEMMA ConnectHand ==
  ASSUME IInv, HandInv, NEW c \in Nodes, NEW path \in PathsOf[c], ClientConnect(c, path),
         UNCHANGED <<server, serverHistory>>
  PROVE  HandInv'
<1> DEFINE k == conns + 1
           up == [e \in Ends |-> Opened]
           d == IF path = <<>> THEN up ELSE Sent(up, "C", Request(path))
<1>1. /\ conns' = k /\ conns < MaxConns /\ backlog' = Append(backlog, k)
      /\ sock' = [sock EXCEPT ![k] = d] /\ sends' = sends
      /\ client' = [client EXCEPT ![c].pc = IF path = <<>> THEN "idle" ELSE "answer",
                                  ![c].conn = k, ![c].path = path]
  BY DEF ClientConnect
<1>2. path \in ClientPaths  BY ClientAssumption DEF ClientPaths
<1>3. d \in ConnRecord /\ d["C"].open /\ d["C"].in = <<>> /\ (Stranger(path) => ~Asks(d["S"].in))
  <2>1. "C" \in Ends /\ "S" \in Ends /\ Peer("C") = "S" /\ "C" # "S"  BY DEF Ends, Peer
  <2>2. up \in ConnRecord /\ \A e \in Ends : up[e].open /\ up[e].in = <<>>
    BY EndsMade DEF ConnRecord
  <2>3. ~Asks(<<>>) /\ <<>> \in Seq(Words)  BY DEF Asks, Carries
  <2>4. CASE path = <<>>  BY <2>1, <2>2, <2>3, <2>4
  <2>5. CASE path # <<>>
    <3>0. path \in Seq(Chars)  BY <1>2 DEF ClientPaths
    <3>9. Stranger(path) => <<"get", path>> \notin Special  BY <2>5, <3>0, WordsAre DEF Stranger
    <3>10. Request(path) = << <<"get", path>> >>  BY DEF Request
    <3>11. <<"get", path>> \in Words  BY <3>0 DEF Words
    <3>1. PICK x \in Words : Request(path) = <<x>> /\ (Stranger(path) => x \notin Requests)
      BY <3>9, <3>10, <3>11 DEF Special
    <3>2. d = Sent(up, "C", <<x>>)  BY <2>5, <3>1
    <3> HIDE DEF up, d
    <3>3. /\ d \in ConnRecord /\ \A f \in Ends : d[f].open = up[f].open
          /\ d["C"].in = up["C"].in
          /\ d["S"].in = Append(up["S"].in, x) \/ d["S"].in = up["S"].in
      <4>1. /\ Sent(up, "C", <<x>>) \in ConnRecord
            /\ \A f \in Ends : Sent(up, "C", <<x>>)[f].open = up[f].open
            /\ Sent(up, "C", <<x>>)["C"].in = up["C"].in
        BY <2>1, <2>2, SentWords
      <4>2. \/ Sent(up, "C", <<x>>)[Peer("C")].in = Append(up[Peer("C")].in, x)
            \/ Sent(up, "C", <<x>>)[Peer("C")].in = up[Peer("C")].in
        <5> DEFINE y == Sent(up, "C", <<x>>)[Peer("C")].in
                   z == up[Peer("C")].in
                   b == SendOk(up, "C") /\ up[Peer("C")].open
        <5>1. y = IF b THEN Append(z, x) ELSE z  BY <2>1, <2>2, SentWords
        <5> HIDE DEF y, z, b
        <5>2. y = Append(z, x) \/ y = z  BY <5>1
        <5> QED  BY <5>2 DEF y, z
      <4> QED  BY <2>1, <3>2, <4>1, <4>2
    <3>4. \A word : Carries(Append(up["S"].in, x), word) => Carries(<<>>, word) \/ word = x
      BY <2>1, <2>2, <2>3, CarriesAfter
    <3>5. Asks(Append(up["S"].in, x)) => x \in Requests  BY <2>3, <3>4 DEF Asks
    <3> QED  BY <2>1, <2>2, <2>3, <3>1, <3>3, <3>5
  <2> QED  BY <2>4, <2>5
<1> HIDE DEF d
<1>4. conns \in 0 .. MaxConns /\ MaxConns \in Nat /\ backlog \in Seq(Conns)
  BY SocketsAssumption DEF IInv, NetworkInv
<1>16. conns < MaxConns /\ conns' = conns + 1 /\ backlog' = Append(backlog, conns + 1)  BY <1>1
<1>5. k \in Conns  BY <1>4, <1>16 DEF Conns
<1>6. UNCHANGED <<thread, fds, forgotten, writes>>  BY DEF server, serverHistory
<1>7. sock' \in [Conns \cup {0} -> ConnRecord] /\ sock'[k] = d /\ \A j \in (Conns \cup {0}) \ {k} : sock'[j] = sock[j]
  BY <1>1, <1>3, <1>5 DEF HandInv, Traffic
<1>8. Traffic'  BY <1>1, <1>6, <1>7 DEF HandInv, Traffic
<1>9. Made'
  <2>1. \A f \in Fds : fds'[f] \in 0 .. conns'  BY <1>4, <1>6, <1>16 DEF HandInv, Made
  <2>2. \A i \in DOMAIN backlog' : backlog'[i] = k \/ (i \in DOMAIN backlog /\ backlog'[i] = backlog[i])
    BY <1>4, <1>5, <1>16
  <2>3. \A i \in DOMAIN backlog' : backlog'[i] \in 1 .. conns'
    <3>1. k \in 1 .. conns' /\ \A i \in 1 .. conns : i \in 1 .. conns'  BY <1>4, <1>16
    <3> HIDE DEF k
    <3> QED  BY <2>2, <3>1 DEF HandInv, Made
  <2> QED  BY <2>1, <2>3 DEF Made
<1>10. \A b \in Nodes : client[b].conn \in 0 .. conns /\ client[b].conn # k /\ (client[b].conn # 0 => client[b].conn \in Conns)
  <2>1. \A b \in Nodes : client[b].conn \in 0 .. conns  BY DEF IInv, NetworkInv, ClientRecord
  <2> QED  BY <1>4, <2>1 DEF Conns
<1>11. /\ client'[c].conn = k /\ client'[c].path = path /\ client'[c].pc = IF path = <<>> THEN "idle" ELSE "answer"
       /\ \A b \in Nodes \ {c} : client'[b] = client[b]
  <2>1. client[c] \in ClientRecord(0 .. conns) /\ client \in [Nodes -> ClientRecord(0 .. conns)]
    BY DEF IInv, NetworkInv
  <2> HIDE DEF k
  <2> QED  BY <1>1, <2>1 DEF ClientRecord
<1>12. \A t \in Threads : Conn(t)' = Conn(t) /\ Conn(t) # k
  <2>1. \A t \in Threads : Conn(t) \in 0 .. conns  BY <1>4 DEF HandInv, Made, Conn, ConnOf
  <2>2. \A t \in Threads : Conn(t)' = Conn(t)  BY <1>6 DEF Conn, ConnOf
  <2> QED  BY <1>4, <2>1, <2>2
<1>13. k # 0  BY <1>4
<1> HIDE DEF k
<1>14. ClientsInv'
  <2>1. \A b \in Nodes : client'[b].conn # 0 => sock'[client'[b].conn]["C"].open
    <3>1. ASSUME NEW b \in Nodes \ {c}, client[b].conn # 0 PROVE sock'[client[b].conn]["C"].open
      <4>1. client[b].conn \in (Conns \cup {0}) \ {k}  BY <1>10, <3>1
      <4>2. sock'[client[b].conn] = sock[client[b].conn]  BY <1>7, <4>1
      <4> QED  BY <3>1, <4>2 DEF HandInv, ClientsInv
    <3>2. sock'[k]["C"].open  BY <1>3, <1>7
    <3> QED  BY <1>11, <3>1, <3>2
  <2>2. \A a, b \in Nodes : a # b /\ client'[a].conn # 0 => client'[a].conn # client'[b].conn
    BY <1>10, <1>11 DEF HandInv, ClientsInv
  <2>3. \A b \in Nodes : client'[b].pc # "idle" => client'[b].conn # 0
    BY <1>11, <1>13 DEF HandInv, ClientsInv
  <2> QED  BY <2>1, <2>2, <2>3 DEF ClientsInv
<1>15. ASSUME forgotten' = 0 PROVE UnansweredInv'
  <2>1. UnansweredInv  BY <1>6, <1>15 DEF HandInv
  <2>2. ASSUME NEW j \in Conns \ {k}, Unasked(j) PROVE Unasked(j)'
    BY <1>6, <1>7, <1>12, <2>2 DEF Unasked
  <2>3. ASSUME NEW b \in Nodes \ {c}, client'[b].conn # 0, Stranger(client'[b].path)
        PROVE  Unasked(client[b].conn)' /\ (client'[b].path # <<>> => client'[b].pc = "answer")
    <3>1. client'[b] = client[b]  BY <1>11
    <3>2. Unasked(client[b].conn) /\ (client[b].path # <<>> => client[b].pc = "answer")
      BY <2>1, <2>3, <3>1 DEF UnansweredInv
    <3>3. PICK j \in Conns \ {k} : j = client[b].conn  BY <1>10, <2>3, <3>1
    <3>4. Unasked(j)' /\ client'[b].conn = j  BY <2>2, <3>1, <3>2, <3>3
    <3>5. Unasked(client[b].conn)'  BY <3>4 DEF Unasked
    <3> QED  BY <3>1, <3>2, <3>5
  <2>4. ASSUME Stranger(path)
        PROVE  Unasked(client[c].conn)' /\ (client'[c].path # <<>> => client'[c].pc = "answer")
    <3>1. ~Asks(sock'[k]["S"].in) /\ ~Carries(sock'[k]["C"].in, <<"answer">>)
      BY <1>3, <1>7, <2>4 DEF Carries
    <3>2. \A t \in Threads : Conn(t)' # k  BY <1>12
    <3>3. Unasked(client[c].conn)'  BY <1>11, <3>1, <3>2 DEF Unasked
    <3> QED  BY <1>11, <3>3
  <2> QED  BY <1>11, <2>3, <2>4 DEF UnansweredInv
<1> QED  BY <1>8, <1>9, <1>14, <1>15 DEF HandInv

\* A connection that breaks brings no answer.
LEMMA BreakHand ==
  ASSUME IInv, HandInv, NEW k \in Conns, Break(k), UNCHANGED <<server, serverHistory, clients>>
  PROVE  HandInv'
<1> DEFINE d == [e \in Ends |-> IF sock[k][e].open THEN Reset(sock[k][e]) ELSE sock[k][e]]
<1>1. /\ UNCHANGED <<client, conns, backlog, sends, fds, thread, writes, forgotten>>
      /\ sock' = [sock EXCEPT ![k] = d]
  BY DEF Break, server, serverHistory, clients, HandInv, Traffic
<1>2. sock[k] \in ConnRecord /\ "C" \in Ends  BY DEF HandInv, Traffic, Ends
<1>3. Quietly(sock[k], d)  BY <1>2, QuietCalls
<1>4. d["C"].open = sock[k]["C"].open  BY <1>2, EndsMade DEF ConnRecord
<1> HIDE DEF d
<1>5. /\ sock' \in [Conns \cup {0} -> ConnRecord] /\ sock'[k] = d
      /\ \A j \in Conns \cup {0} : Quietly(sock[j], sock'[j]) /\ (j # k => sock'[j] = sock[j])
  BY <1>1, <1>3, OneQuiet DEF HandInv
<1>6. \A j \in Conns : sock'[j]["C"].open = sock[j]["C"].open  BY <1>4, <1>5
<1>7. Made' /\ writes' \in Nat  BY <1>1 DEF HandInv, Made, Traffic
<1>8. ASSUME NEW j \in Conns, Unasked(j) PROVE Unasked(j)'
  <2>1. \A t \in Threads : Conn(t)' = Conn(t)  BY <1>1 DEF Conn, ConnOf
  <2>2. Quietly(sock[j], sock'[j])  BY <1>5, <1>8
  <2> QED  BY <1>1, <1>8, <2>1, <2>2, StillUnasked DEF Quietly
<1> QED  BY <1>1, <1>5, <1>6, <1>7, <1>8, ServerHand

\* Every step keeps what is known of the handshake.
LEMMA HandNext == IInv /\ HandInv /\ [Next]_vars => HandInv'
<1> SUFFICES ASSUME IInv, HandInv, [Next]_vars PROVE HandInv'  OBVIOUS
<1>1. CASE ServerNext /\ UNCHANGED clients
  <2>1. UNCHANGED <<client, sends>>  BY <1>1 DEF clients
  <2>2. ASSUME NEW t \in Threads, RunAccept(t) \/ RunStep(t) PROVE HandInv'
    BY <2>1, <2>2, RunHand, AcceptHand
  <2> QED  BY <1>1, <2>1, <2>2, OwnerHand DEF ServerNext
<1>2. CASE ClientNext /\ UNCHANGED <<server, serverHistory>>
  <2>1. PICK c \in Nodes : \/ \E path \in PathsOf[c] : ClientConnect(c, path)
                           \/ ClientConnectFails(c)
                           \/ ClientAnswer(c) \/ ClientRead(c) \/ ClientWrite(c) \/ ClientClose(c)
    BY <1>2 DEF ClientNext, ClientStep
  <2> QED  BY <1>2, <2>1, ConnectHand, FailsHand, CallHand
<1>3. CASE \E k \in Conns : Break(k) /\ UNCHANGED <<server, serverHistory, clients>>
  BY <1>3, BreakHand
<1>4. CASE UNCHANGED vars
  <2>1. /\ UNCHANGED <<client, conns, backlog, sends, fds, thread, writes, forgotten, sock>>
    BY <1>4 DEF vars, sockets, server, serverHistory, clients
  <2>2. Traffic' /\ Made' /\ ClientsInv'  BY <2>1 DEF HandInv, Traffic, Made, ClientsInv
  <2>3. UnansweredInv' <=> UnansweredInv
    <3>1. \A t \in Threads : Conn(t)' = Conn(t)  BY <2>1 DEF Conn, ConnOf
    <3> QED  BY <2>1, <3>1 DEF UnansweredInv, Unasked
  <2> QED  BY <2>1, <2>2, <2>3 DEF HandInv
<1> QED  BY <1>1, <1>2, <1>3, <1>4 DEF Next

\* It holds from the beginning.
LEMMA HandInvariance == Spec => []HandInv
<1>1. Init => HandInv
  <2> SUFFICES ASSUME Init PROVE HandInv  OBVIOUS
  <2>1. /\ sock = [k \in Conns \cup {0} |-> [e \in Ends |-> Unused]]
        /\ writes = 0 /\ sends = 0 /\ conns = 0 /\ backlog = <<>>
        /\ \A f \in Fds : fds[f] = 0
        /\ \A c \in Nodes : client[c] \in Disconnected
    BY DEF Init, SocketsInit, ServerInit, ClientInit
  <2>2. [e \in Ends |-> Unused] \in ConnRecord  BY EndsMade DEF ConnRecord
  <2>3. Traffic /\ Made  BY <2>1, <2>2 DEF Traffic, Made
  <2>4. \A c \in Nodes : client[c].conn = 0 /\ client[c].pc = "idle"
    <3>1. \A x \in Disconnected : x.conn = 0 /\ x.pc = "idle"  BY DEF Disconnected
    <3> QED  BY <2>1, <3>1
  <2>5. ClientsInv /\ UnansweredInv  BY <2>4 DEF ClientsInv, UnansweredInv
  <2> QED  BY <2>3, <2>5 DEF HandInv
<1> QED  BY <1>1, HandNext, Invariance, PTL DEF Spec

-----------------------------------------------------------------------------
(* Clients that were answered                                              *)

\* The ends of the clients, and what waits there, are not touched.
Deaf == \A k \in Conns : /\ sock'[k]["C"].in = sock[k]["C"].in
                         /\ sock'[k]["C"].open = sock[k]["C"].open

\* A connection that somebody accepted, but did not write to.
LEMMA ServerDeaf ==
  ASSUME IInv, HandInv, ServerNext, ~ServerWrite, \A t \in Threads : ~RunReply(t)
  PROVE  Deaf
<1>1. DOMAIN sock = Conns \cup {0} /\ \A k \in Conns \cup {0} : sock[k] \in ConnRecord
  BY DEF HandInv, Traffic
<1>2. "C" \in Ends /\ "S" \in Ends /\ Peer("S") = "C" /\ "S" # "C"  BY DEF Ends, Peer
<1>3. \A k \in Conns \cup {0} : /\ Refused(k)["C"].in = sock[k]["C"].in
                                /\ Refused(k)["C"].open = sock[k]["C"].open
                                /\ Closed(sock[k], "S")["C"].in = sock[k]["C"].in
                                /\ Closed(sock[k], "S")["C"].open = sock[k]["C"].open
  <2> SUFFICES ASSUME NEW k \in Conns \cup {0}
               PROVE  /\ Refused(k)["C"].in = sock[k]["C"].in
                      /\ Refused(k)["C"].open = sock[k]["C"].open
                      /\ Closed(sock[k], "S")["C"].in = sock[k]["C"].in
                      /\ Closed(sock[k], "S")["C"].open = sock[k]["C"].open
    OBVIOUS
  <2>1. Refused(k)["C"] = Reset(sock[k]["C"]) /\ sock[k]["C"] \in EndRecord
    BY <1>1, <1>2 DEF ConnRecord, Refused
  <2>2. /\ Closed(sock[k], "S")[Peer("S")].in = sock[k][Peer("S")].in
        /\ Closed(sock[k], "S")[Peer("S")].open = sock[k][Peer("S")].open
    BY <1>1, <1>2, ClosedWords
  <2> QED  BY <1>2, <2>1, <2>2, EndsMade
<1>4. CASE UNCHANGED sock  BY <1>4 DEF Deaf
<1>5. CASE ServerConnect \/ ServerRead  BY <1>4, <1>5 DEF ServerConnect, ServerRead, sockets
<1>6. CASE ServerConnectFails \/ ServerClose
  <2>1. CloseAll  BY <1>6 DEF ServerConnectFails, ServerClose
  <2>2. PICK K, R : sock' = [k \in DOMAIN sock |-> IF k \in K THEN Closed(sock[k], "S")
                                                   ELSE IF k \in R THEN Refused(k) ELSE sock[k]]
    <3> DEFINE K == {ConnOf(f) : f \in {client_fd[i] : i \in 0 .. client_cnt - 1}}
               R == IF lingering' = 0 THEN Waiting ELSE {}
    <3>1. sock' = [k \in DOMAIN sock |-> IF k \in K THEN Closed(sock[k], "S")
                                         ELSE IF k \in R THEN Refused(k) ELSE sock[k]]
      BY <2>1 DEF CloseAll
    <3> HIDE DEF K, R
    <3> QED  BY <3>1
  <2> QED  BY <1>1, <1>3, <2>2 DEF Deaf
<1>7. ASSUME NEW t \in Threads, RunAccept(t) PROVE Deaf
  <2>1. PICK R \in SUBSET (Waiting \ {Head(backlog)}) :
          sock' = [k \in DOMAIN sock |-> IF k \in R THEN Refused(k) ELSE sock[k]]
    BY <1>7, AcceptMoves
  <2> QED  BY <1>1, <1>3, <2>1 DEF Deaf
<1>9. CASE LingerEnds
  <2>1. PICK R : sock' = [k \in DOMAIN sock |-> IF k \in R THEN Refused(k) ELSE sock[k]]
    <3> DEFINE R == IF LastWaits THEN Waiting ELSE {}
    <3>1. sock' = [k \in DOMAIN sock |-> IF k \in R THEN Refused(k) ELSE sock[k]]
      BY <1>9 DEF LingerEnds
    <3> HIDE DEF R
    <3> QED  BY <3>1
  <2> QED  BY <1>1, <1>3, <2>1 DEF Deaf
<1>8. ASSUME NEW t \in Threads, RunStep(t) PROVE Deaf
  <2> DEFINE k == Conn(t)
  <2>1. k \in Conns \cup {0}  BY DEF Conn, ConnOf, IInv, ServerInv, TablesInv
  <2>2. ASSUME NEW d, sock' = [sock EXCEPT ![k] = d], d["C"].in = sock[k]["C"].in, d["C"].open = sock[k]["C"].open
        PROVE  Deaf
    BY <1>1, <2>1, <2>2 DEF Deaf
  <2>3. ASSUME NEW end, sock' = [sock EXCEPT ![k]["S"] = end] PROVE Deaf
    BY <1>1, <1>2, <2>1, <2>3 DEF Deaf, ConnRecord
  <2>4. CASE RunRequest(t)
    <3>1. sock' = sock \/ sock' = [sock EXCEPT ![k]["S"].in = Tail(@)]  BY <2>4 DEF RunRequest
    <3>2. ASSUME sock' = [sock EXCEPT ![k]["S"].in = Tail(@)] PROVE Deaf
      <4>1. sock' = [sock EXCEPT ![k]["S"] = [sock[k]["S"] EXCEPT !.in = Tail(@)]]  BY <3>2
      <4> QED  BY <2>3, <4>1
    <3> QED  BY <1>4, <3>1, <3>2
  <2>5. CASE RunRegister(t) \/ RunLeave(t)  BY <1>4, <2>5 DEF RunRegister, RunLeave, sockets
  <2>6. CASE RunRead(t)  BY <2>3, <2>6 DEF RunRead
  <2>7. CASE RunClose(t)
    <3>1. sock' = [sock EXCEPT ![k] = Closed(sock[k], "S")]  BY <2>7 DEF RunClose
    <3> QED  BY <1>3, <2>1, <2>2, <3>1
  <2> QED  BY <1>8, <2>4, <2>5, <2>6, <2>7 DEF RunStep
<1> QED  BY <1>5, <1>6, <1>7, <1>8, <1>9 DEF ServerNext

\* The answer goes to one connection, whose thread registers it.
LEMMA ReplyTo ==
  ASSUME IInv, HandInv, NEW t \in Threads, RunReply(t)
  PROVE  /\ \A k \in (Conns \cup {0}) \ {Conn(t)} : sock'[k] = sock[k]
         /\ thread'[t].pc \in {"register", "close"}
         /\ sock'[Conn(t)]["C"].in # sock[Conn(t)]["C"].in =>
              /\ sock'[Conn(t)]["C"].in = Append(sock[Conn(t)]["C"].in, <<"answer">>)
              /\ thread'[t].pc = "register"
         /\ thread'[t].pc = "register" /\ sock[Conn(t)]["C"].open =>
              sock'[Conn(t)]["C"].in # sock[Conn(t)]["C"].in
         /\ sock'[Conn(t)]["C"].open = sock[Conn(t)]["C"].open
<1> DEFINE k == Conn(t)
           d == Sent(sock[k], "S", << <<"answer">> >>)
<1>1. k \in Conns \cup {0}  BY DEF Conn, ConnOf, IInv, ServerInv, TablesInv
<1>2. DOMAIN sock = Conns \cup {0} /\ sock[k] \in ConnRecord  BY <1>1 DEF HandInv, Traffic
<1>3. /\ sock' = [sock EXCEPT ![k] = d]
      /\ \/ SendOk(sock[k], "S") /\ Goto(t, "register")
         \/ ~(SendOk(sock[k], "S") /\ sock[k]["C"].open) /\ Goto(t, "close")
  BY DEF RunReply
<1>4. "S" \in Ends /\ "C" \in Ends /\ Peer("S") = "C" /\ <<"answer">> \in Words  BY DEF Ends, Peer, Words
<1>5. /\ d[Peer("S")].in = IF SendOk(sock[k], "S") /\ sock[k][Peer("S")].open
                           THEN Append(sock[k][Peer("S")].in, <<"answer">>) ELSE sock[k][Peer("S")].in
      /\ \A f \in Ends : d[f].open = sock[k][f].open
  BY <1>2, <1>4, SentWords
<1> HIDE DEF d
<1>6. sock'[k] = d /\ \A j \in (Conns \cup {0}) \ {k} : sock'[j] = sock[j]  BY <1>1, <1>2, <1>3
<1>7. \A p \in Places : Goto(t, p) => thread'[t].pc = p  BY Going DEF IInv, ServerInv
<1>8. thread'[t].pc \in {"register", "close"}
      /\ (thread'[t].pc = "register" \/ ~(SendOk(sock[k], "S") /\ sock[k]["C"].open))
      /\ (thread'[t].pc = "register" => SendOk(sock[k], "S"))
  BY <1>3, <1>7 DEF Places
<1> HIDE DEF k
<1>9. d["C"].in # sock[k]["C"].in => d["C"].in = Append(sock[k]["C"].in, <<"answer">>) /\ SendOk(sock[k], "S") /\ sock[k]["C"].open
  BY <1>4, <1>5
<1>10. d["C"].open = sock[k]["C"].open  BY <1>4, <1>5
<1>11. SendOk(sock[k], "S") /\ sock[k]["C"].open => d["C"].in # sock[k]["C"].in
  <2>1. sock[k]["C"].in \in Seq(Words)  BY <1>2, <1>4 DEF ConnRecord, EndRecord
  <2>2. \A q \in Seq(Words) : Append(q, <<"answer">>) # q
    <3>1. ASSUME NEW q \in Seq(Words) PROVE Len(Append(q, <<"answer">>)) # Len(q)  OBVIOUS
    <3> QED  BY <3>1
  <2> QED  BY <1>4, <1>5, <2>1, <2>2
<1> QED  BY <1>6, <1>8, <1>9, <1>10, <1>11 DEF k

\* A thread has registered the client of this connection, or is about to, and has not left.
Served(k) == \E t \in Threads : Conn(t) = k /\ thread[t].pc \in {"register", "poll", "peek"}

\* The answer is on its way to the client, or has arrived.
Answered(c) ==
    /\ client[c].conn # 0 /\ client[c].path # <<>>
    /\ client[c].pc # "answer" \/ Carries(sock[client[c].conn]["C"].in, <<"answer">>)

ServedInv == \A c \in Nodes : Answered(c) => Served(client[c].conn)

\* Threads keep their connections until they close them.
LEMMA ConnKept ==
  ASSUME IInv, IInv', forgotten = 0, forgotten' = 0, [Next]_vars, NEW t \in Serving
  PROVE  /\ thread'[t].pc # "done" => Conn(t)' = Conn(t)
         /\ thread'[t].pc # thread[t].pc => RunStep(t)
         /\ thread[t].pc # "close" => thread'[t].pc # "done"
<1>1. /\ t \in Threads /\ thread[t].pc \notin {"none", "accept", "done"}
      /\ Conn(t) # 0 /\ thread[t].fd \in Fds
  BY DEF Serving, IInv, ServerInv, OwnDescriptor, ThreadsInv
<1>2. ASSUME UNCHANGED <<thread, fds>>
      PROVE  Conn(t)' = Conn(t) /\ thread'[t].pc = thread[t].pc
  BY <1>2 DEF Conn, ConnOf
<1>3. CASE ServerConnect
  <2>1. /\ tid_cnt \in Threads /\ thread[tid_cnt].pc = "none"
        /\ \A s \in Threads \ {tid_cnt} : thread'[s] = thread[s]
    <3>1. Spawn(thread) /\ thread \in [Threads -> ThreadRecord] /\ ThreadsInv
      BY <1>3 DEF ServerConnect, IInv, ServerInv, ThreadsInv
    <3> QED  BY <3>1, Spawning
  <2>2. thread'[t] = thread[t] /\ fds' = fds  BY <1>1, <1>3, <2>1 DEF ServerConnect
  <2> QED  BY <1>1, <2>2 DEF Conn, ConnOf
<1>4. CASE ServerConnectFails \/ ServerClose
  <2>1. /\ thread' = thread /\ forgotten' = forgotten + client_cnt
        /\ fds' = [f \in Fds |-> IF f \in {client_fd[i] : i \in 0 .. client_cnt - 1} THEN 0 ELSE fds[f]]
    BY <1>4 DEF ServerConnectFails, ServerClose, CloseAll
  <2>2. client_cnt = 0  BY <2>1, ServerAssumption DEF IInv, ServerInv, TablesInv
  <2>3. {client_fd[i] : i \in 0 .. client_cnt - 1} = {}  BY <2>2
  <2>4. fds \in [Fds -> Conns \cup {0}]  BY DEF IInv, ServerInv, TablesInv
  <2>5. fds' = fds  BY <2>1, <2>3, <2>4
  <2> QED  BY <1>1, <1>2, <2>1, <2>5
<1>5. CASE \/ ServerWrite \/ ServerRead \/ UNCHANGED vars
           \/ ClientNext /\ UNCHANGED <<server, serverHistory>>
           \/ \E k \in Conns : Break(k) /\ UNCHANGED <<server, serverHistory, clients>>
  <2>1. UNCHANGED <<thread, fds>>  BY <1>5 DEF ServerWrite, ServerRead, server, vars
  <2> QED  BY <1>1, <1>2, <2>1
<1>6. ASSUME NEW s \in Threads, RunAccept(s)
      PROVE  Conn(t)' = Conn(t) /\ thread'[t].pc = thread[t].pc
  <2>1. PICK f \in Fds : fds[f] = 0 /\ fds' = [fds EXCEPT ![f] = Head(backlog)]  BY <1>6, AcceptMoves
  <2>2. s # t /\ thread'[t] = thread[t]  BY <1>1, <1>6, AcceptMoves
  <2>3. thread[t].fd # f  BY <1>1, <2>1 DEF Conn, ConnOf
  <2> QED  BY <1>1, <2>1, <2>2, <2>3 DEF Conn, ConnOf, IInv, ServerInv, TablesInv
<1>7. ASSUME NEW s \in Threads, RunStep(s)
      PROVE  /\ thread'[t].pc # "done" => Conn(t)' = Conn(t)
             /\ thread'[t].pc # thread[t].pc => s = t
             /\ thread[t].pc # "close" => thread'[t].pc # "done"
  <2>1. thread'[t].fd = thread[t].fd /\ (s # t => thread'[t].pc = thread[t].pc)  BY <1>1, <1>7, RunMoves
  <2>2. \A f \in Fds : fds'[f] \in {fds[f], 0}
    <3>1. fds' = fds \/ fds' = [f \in Fds |-> IF f = thread[s].fd THEN 0 ELSE fds[f]]
      BY <1>7, RunMoves
    <3> QED  BY <3>1
  <2>3. Conn(t)' \in {Conn(t), 0}  BY <1>1, <2>1, <2>2, ConnAfter
  <2>4. thread[t].pc # "close" => thread'[t].pc # "done"
    <3>1. CASE s # t  BY <1>1, <2>1, <3>1
    <3>2. CASE s = t /\ thread[t].pc = "poll"  BY <1>7, <3>2, RunMoves
    <3>3. CASE s = t /\ thread[t].pc = "peek"  BY <1>7, <3>3, RunMoves
    <3>4. CASE s = t /\ thread[t].pc \notin {"poll", "peek"}  BY <1>7, <3>4, RunMoves
    <3> QED  BY <3>1, <3>2, <3>3, <3>4
  <2>5. thread'[t].pc \notin {"none", "accept"}
    <3>1. CASE s # t  BY <1>1, <2>1, <3>1
    <3>2. CASE s = t /\ thread[t].pc = "poll"  BY <1>7, <3>2, RunMoves
    <3>3. CASE s = t /\ thread[t].pc = "peek"  BY <1>7, <3>3, RunMoves
    <3>4. CASE s = t /\ thread[t].pc \notin {"poll", "peek"}  BY <1>7, <3>4, RunMoves
    <3> QED  BY <3>1, <3>2, <3>3, <3>4
  <2>6. thread'[t].pc # "done" => Conn(t)' # 0
    BY <1>1, <2>5 DEF IInv, ServerInv, OwnDescriptor, Serving
  <2> QED  BY <2>1, <2>3, <2>4, <2>6
<1>8. CASE LingerEnds  BY <1>1, <1>2, <1>8 DEF LingerEnds, server
<1> QED  BY <1>1, <1>3, <1>4, <1>5, <1>6, <1>7, <1>8 DEF Next, ServerNext

\* A client that has not closed its end goes on being served.
LEMMA StillServed ==
  ASSUME IInv, IInv', Calm, Calm', CalmInv', [Next]_vars,
         NEW k \in Conns, Served(k), sock'[k]["C"].open
  PROVE  Served(k)'
<1>1. PICK t \in Threads : Conn(t) = k /\ thread[t].pc \in {"register", "poll", "peek"}  BY DEF Served
<1>2. t \in Serving  BY <1>1 DEF Serving
<1>3. /\ thread'[t].pc # "done" /\ Conn(t)' = k
      /\ thread'[t].pc # thread[t].pc => RunStep(t)
  BY <1>1, <1>2, ConnKept DEF Calm
<1>4. thread'[t].pc \in {"register", "poll", "peek", "leave"}
  <2>1. CASE thread'[t].pc = thread[t].pc  BY <1>1, <2>1
  <2>2. CASE RunStep(t) /\ thread[t].pc = "register"  BY <2>2, RunMoves
  <2>3. CASE RunStep(t) /\ thread[t].pc = "poll"  BY <2>3, RunMoves
  <2>4. CASE RunStep(t) /\ thread[t].pc = "peek"  BY <2>4, RunMoves
  <2> QED  BY <1>1, <1>3, <2>1, <2>2, <2>3, <2>4
<1>5. thread'[t].pc # "leave"  BY <1>3 DEF CalmInv
<1> QED  BY <1>3, <1>4, <1>5 DEF Served

\* A step of the server that brings a client the answer has the client registered.
LEMMA ServerServed ==
  ASSUME IInv, IInv', Calm, Calm', CalmInv', HandInv, HandInv', ServedInv,
         ServerNext, UNCHANGED client, [Next]_vars, NEW c \in Nodes, Answered(c)'
  PROVE  Served(client[c].conn)'
<1> DEFINE k == client[c].conn
<1>1. k \in Conns /\ sock'[k]["C"].open /\ client'[c] = client[c] /\ k # 0
  <2>1. client[c].conn \in 0 .. conns  BY DEF IInv, NetworkInv, ClientRecord
  <2>2. conns \in 0 .. MaxConns /\ MaxConns \in Nat  BY SocketsAssumption DEF IInv, NetworkInv
  <2>3. client[c].conn # 0  BY DEF Answered
  <2>4. k \in Conns  BY <2>1, <2>2, <2>3 DEF Conns
  <2>5. sock'[client'[c].conn]["C"].open  BY <2>3 DEF HandInv, ClientsInv
  <2> QED  BY <2>3, <2>4, <2>5
<1>2. ASSUME Served(k) PROVE Served(k)'  BY <1>1, <1>2, StillServed
<1>3. CASE Answered(c)  BY <1>2, <1>3 DEF ServedInv
<1>4. CASE ~Answered(c)
  <2>1. /\ client[c].pc = "answer" /\ ~Carries(sock[k]["C"].in, <<"answer">>)
        /\ Carries(sock'[k]["C"].in, <<"answer">>)
    BY <1>1, <1>4 DEF Answered
  <2>2. ~ServerWrite
    <3>1. ServerWrite => Quietly(sock[k], sock'[k])  BY <1>1, WriteQuiet
    <3> QED  BY <2>1, <3>1 DEF Quietly
  <2>3. PICK t \in Threads : RunReply(t)
    <3>1. ~Deaf  BY <1>1, <2>1 DEF Deaf
    <3> QED  BY <2>2, <3>1, ServerDeaf
  <2>4. k = Conn(t)
    <3>1. sock'[k] # sock[k]  BY <2>1
    <3> QED  BY <1>1, <2>3, <3>1, ReplyTo
  <2>5. thread'[t].pc = "register"
    <3>1. sock'[k]["C"].in # sock[k]["C"].in  BY <2>1
    <3> HIDE DEF k
    <3> QED  BY <2>3, <2>4, <3>1, ReplyTo
  <2>6. thread[t].pc = "reply" /\ t \in Serving  BY <2>3 DEF RunReply, At, Serving
  <2>7. Conn(t)' = k  BY <2>4, <2>5, <2>6, ConnKept DEF Calm
  <2> QED  BY <2>5, <2>7 DEF Served
<1> QED  BY <1>3, <1>4

\* A step of a client.
LEMMA ClientServed ==
  ASSUME IInv, IInv', Calm, Calm', CalmInv', HandInv, HandInv', ServedInv,
         ClientNext, UNCHANGED <<server, serverHistory>>, [Next]_vars, NEW c \in Nodes, Answered(c)'
  PROVE  Served(client[c].conn)'
<1>3. PICK j : j = client'[c].conn  OBVIOUS
<1>1. j # 0 /\ client'[c].path # <<>> /\ (client'[c].pc # "answer" \/ Carries(sock'[j]["C"].in, <<"answer">>))
  BY <1>3 DEF Answered
<1>2. j \in Conns /\ sock'[j]["C"].open
  <2>1. j \in 0 .. conns'  BY <1>3 DEF IInv, NetworkInv, ClientRecord
  <2>2. conns' \in 0 .. MaxConns /\ MaxConns \in Nat  BY SocketsAssumption DEF IInv, NetworkInv
  <2>3. sock'[j]["C"].open  BY <1>1, <1>3 DEF HandInv, ClientsInv
  <2>4. PICK n : n = conns'  OBVIOUS
  <2>5. j \in 0 .. n /\ n \in 0 .. MaxConns /\ MaxConns \in Nat /\ j # 0  BY <1>1, <2>1, <2>2, <2>4
  <2>6. j \in Conns  BY <2>5 DEF Conns
  <2> QED  BY <2>3, <2>6
<1> SUFFICES Served(j)'  BY <1>3 DEF Served
<1>4. ASSUME Answered(c), client[c].conn = j PROVE Served(j)'
  <2>1. Served(j)  BY <1>4 DEF ServedInv
  <2> QED  BY <1>2, <2>1, StillServed
<1>5. \A b \in Nodes : client[b].conn \in 0 .. conns /\ client \in [Nodes -> ClientRecord(0 .. conns)]
  BY DEF IInv, NetworkInv, ClientRecord
<1>6. conns \in Nat  BY SocketsAssumption DEF IInv, NetworkInv
\* The other clients go on as before.
<1>7. ASSUME client'[c] = client[c], sock'[j]["C"].in = sock[j]["C"].in PROVE Served(j)'
  BY <1>1, <1>3, <1>4, <1>7 DEF Answered
<1>8. ASSUME NEW b \in Nodes, NEW path \in PathsOf[b], ClientConnect(b, path) PROVE Served(j)'
  <2>1. /\ client' = [client EXCEPT ![b].pc = IF path = <<>> THEN "idle" ELSE "answer",
                                    ![b].conn = conns + 1, ![b].path = path]
        /\ \E d : sock' = [sock EXCEPT ![conns + 1] = d]
        /\ conns < MaxConns
    BY <1>8 DEF ClientConnect
  <2>2. CASE b = c
    <3>1. client[c] \in ClientRecord(0 .. conns)  BY <1>5
    <3>2. j = conns + 1 /\ client'[c].path = path /\ client'[c].pc = IF path = <<>> THEN "idle" ELSE "answer"
      BY <1>3, <1>5, <2>1, <2>2, <3>1 DEF ClientRecord
    <3>3. sock'[conns + 1]["C"].in = <<>>
      <4> DEFINE up == [e \in Ends |-> Opened]
                 d == IF path = <<>> THEN up ELSE Sent(up, "C", Request(path))
      <4>1. sock' = [sock EXCEPT ![conns + 1] = d]  BY <1>8 DEF ClientConnect
      <4>2. "C" \in Ends  BY DEF Ends
      <4>3. up \in ConnRecord /\ up["C"].in = <<>>  BY <4>2, EndsMade DEF ConnRecord
      <4>4. d["C"].in = <<>>
        <5>1. CASE path = <<>>  BY <4>3, <5>1
        <5>2. CASE path # <<>>
          <6> DEFINE x == <<"get", path>>
          <6>1. Request(path) = <<x>>  BY DEF Request
          <6>3. x \in Words
            <7>1. path \in Seq(Chars)  BY ClientAssumption
            <7> QED  BY <7>1 DEF Words
          <6> HIDE DEF up, x
          <6>2. Sent(up, "C", <<x>>)["C"].in = up["C"].in  BY <4>2, <4>3, <6>3, SentWords
          <6> QED  BY <4>3, <5>2, <6>1, <6>2
        <5> QED  BY <5>1, <5>2
      <4> HIDE DEF d
      <4>5. DOMAIN sock = Conns \cup {0}  BY DEF HandInv, Traffic
      <4>6. conns + 1 \in Conns  BY <1>2, <3>2
      <4>7. sock'[conns + 1] = d  BY <4>1, <4>5, <4>6
      <4> QED  BY <4>4, <4>7
    <3>4. ~Carries(<<>>, <<"answer">>)  BY DEF Carries
    <3> QED  BY <1>1, <3>2, <3>3, <3>4
  <2>3. CASE b # c
    <3>1. client'[c] = client[c]
      <4>1. client \in [Nodes -> ClientRecord(0 .. conns)]  BY <1>5
      <4> QED  BY <2>1, <2>3, <4>1
    <3>2. j # conns + 1  BY <1>3, <1>5, <1>6, <3>1
    <3>3. sock'[j] = sock[j]  BY <1>2, <1>3, <2>1, <3>2 DEF HandInv, Traffic
    <3> QED  BY <1>7, <3>1, <3>3
  <2> QED  BY <2>2, <2>3
<1>9. ASSUME NEW b \in Nodes, ClientConnectFails(b) PROVE Served(j)'
  <2>1. client' = [client EXCEPT ![b].conn = 0] /\ sock' = sock
    BY <1>9 DEF ClientConnectFails, sockets
  <2>2. b # c
    <3>1. client[c] \in ClientRecord(0 .. conns)  BY <1>5
    <3>2. [client EXCEPT ![c].conn = 0][c].conn = 0  BY <1>5, <3>1 DEF ClientRecord
    <3> QED  BY <1>1, <1>3, <2>1, <3>2
  <2>3. client'[c] = client[c]  BY <2>1, <2>2
  <2> QED  BY <1>7, <2>1, <2>3
<1>10. ASSUME NEW b \in Nodes, ClientAnswer(b) \/ ClientRead(b) \/ ClientWrite(b) \/ ClientClose(b)
       PROVE  Served(j)'
  <2> DEFINE i == client[b].conn
  <2>1. i \in Conns /\ \E d : sock' = [sock EXCEPT ![i] = d] /\ Takes(b, i, d)
    <3>1. LET n == client[b].conn
          IN  /\ n \in Conns
              /\ \E d : Quietly(sock[n], d) /\ sock' = [sock EXCEPT ![n] = d] /\ Takes(b, n, d)
      BY <1>10, ClientTakes
    <3> QED  BY <3>1
  <2>2. PICK d : sock' = [sock EXCEPT ![i] = d] /\ Takes(b, i, d)  BY <2>1
  <2>3. /\ \A a \in Nodes \ {b} : client'[a] = client[a]
        /\ client'[b].path = client[b].path
    BY <1>10, ClientStays
  <2>4. CASE b = c
    <3>4. client' = client => client'[c].conn = i /\ client'[c].pc = client[c].pc  BY <2>4
    <3>5. sock'[i] = d  BY <2>1, <2>2 DEF HandInv, Traffic
    <3>1. /\ j = i
          /\ client[c].pc = "answer" =>
               /\ sock[i]["C"].in # <<>>
               /\ \/ Head(sock[i]["C"].in) = <<"answer">>
                  \/ Carries(Tail(sock[i]["C"].in), <<"answer">>)
      <4> HIDE DEF i
      <4> QED  BY <1>1, <1>3, <2>2, <2>4, <3>4, <3>5 DEF Takes
    <3>2. client[c].pc = "answer" => Carries(sock[i]["C"].in, <<"answer">>)
      <4>1. sock[i]["C"].in \in Seq(Words) /\ <<"answer">> \in Words
        BY <2>1 DEF HandInv, Traffic, ConnRecord, EndRecord, Ends, Words
      <4>2. sock[i]["C"].in # <<>> =>
              /\ Carries(sock[i]["C"].in, Head(sock[i]["C"].in))
              /\ Carries(Tail(sock[i]["C"].in), <<"answer">>) => Carries(sock[i]["C"].in, <<"answer">>)
        BY <4>1, CarriesAfter
      <4> QED  BY <3>1, <4>2
    <3>3. Answered(c)  BY <1>1, <2>3, <2>4, <3>1, <3>2 DEF Answered
    <3> QED  BY <1>3, <1>4, <2>4, <3>1, <3>3
  <2>5. CASE b # c
    <3>1. client'[c] = client[c]  BY <2>3, <2>5
    <3>2. i # j
      <4>1. client[c].conn = j /\ j # 0  BY <1>1, <1>3, <3>1
      <4> QED  BY <2>5, <4>1 DEF HandInv, ClientsInv
    <3> HIDE DEF i
    <3>3. sock'[j] = sock[j]  BY <1>2, <1>3, <2>2, <3>2 DEF HandInv, Traffic
    <3> QED  BY <1>7, <3>1, <3>3
  <2> QED  BY <2>4, <2>5
<1> QED  BY <1>8, <1>9, <1>10 DEF ClientNext, ClientStep

\* Every step keeps the clients that were answered served.
LEMMA ServedNext ==
  ASSUME IInv, IInv', Calm, Calm', CalmInv', HandInv, HandInv', ServedInv, [Next]_vars
  PROVE  ServedInv'
<1> SUFFICES ASSUME NEW c \in Nodes, Answered(c)' PROVE Served(client[c].conn)'
  BY DEF ServedInv, Served
<1>1. CASE ServerNext /\ UNCHANGED clients
  <2>1. client' = client  BY <1>1 DEF clients
  <2> QED  BY <1>1, <2>1, ServerServed
<1>2. CASE ClientNext /\ UNCHANGED <<server, serverHistory>>  BY <1>2, ClientServed
<1>3. CASE \E k \in Conns : Break(k)
  <2>1. faults' = faults + 1  BY <1>3 DEF Break, Fault
  <2> QED  BY <2>1 DEF Calm
<1>4. CASE UNCHANGED vars
  <2>1. UNCHANGED <<client, sock, fds, thread>>  BY <1>4 DEF vars, sockets, server, clients
  <2>2. Answered(c)  BY <2>1 DEF Answered
  <2>3. Served(client[c].conn)  BY <2>2 DEF ServedInv
  <2> QED  BY <2>1, <2>3 DEF Served, Conn, ConnOf
<1> QED  BY <1>1, <1>2, <1>3, <1>4 DEF Next

\* It holds as long as nothing broke and no client was dropped.
LEMMA ServedInvariance == Spec => [](Calm => ServedInv)
<1>1. Init => (Calm => ServedInv)
  <2> SUFFICES ASSUME Init PROVE ServedInv  OBVIOUS
  <2>1. \A x \in Disconnected : x.conn = 0  BY DEF Disconnected
  <2>2. \A c \in Nodes : client[c].conn = 0  BY <2>1 DEF Init, ClientInit
  <2> QED  BY <2>2 DEF ServedInv, Answered
<1>2. LinkInv /\ LinkInv' /\ HandInv /\ HandInv' /\ (Calm => ServedInv) /\ [Next]_vars => (Calm => ServedInv)'
  <2> SUFFICES ASSUME LinkInv, LinkInv', HandInv, HandInv', Calm => ServedInv, [Next]_vars, Calm'
               PROVE  ServedInv'
    OBVIOUS
  <2>1. Calm  BY CalmBefore DEF LinkInv
  <2> QED  BY <2>1, ServedNext DEF LinkInv
<1> QED  BY <1>1, <1>2, LinkInvariance, HandInvariance, PTL DEF Spec

\* Until close() drops clients, a client that is connected through a path has been
\* answered by a server whose path is that or a beginning of it; unless something
\* broke there is a thread that has registered the client or is about to, and has not
\* left since
\* (tcp_client.cpp:127-157, _tcp_server.cpp:186-217).
THEOREM ConnectedServed == Spec => []ConnectedIsServed
<1>1. HandInv /\ IInv /\ (Calm => ServedInv) => ConnectedIsServed
  <2> SUFFICES ASSUME HandInv, IInv, Calm => ServedInv,
                      NEW c \in Nodes, Connected(c), forgotten = 0
               PROVE  /\ Begins(ServerPath, client[c].path)
                      /\ faults = 0 =>
                            \E t \in Threads : /\ Conn(t) = client[c].conn
                                               /\ thread[t].pc \in {"register", "poll", "peek"}
    BY DEF ConnectedIsServed
  <2>1. client[c].pc # "answer" /\ client[c].conn # 0 /\ client[c].path # <<>>
    BY DEF Connected, IsConnected
  <2>3. ~Stranger(client[c].path)  BY <2>1 DEF HandInv, UnansweredInv
  <2>4. faults = 0 => Served(client[c].conn)  BY <2>1 DEF Calm, ServedInv, Answered
  <2> QED  BY <2>3, <2>4 DEF Served, Stranger
<1> QED  BY <1>1, HandInvariance, Invariance, ServedInvariance, PTL

-----------------------------------------------------------------------------
(* What the clients hear                                                   *)

\* Nobody has answered on this connection, or it has not been made yet.
Fresh(k) ==
    \/ k > conns \/ k \in Waiting
    \/ \E t \in Threads : Conn(t) = k /\ thread[t].pc \in {"request", "reply"}

\* The packets written since a client was registered.
Packets(k) == [i \in 1 .. writes - since[k] |-> <<"packet", since[k] + i>>]

\* To a client in connect() the answer is the first that comes, and it has come when
\* a thread is past the reply.
AnswerFirst(k) ==
    \A c \in Nodes : client[c].conn = k /\ client[c].pc = "answer" =>
        /\ sock[k]["C"].in # <<>> => Head(sock[k]["C"].in) = <<"answer">>
        /\ \A t \in Threads :
             Conn(t) = k /\ thread[t].pc \in {"register", "poll", "peek", "leave"} => sock[k]["C"].in # <<>>

\* A connection is silent until the server answers; the answer comes first, and then
\* the packets, and a client that is through the handshake has taken the answer.
Hears(k) ==
    /\ since[k] <= writes
    /\ Fresh(k) => heard[k] = <<>> /\ sock[k]["C"].in = <<>>
    /\ \A t \in Threads : Conn(t) = k /\ thread[t].pc = "register" =>
         heard[k] = <<>> /\ sock[k]["C"].in \in {<<>>, << <<"answer">> >>}
    /\ \A t \in Clients : Conn(t) = k /\ sock[k]["C"].open => Heard(k) = Packets(k)
    /\ \A c \in Nodes : client[c].conn = k /\ client[c].pc # "answer" =>
         ~Carries(sock[k]["C"].in, <<"answer">>)
    /\ AnswerFirst(k)

HeardInv == \A k \in Conns : Hears(k)

HeardTypes == heard \in [Conns -> Seq(Words)] /\ since \in [Conns -> Nat]

Intact == orderly /\ faults = 0

\* What is behind the answer, with a word more at the end.
LEMMA BehindMore ==
  ASSUME NEW in \in Seq(Words), NEW x \in Words, x # <<"answer">>
  PROVE  BehindAnswer(Append(in, x)) = Append(BehindAnswer(in), x) /\ BehindAnswer(in) \in Seq(Words)
<1>1. CASE in = <<>>
  <2>1. Append(in, x) # <<>> /\ Head(Append(in, x)) = x /\ Append(in, x) = <<x>>  BY <1>1
  <2> QED  BY <1>1, <2>1 DEF BehindAnswer
<1>2. CASE in # <<>>
  <2>1. /\ Append(in, x) # <<>> /\ Head(Append(in, x)) = Head(in)
        /\ Tail(Append(in, x)) = Append(Tail(in), x) /\ Tail(in) \in Seq(Words)
    BY <1>2
  <2> QED  BY <2>1 DEF BehindAnswer
<1> QED  BY <1>1, <1>2

\* Words that wait are among those that are heard in the end.
LEMMA Waits ==
  ASSUME NEW h \in Seq(Words), NEW in \in Seq(Words), NEW word,
         \A i \in DOMAIN (h \o in) : (h \o in)[i] # word
  PROVE  ~Carries(in, word)
<1> SUFFICES ASSUME NEW i \in DOMAIN in, in[i] = word PROVE FALSE  BY DEF Carries
<1>1. Len(h) \in Nat /\ i \in 1 .. Len(in) /\ Len(in) \in Nat  OBVIOUS
<1>2. Len(h \o in) = Len(h) + Len(in) /\ DOMAIN (h \o in) = 1 .. Len(h \o in)  OBVIOUS
<1>3. Len(h) + i \in DOMAIN (h \o in)  BY <1>1, <1>2
<1>4. (h \o in)[Len(h) + i] = in[i]  BY <1>1
<1> QED  BY <1>3, <1>4

\* A word that is read has been heard before as after.
LEMMA ReadOn ==
  ASSUME NEW h \in Seq(Words), NEW in \in Seq(Words), in # <<>>
  PROVE  Append(h, Head(in)) \o Tail(in) = h \o in /\ Append(h, Head(in)) \in Seq(Words)
<1>1. Head(in) \in Words /\ Tail(in) \in Seq(Words)  OBVIOUS
<1>2. Append(h, Head(in)) \in Seq(Words)  BY <1>1
<1> DEFINE l == Append(h, Head(in)) \o Tail(in)
           r == h \o in
<1>3. Len(l) = Len(r) /\ l \in Seq(Words) /\ r \in Seq(Words)  BY <1>1, <1>2
<1>4. ASSUME NEW i \in 1 .. Len(r) PROVE l[i] = r[i]
  <2>1. CASE i <= Len(h)  BY <1>1, <1>2, <2>1
  <2>2. CASE i = Len(h) + 1  BY <1>1, <1>2, <2>2
  <2>3. CASE i > Len(h) + 1
    <3>1. l[i] = Tail(in)[i - (Len(h) + 1)] /\ r[i] = in[i - Len(h)]  BY <1>1, <1>2, <1>3, <2>3
    <3>2. Tail(in)[i - (Len(h) + 1)] = in[i - Len(h)]  BY <1>1, <1>3, <2>3
    <3> QED  BY <3>1, <3>2
  <2> QED  BY <1>3, <2>1, <2>2, <2>3
<1>5. l = r  BY <1>3, <1>4
<1> QED  BY <1>2, <1>5

\* Threads have connections of their own.
LEMMA OwnConn ==
  ASSUME IInv, CalmInv, forgotten = 0
  PROVE  /\ \A t \in Serving : Conn(t) \in Conns /\ thread[t].fd \in Fds /\ Conn(t) = fds[thread[t].fd]
         /\ \A s, t \in Serving : s # t => Conn(s) # Conn(t)
<1>1. \A t \in Serving : /\ Conn(t) # 0 /\ thread[t].fd \in Fds /\ Conn(t) = fds[thread[t].fd]
                         /\ fds[thread[t].fd] \in Conns \cup {0}
  BY DEF IInv, ServerInv, OwnDescriptor, ThreadsInv, TablesInv, Serving, Conn, ConnOf
<1>2. \A s, t \in Serving : s # t => thread[s].fd # thread[t].fd
  BY DEF IInv, ServerInv, OwnDescriptor
<1> QED  BY <1>1, <1>2 DEF CalmInv

\* write() sends the packet once to every client, and to nobody else.
LEMMA WriteExact ==
  ASSUME IInv, Calm, Calm', CalmInv, TableInv, orderly, HandInv, ServerWrite
  PROVE  \A k \in Conns : sock'[k] = IF \E t \in Clients : Conn(t) = k
                                     THEN Sent(sock[k], "S", << <<"packet", writes + 1>> >>)
                                     ELSE sock[k]
<1> DEFINE W(c) == Written(c, writes + 1, FALSE)
           e(i) == ConnOf(client_fd[i])
<1>1. client_cnt \in Nat  BY WriteLoops
<1>2. \E f : Loop(f, client_cnt, 0) /\ sock' = f[client_cnt]
  <2>1. PICK full \in Conns \cup {0} :
          /\ full # 0 => Fault
          /\ \E f : Loop(f, client_cnt, full) /\ sock' = f[client_cnt]
    BY WriteLoops
  <2>2. full = 0  BY <2>1 DEF Fault, Calm
  <2> QED  BY <2>1, <2>2
<1>3. PICK f : Loop(f, client_cnt, 0) /\ sock' = f[client_cnt]  BY <1>2
<1>4. \A i \in 0 .. client_cnt - 1 : \E t \in Clients : e(i) = Conn(t)  BY DEF TableInv, Conn
<1>5. \A t \in Clients : \E i \in 0 .. client_cnt - 1 : e(i) = Conn(t)  BY DEF TableInv, Conn
<1>6. Clients \subseteq Serving  BY DEF Clients, Registered, Serving
<1>7. \A i \in 0 .. client_cnt - 1 : e(i) \in Conns  BY <1>4, <1>6, OwnConn DEF Calm
<1>8. \A i, j \in 0 .. client_cnt - 1 : e(i) = e(j) => i = j
  <2> SUFFICES ASSUME NEW i \in 0 .. client_cnt - 1, NEW j \in 0 .. client_cnt - 1, e(i) = e(j)
               PROVE  i = j
    OBVIOUS
  <2>1. e(i) # 0  BY <1>7 DEF Conns
  <2>2. client_fd[i] \in Fds /\ client_fd[j] \in Fds /\ e(i) = fds[client_fd[i]] /\ e(j) = fds[client_fd[j]]
    BY <2>1 DEF ConnOf
  <2>3. client_fd[i] = client_fd[j]  BY <2>1, <2>2 DEF CalmInv
  <2> QED  BY <2>3 DEF TableInv
<1>9. DOMAIN sock = Conns \cup {0}  BY DEF CalmInv
<1>10. \A k \in Conns : k # 0  BY DEF Conns
<1>11. \A m \in 0 .. client_cnt : f[m] = IF m = 0 THEN sock ELSE AfterEntry(f[m - 1], m - 1, 0)
  BY <1>3 DEF Loop
<1>12. \A i \in 0 .. client_cnt - 1 : \A ss : AfterEntry(ss, i, 0) = [ss EXCEPT ![e(i)] = W(ss[e(i)])]
  <2> SUFFICES ASSUME NEW i \in 0 .. client_cnt - 1, NEW ss
               PROVE  AfterEntry(ss, i, 0) = [ss EXCEPT ![e(i)] = W(ss[e(i)])]
    OBVIOUS
  <2>1. e(i) # 0  BY <1>7, <1>10
  <2>2. AfterEntry(ss, i, 0) = [ss EXCEPT ![e(i)] = Written(ss[e(i)], writes + 1, e(i) = 0)]
    BY DEF AfterEntry, Entries
  <2>3. Written(ss[e(i)], writes + 1, e(i) = 0) = W(ss[e(i)])  BY <2>1 DEF Written
  <2> QED  BY <2>2, <2>3
<1> HIDE DEF e, W
<1> DEFINE Upto(m) == /\ DOMAIN f[m] = Conns \cup {0}
                      /\ \A k \in Conns : f[m][k] = IF \E i \in 0 .. m - 1 : e(i) = k THEN W(sock[k]) ELSE sock[k]
           Bad == {m \in Nat : m <= client_cnt /\ ~Upto(m)}
<1>13. Bad = {}
  <2>1. CASE Bad # {}
    <3>1. PICK m \in Bad : \A j \in Bad : m <= j  BY <2>1, LeastNat
    <3>2. m # 0
      <4>1. f[0] = sock  BY <1>1, <1>11
      <4>2. \A k \in Conns : ~\E i \in 0 .. 0 - 1 : e(i) = k  OBVIOUS
      <4>3. Upto(0)  BY <1>9, <4>1, <4>2
      <4> QED  BY <3>1, <4>3
    <3>3. m - 1 \in Nat /\ m - 1 \in 0 .. client_cnt - 1 /\ m \in 0 .. client_cnt  BY <1>1, <3>1, <3>2
    <3>4. Upto(m - 1)
      <4>1. m - 1 \notin Bad /\ m - 1 <= client_cnt  BY <1>1, <3>1, <3>3
      <4> QED  BY <3>3, <4>1
    <3> DEFINE n == m - 1
    <3>5. f[m] = [f[n] EXCEPT ![e(n)] = W(f[n][e(n)])]  BY <1>11, <1>12, <3>2, <3>3
    <3>6. \A i \in 0 .. m - 1 : i = n \/ i \in 0 .. n - 1  BY <3>3
    <3>7. \A i \in 0 .. n - 1 : i \in 0 .. m - 1 /\ i \in 0 .. client_cnt - 1 /\ i # n  BY <1>1, <3>3
    <3>8. n \in 0 .. m - 1 /\ n \in 0 .. client_cnt - 1  BY <3>3
    <3>9. Upto(n)  BY <3>4
    <3> HIDE DEF n
    <3>10. f[n][e(n)] = sock[e(n)]  BY <1>7, <1>8, <3>7, <3>8, <3>9
    <3>11. DOMAIN f[m] = Conns \cup {0} /\ f[m][e(n)] = W(sock[e(n)])
           /\ \A k \in Conns \ {e(n)} : f[m][k] = f[n][k]
      BY <1>7, <3>5, <3>8, <3>9, <3>10
    <3>12. ASSUME NEW k \in Conns
           PROVE  f[m][k] = IF \E i \in 0 .. m - 1 : e(i) = k THEN W(sock[k]) ELSE sock[k]
      <4>1. CASE k = e(n)  BY <3>8, <3>11, <4>1
      <4>2. CASE k # e(n)
        <5>1. (\E i \in 0 .. m - 1 : e(i) = k) <=> (\E i \in 0 .. n - 1 : e(i) = k)
          BY <3>6, <3>7, <4>2
        <5> QED  BY <3>9, <3>11, <4>2, <5>1
      <4> QED  BY <4>1, <4>2
    <3>13. Upto(m)  BY <3>11, <3>12
    <3> QED  BY <3>1, <3>13
  <2> QED  BY <2>1
<1>14. Upto(client_cnt)  BY <1>1, <1>13
<1>15. \A k \in Conns : (\E i \in 0 .. client_cnt - 1 : e(i) = k) <=> (\E t \in Clients : Conn(t) = k)
  BY <1>4, <1>5 DEF e
<1>16. \A c : W(c) = Sent(c, "S", << <<"packet", writes + 1>> >>)  BY DEF W, Written
<1> QED  BY <1>3, <1>14, <1>15, <1>16

\* A thread begins to serve by accept() only.
LEMMA Beginning ==
  ASSUME IInv, [Next]_vars, NEW t \in Threads, t \notin Serving, t \in Serving'
  PROVE  RunAccept(t)
<1>1. /\ thread[t].pc \in {"none", "accept", "done"}
      /\ thread'[t].pc \notin {"none", "accept", "done"}
  BY DEF Serving
<1>2. thread' # thread  BY <1>1
<1>3. ~ServerConnect
  <2> SUFFICES ASSUME ServerConnect PROVE FALSE  OBVIOUS
  <2>1. Spawn(thread) /\ thread \in [Threads -> ThreadRecord] /\ ThreadsInv
    BY DEF ServerConnect, IInv, ServerInv, ThreadsInv
  <2>2. /\ tid_cnt \in Threads /\ thread'[tid_cnt] = [pc |-> "accept", fd |-> 0, idx |-> -1]
        /\ \A s \in Threads \ {tid_cnt} : thread'[s] = thread[s]
    BY <2>1, Spawning
  <2>3. thread'[tid_cnt].pc = "accept"  BY <2>2
  <2> QED  BY <1>1, <2>2, <2>3
<1>4. ~(ServerConnectFails \/ ServerClose \/ ServerWrite \/ ServerRead \/ LingerEnds)
  BY <1>2 DEF ServerConnectFails, ServerClose, CloseAll, ServerWrite, ServerRead, LingerEnds, server
<1>5. ServerNext  BY <1>2 DEF Next, vars, server
<1>6. PICK s \in Threads : RunAccept(s) \/ RunStep(s)  BY <1>3, <1>4, <1>5 DEF ServerNext
<1>7. CASE RunStep(s)
  <2>1. s # t  BY <1>1, <1>7, RunMoves
  <2>2. thread'[t].pc = thread[t].pc  BY <1>7, <2>1, RunMoves
  <2> QED  BY <1>1, <2>2
<1>8. CASE RunAccept(s)
  <2>1. CASE s # t
    <3>1. thread'[t] = thread[t] \/ thread'[t].pc = "accept"  BY <1>8, <2>1, AcceptMoves
    <3> QED  BY <1>1, <3>1
  <2> QED  BY <1>8, <2>1
<1> QED  BY <1>6, <1>7, <1>8

\* Which way a connection goes from one stage to the next.
LEMMA Stages ==
  ASSUME IInv, IInv', Calm, Calm', [Next]_vars
  PROVE  /\ \A k \in Conns : Fresh(k)' => Fresh(k)
         /\ \A t \in Threads : thread'[t].pc = "register" =>
              (thread[t].pc = "register" \/ RunReply(t)) /\ Conn(t)' = Conn(t)
         /\ \A t \in Clients' : (t \in Clients \/ RunRegister(t)) /\ Conn(t)' = Conn(t)
         /\ conns' \in Nat /\ conns \in Nat /\ conns <= conns'
<1>1. conns \in Nat /\ conns' \in Nat  BY SocketsAssumption DEF IInv, NetworkInv
<1>2. backlog \in Seq(Conns)  BY DEF IInv, NetworkInv
<1>3. conns' = conns \/ conns' = conns + 1
  <2>1. CASE ServerNext
    BY <2>1 DEF ServerNext, ServerConnect, ServerConnectFails, ServerClose, CloseAll, ServerWrite,
                ServerRead, LingerEnds, RunAccept, RunStep, RunRequest, RunReply, RunRegister, RunRead, RunLeave,
                RunClose, RestUnchanged, sockets
  <2>2. CASE ClientNext
    BY <2>2 DEF ClientNext, ClientStep, ClientConnect, ClientConnectFails, ClientAnswer, ClientRead,
                ClientWrite, ClientClose, sockets
  <2>3. CASE \E k \in Conns : Break(k)  BY <2>3 DEF Break
  <2>4. CASE UNCHANGED vars  BY <2>4 DEF vars, sockets
  <2> QED  BY <2>1, <2>2, <2>3, <2>4 DEF Next
<1>4. \A k \in Waiting' : k \in Waiting \/ k > conns
  <2>1. CASE backlog' = backlog  BY <2>1 DEF Waiting
  <2>2. CASE backlog' = <<>>  BY <2>2 DEF Waiting
  <2>3. CASE backlog # <<>> /\ backlog' = Tail(backlog)
    <3>1. \A i \in DOMAIN Tail(backlog) : i + 1 \in DOMAIN backlog /\ Tail(backlog)[i] = backlog[i + 1]
      BY <1>2, <2>3
    <3> QED  BY <2>3, <3>1 DEF Waiting
  <2>4. CASE backlog' = Append(backlog, conns + 1)
    <3>1. \A i \in DOMAIN backlog' : backlog'[i] = conns + 1 \/ (i \in DOMAIN backlog /\ backlog'[i] = backlog[i])
      BY <1>2, <2>4
    <3>2. conns + 1 > conns  BY <1>1
    <3> QED  BY <3>1, <3>2 DEF Waiting
  <2>5. CASE ServerNext
    <3>1. ASSUME NEW t \in Threads, RunAccept(t) PROVE backlog # <<>> /\ (backlog' = <<>> \/ backlog' = Tail(backlog))
      BY <3>1, AcceptMoves
    <3>2. ASSUME NEW t \in Threads, RunStep(t) PROVE backlog' = backlog  BY <3>2, RunMoves
    <3> QED  BY <2>1, <2>2, <2>3, <2>5, <3>1, <3>2
             DEF ServerNext, ServerConnect, ServerConnectFails, ServerClose, CloseAll, ServerWrite, ServerRead,
                 LingerEnds, sockets
  <2>6. CASE ClientNext
    BY <2>1, <2>4, <2>6 DEF ClientNext, ClientStep, ClientConnect, ClientConnectFails, ClientAnswer, ClientRead,
                ClientWrite, ClientClose, sockets
  <2>7. CASE \E k \in Conns : Break(k)  BY <2>1, <2>7 DEF Break
  <2>8. CASE UNCHANGED vars  BY <2>1, <2>8 DEF vars, sockets
  <2> QED  BY <2>5, <2>6, <2>7, <2>8 DEF Next
<1>5. ASSUME NEW t \in Threads, thread'[t].pc \in {"request", "reply"}
      PROVE  \/ Conn(t)' \in Waiting
             \/ Conn(t)' = Conn(t) /\ thread[t].pc \in {"request", "reply"}
  <2>1. t \in Serving'  BY <1>5 DEF Serving
  <2>2. CASE t \notin Serving
    <3>1. RunAccept(t)  BY <2>1, <2>2, Beginning
    <3>2. PICK f \in Fds : fds' = [fds EXCEPT ![f] = Head(backlog)] /\ thread'[t].fd = f /\ backlog # <<>>
      BY <3>1, AcceptMoves
    <3>3. Head(backlog) = backlog[1] /\ 1 \in DOMAIN backlog  BY <1>2, <3>2
    <3>4. Conn(t)' = Head(backlog)  BY <3>2 DEF Conn, ConnOf, IInv, ServerInv, TablesInv
    <3> QED  BY <3>3, <3>4 DEF Waiting
  <2>3. CASE t \in Serving
    <3>1. Conn(t)' = Conn(t) /\ (thread'[t].pc # thread[t].pc => RunStep(t))
      BY <1>5, <2>3, ConnKept DEF Calm
    <3>2. ASSUME RunStep(t) PROVE thread[t].pc \in {"request", "reply"}
      <4>1. thread[t].pc # "poll"  BY <1>5, <3>2, RunMoves
      <4>2. thread[t].pc # "peek"  BY <1>5, <3>2, RunMoves
      <4> QED  BY <1>5, <3>2, <4>1, <4>2, RunMoves
    <3> QED  BY <1>5, <3>1, <3>2
  <2> QED  BY <2>2, <2>3
<1>6. ASSUME NEW k \in Conns, Fresh(k)' PROVE Fresh(k)
  <2>1. CASE k > conns'
    <3>1. k > conns  BY <1>1, <1>3, <2>1 DEF Conns
    <3> QED  BY <3>1 DEF Fresh
  <2>2. CASE k \in Waiting'  BY <1>4, <2>2 DEF Fresh
  <2>3. CASE \E t \in Threads : Conn(t)' = k /\ thread'[t].pc \in {"request", "reply"}
    BY <1>5, <2>3 DEF Fresh
  <2> QED  BY <1>6, <2>1, <2>2, <2>3 DEF Fresh
<1>7. ASSUME NEW t \in Threads, thread'[t].pc = "register"
      PROVE  (thread[t].pc = "register" \/ RunReply(t)) /\ Conn(t)' = Conn(t)
  <2>1. t \in Serving
    <3>1. t \in Serving'  BY <1>7 DEF Serving
    <3>2. ~RunAccept(t)  BY <1>7, AcceptMoves
    <3> QED  BY <3>1, <3>2, Beginning
  <2>2. Conn(t)' = Conn(t) /\ (thread'[t].pc # thread[t].pc => RunStep(t))
    BY <1>7, <2>1, ConnKept DEF Calm
  <2>3. ASSUME RunStep(t) PROVE RunReply(t)
    <3>1. thread[t].pc # "poll"  BY <1>7, <2>3, RunMoves
    <3>2. thread[t].pc # "peek"  BY <1>7, <2>3, RunMoves
    <3>3. thread[t].pc = "reply"  BY <1>7, <2>3, <3>1, <3>2, RunMoves
    <3> QED  BY <2>3, <3>3 DEF RunStep, RunRequest, RunRegister, RunRead, RunLeave, RunClose, At
  <2> QED  BY <1>7, <2>2, <2>3
<1>8. ASSUME NEW t \in Clients' PROVE (t \in Clients \/ RunRegister(t)) /\ Conn(t)' = Conn(t)
  <2>1. t \in Threads /\ thread'[t].pc \in {"poll", "peek", "leave"}  BY <1>8 DEF Clients, Registered
  <2>2. t \in Serving
    <3>1. t \in Serving'  BY <2>1 DEF Serving
    <3>2. ~RunAccept(t)  BY <2>1, AcceptMoves
    <3> QED  BY <2>1, <3>1, <3>2, Beginning
  <2>3. Conn(t)' = Conn(t) /\ (thread'[t].pc # thread[t].pc => RunStep(t))
    BY <2>1, <2>2, ConnKept DEF Calm
  <2>4. thread[t].pc \in {"poll", "peek", "leave"} \/ RunRegister(t)
    <3>1. CASE thread'[t].pc = thread[t].pc  BY <2>1, <3>1
    <3>2. CASE RunStep(t) /\ thread[t].pc \notin {"poll", "peek"}
      <4>1. thread[t].pc = "register"  BY <2>1, <3>2, RunMoves
      <4> QED  BY <3>2, <4>1 DEF RunStep, RunRequest, RunReply, RunRead, RunLeave, RunClose, At
    <3> QED  BY <2>3, <3>1, <3>2
  <2>5. thread[t].pc \in {"poll", "peek", "leave"} => t \in Clients
    BY <2>1 DEF IInv, ServerInv, ThreadsInv, Clients, Registered
  <2> QED  BY <2>3, <2>4, <2>5
<1> QED  BY <1>1, <1>3, <1>6, <1>7, <1>8

\* What the clients read, and how many packets came before them.
LEMMA HeardTypesNext == IInv /\ HandInv /\ HeardTypes /\ [Next]_vars => HeardTypes'
<1> SUFFICES ASSUME IInv, HandInv, HeardTypes, [Next]_vars PROVE HeardTypes'  OBVIOUS
<1>1. ASSUME ServerNext, UNCHANGED clients PROVE HeardTypes'
  <2>1. heard' = heard  BY <1>1 DEF clients
  <2>2. since' \in [Conns -> Nat]
    <3>1. CASE since' = since  BY <3>1 DEF HeardTypes
    <3>2. ASSUME NEW t \in Threads, RunRegister(t) PROVE since' \in [Conns -> Nat]
      <4>1. since' = since \/ since' = [since EXCEPT ![Conn(t)] = writes]  BY <3>2 DEF RunRegister
      <4>2. writes \in Nat  BY DEF HandInv, Traffic
      <4> QED  BY <4>1, <4>2 DEF HeardTypes
    <3> QED  BY <1>1, <3>1, <3>2
             DEF ServerNext, ServerConnect, ServerConnectFails, ServerClose, CloseAll, ServerWrite, ServerRead,
                 LingerEnds, RunAccept, RunStep, RunRequest, RunReply, RunRead, RunLeave, RunClose, RestUnchanged, serverHistory
  <2> QED  BY <2>1, <2>2 DEF HeardTypes
<1>2. ASSUME NEW c \in Nodes, UNCHANGED <<server, serverHistory>>,
             ClientAnswer(c) \/ ClientRead(c) \/ ClientWrite(c) \/ ClientClose(c)
      PROVE  HeardTypes'
  <2>1. LET k == client[c].conn
        IN  /\ k \in Conns
            /\ \E d : Quietly(sock[k], d) /\ sock' = [sock EXCEPT ![k] = d] /\ Takes(c, k, d)
    BY <1>2, ClientTakes
  <2>2. PICK k \in Conns : \E d : Takes(c, k, d)  BY <2>1
  <2>3. \/ heard' = heard
        \/ sock[k]["C"].in # <<>> /\ heard' = [heard EXCEPT ![k] = Append(@, Head(sock[k]["C"].in))]
    BY <2>2 DEF Takes
  <2>4. sock[k]["C"].in \in Seq(Words)  BY DEF HandInv, Traffic, ConnRecord, EndRecord, Ends
  <2>5. sock[k]["C"].in # <<>> => Head(sock[k]["C"].in) \in Words  BY <2>4
  <2>6. heard[k] \in Seq(Words)  BY DEF HeardTypes
  <2>7. sock[k]["C"].in # <<>> => Append(heard[k], Head(sock[k]["C"].in)) \in Seq(Words)  BY <2>5, <2>6
  <2>8. since' = since  BY <1>2 DEF serverHistory
  <2> QED  BY <2>3, <2>7, <2>8 DEF HeardTypes
<1>3. ASSUME UNCHANGED <<heard, since>> PROVE HeardTypes'  BY <1>3 DEF HeardTypes
<1> QED
  BY <1>1, <1>2, <1>3 DEF Next, ClientNext, ClientStep, ClientConnect, ClientConnectFails, vars, serverHistory, clients

\* All that is known about the server, its clients and the connections.
WholeInv == LinkInv /\ TableInv /\ HandInv /\ (Calm => ServedInv) /\ HeardTypes

\* It holds in every state.
LEMMA WholeInvariance == Spec => []WholeInv
<1>1. Init => HeardTypes
  BY DEF Init, ServerInit, ClientInit, HeardTypes
<1> QED
  BY <1>1, HeardTypesNext, TableInvariance, Invariance, LinkInvariance, HandInvariance, ServedInvariance, PTL
  DEF Spec, WholeInv

\* What it says while nothing broke and the table is right.
LEMMA Around ==
  ASSUME WholeInv, Intact
  PROVE  /\ IInv /\ Calm /\ CalmInv /\ TableInv /\ HandInv /\ ServedInv /\ HeardTypes
         /\ forgotten = 0 /\ orderly /\ faults = 0
BY DEF WholeInv, Intact, LinkInv, TableInv, Calm

\* A thread that is past the handshake has a connection that is not fresh.
LEMMA NotFresh ==
  ASSUME IInv, CalmInv, forgotten = 0, NEW t \in Serving, thread[t].pc \notin {"request", "reply"}
  PROVE  ~Fresh(Conn(t))
<1>1. Conn(t) \in Conns /\ thread[t].fd \in Fds /\ Conn(t) = fds[thread[t].fd]  BY OwnConn
<1>2. Conn(t) \in 1 .. conns  BY <1>1 DEF CalmInv, Conns
<1>3. conns \in Nat  BY SocketsAssumption DEF IInv, NetworkInv
<1>4. ~(Conn(t) > conns)  BY <1>2, <1>3
<1>5. Conn(t) \notin Waiting  BY <1>1 DEF CalmInv, Waiting
<1>6. ASSUME NEW s \in Threads, Conn(s) = Conn(t), thread[s].pc \in {"request", "reply"} PROVE FALSE
  <2>1. s \in Serving /\ s # t  BY <1>6 DEF Serving
  <2> QED  BY <1>6, <2>1, OwnConn
<1> QED  BY <1>4, <1>5, <1>6 DEF Fresh

\* Threads pass the reply by RunReply only.
LEMMA StaysPast ==
  ASSUME WholeInv, WholeInv', Intact, Intact', [Next]_vars, NEW t \in Threads, ~RunReply(t),
         thread'[t].pc \in {"register", "poll", "peek", "leave"}
  PROVE  Conn(t) = Conn(t)' /\ thread[t].pc \in {"register", "poll", "peek", "leave"}
<1>1. IInv /\ IInv' /\ Calm /\ Calm'  BY Around DEF WholeInv, LinkInv, Intact, Calm, TableInv
<1>2. /\ \A s \in Threads : thread'[s].pc = "register" =>
            (thread[s].pc = "register" \/ RunReply(s)) /\ Conn(s)' = Conn(s)
      /\ \A s \in Clients' : (s \in Clients \/ RunRegister(s)) /\ Conn(s)' = Conn(s)
  BY <1>1, Stages
<1>3. CASE thread'[t].pc = "register"  BY <1>2, <1>3
<1>4. CASE thread'[t].pc \in {"poll", "peek", "leave"}
  <2>1. t \in Clients'  BY <1>1, <1>4 DEF IInv, ServerInv, ThreadsInv, Clients, Registered
  <2>2. Conn(t)' = Conn(t) /\ (t \in Clients \/ RunRegister(t))  BY <1>2, <2>1
  <2>3. t \in Clients => thread[t].pc \in {"poll", "peek", "leave"}  BY DEF Clients, Registered
  <2>4. RunRegister(t) => thread[t].pc = "register"  BY DEF RunRegister, At
  <2> QED  BY <2>2, <2>3, <2>4
<1> QED  BY <1>3, <1>4

\* A connection that a step leaves alone.
LEMMA Untouched ==
  ASSUME WholeInv, WholeInv', Intact, Intact', [Next]_vars, NEW k \in Conns, Hears(k),
         writes' = writes, since'[k] = since[k], heard'[k] = heard[k], sock'[k]["C"].in = sock[k]["C"].in,
         sock'[k]["C"].open => sock[k]["C"].open,
         \A t \in Threads : RunReply(t) \/ RunRegister(t) => Conn(t) # k,
         \A c \in Nodes : client'[c].conn = k =>
                             client[c].conn = k /\ (client'[c].pc = "answer" <=> client[c].pc = "answer")
  PROVE  Hears(k)'
<1>1. IInv /\ IInv' /\ Calm /\ Calm'  BY Around DEF WholeInv, LinkInv, Intact, Calm, TableInv
<1>2. /\ Fresh(k)' => Fresh(k)
      /\ \A t \in Threads : thread'[t].pc = "register" =>
            (thread[t].pc = "register" \/ RunReply(t)) /\ Conn(t)' = Conn(t)
      /\ \A t \in Clients' : (t \in Clients \/ RunRegister(t)) /\ Conn(t)' = Conn(t)
  BY <1>1, Stages
<1>3. since'[k] <= writes'  BY DEF Hears
<1>4. Fresh(k)' => heard'[k] = <<>> /\ sock'[k]["C"].in = <<>>  BY <1>2 DEF Hears
<1>5. ASSUME NEW t \in Threads, Conn(t)' = k, thread'[t].pc = "register"
      PROVE  heard'[k] = <<>> /\ sock'[k]["C"].in \in {<<>>, << <<"answer">> >>}
  BY <1>2, <1>5 DEF Hears
<1>6. ASSUME NEW t \in Clients', Conn(t)' = k, sock'[k]["C"].open PROVE Heard(k)' = Packets(k)'
  <2>1. t \in Clients /\ Conn(t) = k
    <3>1. t \in Threads  BY <1>6 DEF Clients
    <3> QED  BY <1>2, <1>6, <3>1
  <2>2. Heard(k) = Packets(k)  BY <1>6, <2>1 DEF Hears
  <2>3. Heard(k)' = Heard(k) /\ Packets(k)' = Packets(k)  BY DEF Heard, Packets
  <2> QED  BY <2>2, <2>3
<1>7. ASSUME NEW c \in Nodes, client'[c].conn = k, client'[c].pc # "answer"
      PROVE  ~Carries(sock'[k]["C"].in, <<"answer">>)
  BY <1>7 DEF Hears
<1>8. ASSUME NEW t \in Threads, Conn(t)' = k, thread'[t].pc \in {"register", "poll", "peek", "leave"}
      PROVE  Conn(t) = k /\ thread[t].pc \in {"register", "poll", "peek", "leave"}
  <2>1. CASE RunReply(t)
    <3>1. t \in Serving  BY <2>1 DEF RunReply, At, Serving
    <3>2. Conn(t)' = Conn(t)
      <4>2. thread'[t].pc # "done"  BY <1>8
      <4> QED  BY <1>1, <3>1, <4>2, ConnKept DEF Calm
    <3> QED  BY <1>8, <2>1, <3>2
  <2>2. CASE ~RunReply(t)
    <3>1. Conn(t) = Conn(t)' /\ thread[t].pc \in {"register", "poll", "peek", "leave"}
      BY <1>8, <2>2, StaysPast
    <3> QED  BY <1>8, <3>1
  <2> QED  BY <2>1, <2>2
<1>9. AnswerFirst(k)'  BY <1>8 DEF Hears, AnswerFirst
<1> QED  BY <1>3, <1>4, <1>5, <1>6, <1>7, <1>9 DEF Hears

\* Before and after a step.
LEMMA AroundStep ==
  ASSUME WholeInv, WholeInv', Intact, Intact'
  PROVE  /\ IInv /\ Calm /\ CalmInv /\ TableInv /\ HandInv /\ ServedInv /\ HeardTypes
         /\ IInv' /\ Calm' /\ CalmInv' /\ HandInv' /\ HeardTypes' /\ forgotten = 0 /\ orderly
BY Around DEF WholeInv, LinkInv, Intact, Calm, TableInv

\* Steps of the server that send nothing; a client that is registered has heard nothing.
LEMMA SilentHeard ==
  ASSUME WholeInv, WholeInv', Intact, Intact', HeardInv, [Next]_vars,
         ServerNext, UNCHANGED clients, ~ServerWrite, \A t \in Threads : ~RunReply(t)
  PROVE  HeardInv'
<1> SUFFICES ASSUME NEW k \in Conns PROVE Hears(k)'  BY DEF HeardInv
<1>1. Hears(k)  BY DEF HeardInv
<1>2. Deaf  BY AroundStep, ServerDeaf
<1>3. /\ heard' = heard /\ client' = client
      /\ sock'[k]["C"].in = sock[k]["C"].in /\ sock'[k]["C"].open = sock[k]["C"].open
  BY <1>2 DEF Deaf, clients
<1>4. writes' = writes
  BY DEF ServerNext, ServerConnect, ServerConnectFails, ServerClose, CloseAll, ServerRead,
         LingerEnds, RunAccept, RunStep, RunRequest, RunRegister, RunRead, RunLeave, RunClose, RestUnchanged, serverHistory
<1>5. CASE \E t \in Threads : RunRegister(t) /\ Conn(t) = k
  <2>1. PICK t \in Threads : RunRegister(t) /\ Conn(t) = k  BY <1>5
  <2>2. thread[t].pc = "register" /\ since' = [since EXCEPT ![k] = writes]
    BY <2>1 DEF RunRegister, At, Conns
  <2>3. since'[k] = writes /\ writes \in Nat  BY <2>2, AroundStep DEF HeardTypes, HandInv, Traffic
  <2>4. heard[k] = <<>> /\ sock[k]["C"].in \in {<<>>, << <<"answer">> >>}  BY <1>1, <2>1, <2>2 DEF Hears
  <2>5. Fresh(k)' => Fresh(k)  BY AroundStep, Stages
  <2>6. Heard(k)' = Packets(k)'
    <3>1. sock'[k]["C"].in \in {<<>>, << <<"answer">> >>}  BY <1>3, <2>4
    <3>2. BehindAnswer(<<>>) = <<>> /\ BehindAnswer(<< <<"answer">> >>) = <<>>  BY DEF BehindAnswer
    <3>3. Heard(k)' = heard'[k] \o BehindAnswer(sock'[k]["C"].in)  BY DEF Heard, BehindAnswer
    <3>4. Heard(k)' = <<>>  BY <1>3, <2>4, <3>1, <3>2, <3>3
    <3>5. writes' - since'[k] = 0  BY <1>4, <2>3
    <3>6. Packets(k)' = [i \in 1 .. 0 |-> <<"packet", since'[k] + i>>]  BY <3>5 DEF Packets
    <3>7. Packets(k)' = <<>>  BY <3>6
    <3> QED  BY <3>4, <3>7
  <2>7. since'[k] <= writes'  BY <1>4, <2>3
  <2>8. AnswerFirst(k)'
    <3>1. ASSUME NEW s \in Threads, Conn(s)' = k, thread'[s].pc \in {"register", "poll", "peek", "leave"}
          PROVE  Conn(s) = k /\ thread[s].pc \in {"register", "poll", "peek", "leave"}
      BY <3>1, StaysPast
    <3> QED  BY <1>1, <1>3, <3>1 DEF Hears, AnswerFirst
  <2> QED  BY <1>1, <1>3, <2>4, <2>5, <2>6, <2>7, <2>8 DEF Hears
<1>6. CASE ~\E t \in Threads : RunRegister(t) /\ Conn(t) = k
  <2>1. since'[k] = since[k]
    <3>1. ASSUME NEW t \in Threads, RunRegister(t) PROVE since'[k] = since[k]
      <4>1. Conn(t) # k /\ (since' = since \/ since' = [since EXCEPT ![Conn(t)] = writes])
        BY <1>6, <3>1 DEF RunRegister
      <4> QED  BY <4>1, AroundStep DEF HeardTypes
    <3> QED  BY <3>1
         DEF ServerNext, ServerConnect, ServerConnectFails, ServerClose, CloseAll, ServerRead,
             LingerEnds, RunAccept, RunStep, RunRequest, RunRead, RunLeave, RunClose, RestUnchanged, serverHistory
  <2> QED  BY <1>1, <1>3, <1>4, <1>6, <2>1, Untouched
<1> QED  BY <1>5, <1>6

\* The answer is the first that a client gets, and it gets it once.
LEMMA ReplyHeard ==
  ASSUME WholeInv, WholeInv', Intact, Intact', HeardInv, [Next]_vars,
         NEW t \in Threads, RunReply(t), UNCHANGED clients
  PROVE  HeardInv'
<1>0. PICK j : j = Conn(t)  OBVIOUS
<1> DEFINE in == sock[j]["C"].in
<1>1. /\ \A k \in (Conns \cup {0}) \ {j} : sock'[k] = sock[k]
      /\ thread'[t].pc \in {"register", "close"}
      /\ sock'[j]["C"].in # in => /\ sock'[j]["C"].in = Append(in, <<"answer">>)
                                  /\ thread'[t].pc = "register"
      /\ thread'[t].pc = "register" /\ sock[j]["C"].open => sock'[j]["C"].in # in
      /\ sock'[j]["C"].open = sock[j]["C"].open
  BY <1>0, AroundStep, ReplyTo
<1>2. RunStep(t) /\ thread[t].pc = "reply" /\ t \in Serving  BY DEF RunStep, RunReply, At, Serving
<1>3. /\ \A s \in Threads \ {t} : thread'[s].pc = thread[s].pc
      /\ \A s \in Threads : thread'[s].fd = thread[s].fd
      /\ backlog' = backlog /\ conns' = conns /\ writes' = writes /\ fds' = fds
  BY <1>2, AroundStep, RunMoves
<1>4. since' = since /\ heard' = heard /\ client' = client
  BY DEF RunReply, RestUnchanged, serverHistory, clients
<1>5. \A s \in Threads \ {t} : ~RunReply(s) /\ ~RunRegister(s)
  <2> SUFFICES ASSUME NEW s \in Threads \ {t}, RunReply(s) \/ RunRegister(s) PROVE FALSE  OBVIOUS
  <2>1. thread[s].pc \in {"reply", "register"} /\ thread'[s].pc = thread[s].pc
    BY <1>3 DEF RunReply, RunRegister, At
  <2>2. CASE RunReply(s)
    <3>1. thread'[s].pc \in {"register", "close"}  BY <2>2, AroundStep, ReplyTo
    <3> QED  BY <2>1, <2>2, <3>1 DEF RunReply, At
  <2>3. CASE RunRegister(s)
    <3>1. RunStep(s) /\ thread[s].pc = "register"  BY <2>3 DEF RunStep, RunRegister, At
    <3>2. thread'[s].pc = "poll"  BY <3>1, AroundStep, RunMoves
    <3> QED  BY <2>1, <3>1, <3>2
  <2> QED  BY <2>2, <2>3
<1>6. ~RunRegister(t)  BY <1>2 DEF RunRegister, At
<1>7. j \in Conns  BY <1>0, <1>2, AroundStep, OwnConn
<1>8. Hears(j) /\ Fresh(j) /\ heard[j] = <<>> /\ in = <<>>
  <2>1. Hears(j)  BY <1>7 DEF HeardInv
  <2>2. Fresh(j)  BY <1>0, <1>2 DEF Fresh
  <2> QED  BY <2>1, <2>2 DEF Hears
<1>9. \A s \in Threads : Conn(s)' = Conn(s)  BY <1>3 DEF Conn, ConnOf
<1>10. \A s \in Serving \ {t} : Conn(s) # j  BY <1>0, <1>2, AroundStep, OwnConn
<1> SUFFICES ASSUME NEW k \in Conns PROVE Hears(k)'  BY DEF HeardInv
<1>11. CASE k # j
  <2>1. Hears(k) /\ sock'[k] = sock[k]  BY <1>1, <1>11 DEF HeardInv
  <2>2. \A s \in Threads : RunReply(s) \/ RunRegister(s) => Conn(s) # k  BY <1>0, <1>5, <1>6, <1>11
  <2> QED  BY <1>3, <1>4, <2>1, <2>2, Untouched
<1>12. CASE k = j
  <2>1. \/ sock'[j]["C"].in = <<>>
        \/ sock'[j]["C"].in = << <<"answer">> >> /\ thread'[t].pc = "register"
    <3>1. Append(<<>>, <<"answer">>) = << <<"answer">> >>  OBVIOUS
    <3> QED  BY <1>1, <1>8, <3>1
  <2>2. heard'[j] = <<>>  BY <1>4, <1>8
  <2>3. since'[j] <= writes'  BY <1>3, <1>4, <1>8 DEF Hears
  <2>4. Fresh(j)' => sock'[j]["C"].in = <<>>
    <3> SUFFICES ASSUME Fresh(j)', thread'[t].pc = "register" PROVE FALSE  BY <2>1
    <3>1. thread[t].fd \in Fds /\ j = fds[thread[t].fd]  BY <1>0, <1>2, AroundStep, OwnConn
    <3>2. j \in 1 .. conns  BY <1>7, <3>1, AroundStep DEF CalmInv, Conns
    <3>3. ~(j > conns')
      <4>1. conns \in Nat  BY SocketsAssumption, AroundStep DEF IInv, NetworkInv
      <4>2. ~(j > conns)  BY <3>2, <4>1
      <4> QED  BY <1>3, <4>2
    <3>4. j \notin Waiting'  BY <1>3, <1>7, <3>1, AroundStep DEF CalmInv, Waiting
    <3>5. PICK s \in Threads : Conn(s)' = j /\ thread'[s].pc \in {"request", "reply"}
      BY <3>3, <3>4 DEF Fresh
    <3>6. s # t /\ s \in Serving  BY <1>3, <3>5 DEF Serving
    <3> QED  BY <1>9, <1>10, <3>5, <3>6
  <2>5. \A s \in Clients' : Conn(s)' # j
    <3> SUFFICES ASSUME NEW s \in Clients', Conn(s)' = j PROVE FALSE  OBVIOUS
    <3>1. s \in Threads /\ thread'[s].pc \in {"poll", "peek", "leave"}  BY DEF Clients, Registered
    <3>2. s # t  BY <1>1, <3>1
    <3>3. s \in Serving  BY <1>3, <3>1, <3>2 DEF Serving
    <3> QED  BY <1>9, <1>10, <3>1, <3>2, <3>3
  <2>6. ASSUME NEW c \in Nodes, client'[c].conn = j, client'[c].pc # "answer" PROVE sock'[j]["C"].in = <<>>
    <3>1. client[c].conn = j /\ client[c].pc # "answer" /\ j # 0  BY <1>4, <1>7, <2>6 DEF Conns
    <3>2. client[c].path # <<>>
      <4> SUFFICES ASSUME Stranger(client[c].path) PROVE FALSE  BY DEF Stranger
      <4>1. Unasked(client[c].conn)  BY <3>1, AroundStep DEF HandInv, UnansweredInv
      <4> QED  BY <1>0, <1>2, <3>1, <4>1 DEF Unasked
    <3>3. Served(j)  BY <3>1, <3>2, AroundStep DEF ServedInv, Answered
    <3>4. PICK s \in Threads : Conn(s) = j /\ thread[s].pc \in {"register", "poll", "peek"}  BY <3>3 DEF Served
    <3>5. s \in Serving /\ s # t  BY <1>2, <3>4 DEF Serving
    <3> QED  BY <1>10, <3>4, <3>5
  <2>7. ~Carries(<<>>, <<"answer">>)  BY DEF Carries
  <2>8. AnswerFirst(j)'
    <3> SUFFICES ASSUME NEW c \in Nodes, client'[c].conn = j
                 PROVE  /\ sock'[j]["C"].in # <<>> => Head(sock'[j]["C"].in) = <<"answer">>
                        /\ \A s \in Threads :
                             Conn(s)' = j /\ thread'[s].pc \in {"register", "poll", "peek", "leave"} =>
                               sock'[j]["C"].in # <<>>
      BY DEF AnswerFirst
    <3>1. Head(<< <<"answer">> >>) = <<"answer">>  OBVIOUS
    <3>2. sock[j]["C"].open
      <4>1. client[c].conn = j /\ j # 0  BY <1>4, <1>7 DEF Conns
      <4> QED  BY <4>1, AroundStep DEF HandInv, ClientsInv
    <3>3. ASSUME NEW s \in Threads, Conn(s)' = j, thread'[s].pc \in {"register", "poll", "peek", "leave"}
          PROVE  sock'[j]["C"].in # <<>>
      <4>1. s \in Serving \/ s = t  BY <1>3, <3>3 DEF Serving
      <4>2. s = t  BY <1>9, <1>10, <3>3, <4>1
      <4>3. thread'[t].pc = "register"  BY <1>1, <3>3, <4>2
      <4> QED  BY <1>1, <1>8, <3>2, <4>3
    <3> QED  BY <2>1, <3>1, <3>3
  <2> QED  BY <1>12, <2>1, <2>2, <2>3, <2>4, <2>5, <2>6, <2>7, <2>8 DEF Hears
<1> QED  BY <1>11, <1>12

\* A word more at the end.
LEMMA ConcatMore ==
  ASSUME NEW h \in Seq(Words), NEW in \in Seq(Words), NEW x \in Words
  PROVE  h \o Append(in, x) = Append(h \o in, x)
<1> DEFINE l == h \o Append(in, x)
           r == Append(h \o in, x)
<1>1. /\ Append(in, x) \in Seq(Words) /\ Len(Append(in, x)) = Len(in) + 1
      /\ h \o in \in Seq(Words) /\ Len(h \o in) = Len(h) + Len(in)
      /\ Len(h) \in Nat /\ Len(in) \in Nat
  OBVIOUS
<1>2. l \in Seq(Words) /\ r \in Seq(Words) /\ Len(l) = Len(h) + Len(in) + 1 /\ Len(r) = Len(l)  BY <1>1
<1>3. ASSUME NEW i \in 1 .. Len(l) PROVE l[i] = r[i]
  <2>1. CASE i <= Len(h)  BY <1>1, <1>2, <2>1
  <2>2. CASE i > Len(h) /\ i <= Len(h) + Len(in)
    <3>1. l[i] = Append(in, x)[i - Len(h)] /\ r[i] = (h \o in)[i]  BY <1>1, <1>2, <2>2
    <3>2. Append(in, x)[i - Len(h)] = in[i - Len(h)] /\ (h \o in)[i] = in[i - Len(h)]
      BY <1>1, <1>2, <2>2
    <3> QED  BY <3>1, <3>2
  <2>3. CASE i = Len(h) + Len(in) + 1
    <3>1. l[i] = Append(in, x)[Len(in) + 1]  BY <1>1, <1>2, <2>3
    <3>2. r[i] = x  BY <1>1, <1>2, <2>3
    <3> QED  BY <3>1, <3>2
  <2> QED  BY <1>1, <1>2, <2>1, <2>2, <2>3
<1> HIDE DEF l, r
<1>4. l = r  BY <1>2, <1>3
<1> QED  BY <1>4 DEF l, r

\* The packets from one number to another.
Numbered(a, n) == [i \in 1 .. n |-> <<"packet", a + i>>]

\* There is one more of them.
LEMMA NumberedMore ==
  ASSUME NEW a \in Nat, NEW n \in Nat
  PROVE  Numbered(a, n + 1) = Append(Numbered(a, n), <<"packet", a + (n + 1)>>)
<1>1. \A m \in Nat : Numbered(a, m) \in Seq(Words) /\ Len(Numbered(a, m)) = m
                     /\ \A i \in 1 .. m : Numbered(a, m)[i] = <<"packet", a + i>>
  <2> SUFFICES ASSUME NEW m \in Nat
               PROVE  Numbered(a, m) \in Seq(Words) /\ Len(Numbered(a, m)) = m
                      /\ \A i \in 1 .. m : Numbered(a, m)[i] = <<"packet", a + i>>
    OBVIOUS
  <2>1. \A i \in 1 .. m : <<"packet", a + i>> \in Words
    <3> SUFFICES ASSUME NEW i \in 1 .. m PROVE <<"packet", a + i>> \in Words  OBVIOUS
    <3>1. a + i \in Nat  OBVIOUS
    <3> QED  BY <3>1 DEF Words
  <2>2. Numbered(a, m) \in [1 .. m -> Words]  BY <2>1 DEF Numbered
  <2>3. \A i \in 1 .. m : Numbered(a, m)[i] = <<"packet", a + i>>  BY DEF Numbered
  <2> QED  BY <2>2, <2>3
<1>2. PICK p : p = Numbered(a, n)  OBVIOUS
<1>3. PICK q : q = Numbered(a, n + 1)  OBVIOUS
<1>4. PICK x \in Words : x = <<"packet", a + (n + 1)>>
  <2>1. a + (n + 1) \in Nat  OBVIOUS
  <2> QED  BY <2>1 DEF Words
<1>5. p \in Seq(Words) /\ Len(p) = n /\ q \in Seq(Words) /\ Len(q) = n + 1 /\ q[n + 1] = x
      /\ \A i \in 1 .. n : q[i] = p[i]
  <2>1. p \in Seq(Words) /\ Len(p) = n /\ \A i \in 1 .. n : p[i] = <<"packet", a + i>>  BY <1>1, <1>2
  <2>2. n + 1 \in Nat  OBVIOUS
  <2>3. q \in Seq(Words) /\ Len(q) = n + 1 /\ \A i \in 1 .. n + 1 : q[i] = <<"packet", a + i>>
    BY <1>1, <1>3, <2>2, Zenon
  <2>4. n + 1 \in 1 .. n + 1 /\ \A i \in 1 .. n : i \in 1 .. n + 1  OBVIOUS
  <2>5. q[n + 1] = x  BY <1>4, <2>3, <2>4, Zenon
  <2> QED  BY <2>1, <2>3, <2>4, <2>5, Zenon
<1>6. q = Append(p, x)  BY ONLY <1>5, n \in Nat
<1> QED  BY <1>2, <1>3, <1>4, <1>6

\* One more packet has been written.
LEMMA OneMorePacket ==
  ASSUME writes \in Nat, writes' = writes + 1, NEW k \in Conns, since \in [Conns -> Nat],
         since[k] <= writes, since' = since
  PROVE  Packets(k)' = Append(Packets(k), <<"packet", writes + 1>>)
<1>1. PICK a \in Nat : a = since[k]  OBVIOUS
<1>2. PICK n \in Nat : n = writes - a  BY <1>1
<1>3. a + (n + 1) = writes + 1 /\ writes' - since'[k] = n + 1 /\ writes - since[k] = n  BY <1>1, <1>2
<1>4. Packets(k) = Numbered(a, n)  BY <1>1, <1>3 DEF Packets, Numbered
<1>5. Packets(k)' = Numbered(a, n + 1)  BY <1>1, <1>3 DEF Packets, Numbered
<1> QED  BY <1>3, <1>4, <1>5, NumberedMore

\* A packet goes to the end of what every client hears.
LEMMA WriteHeard ==
  ASSUME WholeInv, WholeInv', Intact, Intact', HeardInv, [Next]_vars, ServerWrite, UNCHANGED clients
  PROVE  HeardInv'
<1>1. /\ UNCHANGED <<fds, backlog, conns, thread, since>> /\ writes' = writes + 1
  BY AroundStep, WriteLoops
<1>2. Clients' = Clients /\ \A s \in Threads : Conn(s)' = Conn(s)
  BY <1>1 DEF Clients, Registered, Conn, ConnOf
<1>3. heard' = heard /\ client' = client  BY DEF clients
<1> SUFFICES ASSUME NEW k \in Conns PROVE Hears(k)'  BY DEF HeardInv
<1>4. Hears(k)  BY DEF HeardInv
<1>5. /\ sock[k] \in ConnRecord /\ sock[k]["C"] \in EndRecord /\ sock[k]["C"].in \in Seq(Words)
      /\ writes \in Nat /\ since \in [Conns -> Nat] /\ heard[k] \in Seq(Words)
      /\ <<"packet", writes + 1>> \in Words /\ <<"packet", writes + 1>> # <<"answer">>
  <2>1. sock[k] \in ConnRecord /\ writes \in Nat /\ since \in [Conns -> Nat] /\ heard[k] \in Seq(Words)
    BY AroundStep DEF HandInv, Traffic, HeardTypes
  <2>2. sock[k]["C"] \in EndRecord /\ sock[k]["C"].in \in Seq(Words)  BY <2>1 DEF ConnRecord, EndRecord, Ends
  <2>3. <<"packet", writes + 1>> \in Words  BY <2>1 DEF Words
  <2>4. <<"packet", writes + 1>> # <<"answer">>  OBVIOUS
  <2> QED  BY <2>1, <2>2, <2>3, <2>4
<1>6. since'[k] <= writes'  BY <1>1, <1>4, <1>5 DEF Hears
<1>7. Fresh(k)' => Fresh(k)  BY <1>1, <1>2 DEF Fresh, Waiting
<1>8. sock'[k] = IF \E t \in Clients : Conn(t) = k
                 THEN Sent(sock[k], "S", << <<"packet", writes + 1>> >>) ELSE sock[k]
  BY AroundStep, WriteExact
<1>9. CASE ~\E t \in Clients : Conn(t) = k
  <2>1. sock'[k] = sock[k]  BY <1>8, <1>9
  <2>2. \A t \in Threads : Conn(t)' = k /\ thread'[t].pc = "register" =>
          heard'[k] = <<>> /\ sock'[k]["C"].in \in {<<>>, << <<"answer">> >>}
    BY <1>1, <1>2, <1>3, <1>4, <2>1 DEF Hears
  <2>3. \A t \in Clients' : Conn(t)' # k
    <3>1. \A t \in Clients : t \in Threads  BY DEF Clients
    <3> QED  BY <1>2, <1>9, <3>1
  <2>4. Fresh(k)' => heard'[k] = <<>> /\ sock'[k]["C"].in = <<>>  BY <1>3, <1>4, <1>7, <2>1 DEF Hears
  <2>5. \A c \in Nodes : client'[c].conn = k /\ client'[c].pc # "answer" => ~Carries(sock'[k]["C"].in, <<"answer">>)
    BY <1>3, <1>4, <2>1 DEF Hears
  <2>6. AnswerFirst(k)'  BY <1>1, <1>2, <1>3, <1>4, <2>1 DEF Hears, AnswerFirst
  <2> QED  BY <1>6, <2>2, <2>3, <2>4, <2>5, <2>6 DEF Hears
<1>10. CASE \E t \in Clients : Conn(t) = k
  <2>1. PICK t \in Clients : Conn(t) = k  BY <1>10
  <2>2. t \in Serving /\ thread[t].pc \in {"poll", "peek", "leave"}
    BY <2>1 DEF Clients, Registered, Serving
  <2>3. ~Fresh(k)  BY <2>1, <2>2, AroundStep, NotFresh
  <2>4. \A s \in Threads : thread[s].pc = "register" => Conn(s) # k
    <3> SUFFICES ASSUME NEW s \in Threads, thread[s].pc = "register", Conn(s) = k PROVE FALSE  OBVIOUS
    <3>1. s \in Serving /\ s # t  BY <2>2 DEF Serving
    <3> QED  BY <2>1, <2>2, <3>1, AroundStep, OwnConn
  <2>5. sock'[k]["C"].open = sock[k]["C"].open /\ Quietly(sock[k], sock'[k])  BY AroundStep, WriteQuiet
  <2>6. ASSUME sock'[k]["C"].open PROVE Heard(k)' = Packets(k)'
    <3>1. Heard(k) = Packets(k)  BY <1>4, <2>1, <2>5, <2>6 DEF Hears
    <3>2. SendOk(sock[k], "S")
      <4>1. thread[t].fd \in Fds /\ k = fds[thread[t].fd]  BY <2>1, <2>2, AroundStep, OwnConn
      <4>2. sock[k]["S"].open  BY <4>1, AroundStep DEF CalmInv, Conns
      <4>3. Honest(sock[k])  BY AroundStep DEF CalmInv
      <4> QED  BY <2>5, <2>6, <4>2, <4>3 DEF Honest, SendOk
    <3>3. sock'[k]["C"].in = Append(sock[k]["C"].in, <<"packet", writes + 1>>)
      <4>1. "S" \in Ends /\ Peer("S") = "C"  BY DEF Ends, Peer
      <4>2. PICK w \in Words : w = <<"packet", writes + 1>>  BY <1>5
      <4>3. sock'[k] = Sent(sock[k], "S", <<w>>)  BY <1>8, <1>10, <4>2
      <4>4. Sent(sock[k], "S", <<w>>)[Peer("S")].in =
              IF SendOk(sock[k], "S") /\ sock[k][Peer("S")].open
              THEN Append(sock[k][Peer("S")].in, w) ELSE sock[k][Peer("S")].in
        BY <1>5, <4>1, SentWords
      <4> QED  BY <2>5, <2>6, <3>2, <4>1, <4>2, <4>3, <4>4
    <3> DEFINE x == <<"packet", writes + 1>>
               B == BehindAnswer(sock[k]["C"].in)
    <3>4. Heard(k)' = heard[k] \o Append(B, x)
      <4>1. BehindAnswer(Append(sock[k]["C"].in, x)) = Append(B, x)  BY <1>5, BehindMore
      <4>2. Heard(k)' = heard'[k] \o BehindAnswer(sock'[k]["C"].in)  BY DEF Heard, BehindAnswer
      <4> QED  BY <1>3, <3>3, <4>1, <4>2
    <3>5. B \in Seq(Words) /\ x \in Words /\ heard[k] \in Seq(Words)  BY <1>5, BehindMore
    <3> HIDE DEF x, B
    <3>6. heard[k] \o Append(B, x) = Append(heard[k] \o B, x)  BY <3>5, ConcatMore
    <3>7. Heard(k) = heard[k] \o B  BY DEF Heard, B
    <3>8. Packets(k)' = Append(Packets(k), x)
      <4>1. since[k] <= writes  BY <1>4 DEF Hears
      <4> QED  BY <1>1, <1>5, <4>1, OneMorePacket DEF x
    <3> QED  BY <3>1, <3>4, <3>6, <3>7, <3>8
  <2>7. ASSUME NEW c \in Nodes, client'[c].conn = k, client'[c].pc # "answer"
        PROVE  ~Carries(sock'[k]["C"].in, <<"answer">>)
    BY <1>3, <1>4, <2>5, <2>7 DEF Hears, Quietly
  <2>8. AnswerFirst(k)'
    <3> SUFFICES ASSUME NEW c \in Nodes, client[c].conn = k, client[c].pc = "answer"
                 PROVE  sock'[k]["C"].in # <<>> /\ Head(sock'[k]["C"].in) = <<"answer">>
      BY <1>3 DEF AnswerFirst
    <3> DEFINE in == sock[k]["C"].in
               x == <<"packet", writes + 1>>
    <3>1. in # <<>> /\ Head(in) = <<"answer">>
      <4>1. t \in Threads  BY <2>1 DEF Clients
      <4> QED  BY <1>4, <2>1, <2>2, <4>1 DEF Hears, AnswerFirst
    <3>2. sock'[k]["C"].in = in \/ sock'[k]["C"].in = Append(in, x)
      <4>1. "S" \in Ends /\ Peer("S") = "C"  BY DEF Ends, Peer
      <4>2. PICK w \in Words : w = x  BY <1>5
      <4>3. sock'[k] = Sent(sock[k], "S", <<w>>)  BY <1>8, <1>10, <4>2
      <4>4. Sent(sock[k], "S", <<w>>)[Peer("S")].in =
              IF SendOk(sock[k], "S") /\ sock[k][Peer("S")].open
              THEN Append(sock[k][Peer("S")].in, w) ELSE sock[k][Peer("S")].in
        BY <1>5, <4>1, SentWords
      <4>5. PICK b \in BOOLEAN : b = (SendOk(sock[k], "S") /\ sock[k]["C"].open)  OBVIOUS
      <4> QED  BY <4>1, <4>2, <4>3, <4>4, <4>5
    <3>3. in \in Seq(Words) /\ x \in Words  BY <1>5
    <3> HIDE DEF in, x
    <3>4. Append(in, x) # <<>> /\ Head(Append(in, x)) = Head(in)  BY <3>1, <3>3
    <3> QED  BY <3>1, <3>2, <3>4
  <2> QED  BY <1>1, <1>2, <1>6, <1>7, <2>3, <2>4, <2>6, <2>7, <2>8 DEF Hears
<1> QED  BY <1>9, <1>10

\* Answering and registering are steps that move a thread.
LEMMA ThreadsMove ==
  ASSUME IInv, thread' = thread
  PROVE  \A t \in Threads : ~RunReply(t) /\ ~RunRegister(t)
<1> SUFFICES ASSUME NEW t \in Threads, RunReply(t) \/ RunRegister(t) PROVE FALSE  OBVIOUS
<1>1. RunStep(t) /\ thread[t].pc \in {"reply", "register"}  BY DEF RunStep, RunReply, RunRegister, At
<1>2. CASE thread[t].pc = "reply"  BY <1>1, <1>2, RunMoves
<1>3. CASE thread[t].pc = "register"  BY <1>1, <1>3, RunMoves
<1> QED  BY <1>1, <1>2, <1>3

\* What the calls of a client leave waiting is what it has not heard.
LEMMA CallHeard ==
  ASSUME WholeInv, WholeInv', Intact, Intact', HeardInv, [Next]_vars, NEW c \in Nodes,
         UNCHANGED <<server, serverHistory>>,
         ClientAnswer(c) \/ ClientRead(c) \/ ClientWrite(c) \/ ClientClose(c)
  PROVE  HeardInv'
<1>1. LET i == client[c].conn
      IN  /\ i \in Conns
          /\ \E d : Quietly(sock[i], d) /\ sock' = [sock EXCEPT ![i] = d] /\ Takes(c, i, d)
  BY AroundStep, ClientTakes
<1>2. PICK i \in Conns : i = client[c].conn  BY <1>1
<1>3. PICK d : Quietly(sock[i], d) /\ sock' = [sock EXCEPT ![i] = d] /\ Takes(c, i, d)  BY <1>1, <1>2
<1>4. sock'[i] = d /\ \A j \in Conns \ {i} : sock'[j] = sock[j]  BY <1>3, AroundStep DEF HandInv, Traffic
<1>5. /\ UNCHANGED <<fds, thread, writes, since>>
      /\ Clients' = Clients /\ \A s \in Threads : Conn(s)' = Conn(s)
  BY DEF server, serverHistory, Clients, Registered, Conn, ConnOf
<1>6. /\ \A b \in Nodes \ {c} : client'[b] = client[b]
      /\ client'[c].pc = "answer" => client[c].pc = "answer"
  BY AroundStep, ClientStays
<1>7. \A b \in Nodes \ {c} : client[b].conn # i
  <2>1. i # 0  BY DEF Conns
  <2> QED  BY <1>2, <2>1, AroundStep DEF HandInv, ClientsInv
<1>8. \A t \in Threads : ~RunReply(t) /\ ~RunRegister(t)  BY <1>5, AroundStep, ThreadsMove
<1> SUFFICES ASSUME NEW k \in Conns PROVE Hears(k)'  BY DEF HeardInv
<1>9. Hears(k)  BY DEF HeardInv
<1> DEFINE in == sock[k]["C"].in
<1>10. in \in Seq(Words) /\ heard[k] \in Seq(Words) /\ heard \in [Conns -> Seq(Words)]
  BY AroundStep DEF HandInv, Traffic, HeardTypes, ConnRecord, EndRecord, Ends
<1>11. <<"answer">> \in Words  BY DEF Words
<1>12. CASE k # i
  <2>1. sock'[k] = sock[k]  BY <1>4, <1>12
  <2>2. heard'[k] = heard[k]  BY <1>3, <1>10, <1>12 DEF Takes
  <2>3. \A b \in Nodes : client'[b].conn = k =>
                            client[b].conn = k /\ (client'[b].pc = "answer" <=> client[b].pc = "answer")
    <3>1. k # 0  BY DEF Conns
    <3>2. client' = client => client'[c].conn = i  BY <1>2
    <3>3. client'[c].conn = i \/ client'[c].conn = 0  BY <1>3, <3>2 DEF Takes
    <3> QED  BY <1>6, <1>12, <3>1, <3>3
  <2> QED  BY <1>5, <1>8, <1>9, <2>1, <2>2, <2>3, Untouched
\* Nothing is read.
<1>13. ASSUME k = i, heard' = heard, d["C"].in = in, d["C"].open => sock[k]["C"].open,
              client'[c].conn = 0 \/ client[c].pc # "answer"
       PROVE  Hears(k)'
  <2>1. \A b \in Nodes : client'[b].conn = k =>
                            client[b].conn = k /\ (client'[b].pc = "answer" <=> client[b].pc = "answer")
    <3>1. k # 0  BY DEF Conns
    <3> QED  BY <1>2, <1>6, <1>13, <3>1
  <2> QED  BY <1>4, <1>5, <1>8, <1>9, <1>13, <2>1, Untouched
<1>14. ASSUME k = i, in # <<>> PROVE ~Fresh(k) /\ ~Fresh(k)'
  <2>1. ~Fresh(k)  BY <1>9, <1>14 DEF Hears
  <2>2. Fresh(k)' => Fresh(k)  BY AroundStep, Stages
  <2> QED  BY <2>1, <2>2
\* The answer is taken.
<1>15. ASSUME k = i, client[c].pc = "answer", in # <<>>, Head(in) = <<"answer">>,
              d["C"].open = sock[k]["C"].open, d["C"].in = Tail(in), heard' = heard,
              client'[c].pc = "idle"
       PROVE  Hears(k)'
  <2>1. Carries(in, <<"answer">>) /\ Tail(in) \in Seq(Words)  BY <1>10, <1>11, <1>15, CarriesAfter
  <2>2. client[c].conn = k /\ k # 0  BY <1>2, <1>15 DEF Conns
  <2>3. client[c].path # <<>>
    <3> SUFFICES ASSUME Stranger(client[c].path) PROVE FALSE  BY DEF Stranger
    <3>1. Unasked(client[c].conn)  BY <2>2, AroundStep DEF HandInv, UnansweredInv
    <3> QED  BY <2>1, <2>2, <3>1 DEF Unasked
  <2>4. Served(k)  BY <2>1, <2>2, <2>3, AroundStep DEF ServedInv, Answered
  <2>5. PICK t \in Threads : Conn(t) = k /\ thread[t].pc \in {"register", "poll", "peek"}  BY <2>4 DEF Served
  <2>6. sock[k]["C"].open  BY <2>2, AroundStep DEF HandInv, ClientsInv
  <2>7. ASSUME NEW s \in Threads, Conn(s) = k, thread[s].pc = "register" PROVE Tail(in) = <<>> /\ heard[k] = <<>>
    <3>1. in = << <<"answer">> >> /\ heard[k] = <<>>  BY <1>9, <1>15, <2>7 DEF Hears
    <3> HIDE DEF in
    <3>2. Tail(<< <<"answer">> >>) = <<>>  OBVIOUS
    <3> QED  BY <3>1, <3>2
  <2>8. ASSUME NEW s \in Clients, Conn(s) = k PROVE heard[k] \o Tail(in) = Packets(k) /\ ~Carries(Tail(in), <<"answer">>)
    <3>1. Heard(k) = Packets(k)  BY <1>9, <2>6, <2>8 DEF Hears
    <3>2. heard[k] \o Tail(in) = Packets(k)  BY <1>15, <3>1 DEF Heard, BehindAnswer
    <3>3. \A n \in DOMAIN Packets(k) : Packets(k)[n] # <<"answer">>
      <4>1. ASSUME NEW n \in 1 .. writes - since[k] PROVE Packets(k)[n] # <<"answer">>
        <5>1. Packets(k)[n] = <<"packet", since[k] + n>>  BY DEF Packets
        <5>2. \A m : <<"packet", m>> # <<"answer">>  OBVIOUS
        <5> QED  BY <5>1, <5>2
      <4>2. DOMAIN Packets(k) = 1 .. writes - since[k]  BY DEF Packets
      <4> QED  BY <4>1, <4>2
    <3> HIDE DEF in
    <3>4. ~Carries(Tail(in), <<"answer">>)  BY <1>10, <2>1, <3>2, <3>3, Waits
    <3> QED  BY <3>2, <3>4
  <2>9. ~Carries(Tail(in), <<"answer">>)
    <3>1. CASE thread[t].pc = "register"
      <4>1. Tail(in) = <<>>  BY <2>5, <2>7, <3>1
      <4> QED  BY <4>1 DEF Carries
    <3>2. CASE thread[t].pc # "register"
      <4>1. t \in Clients  BY <2>5, <3>2, AroundStep DEF IInv, ServerInv, ThreadsInv, Clients, Registered
      <4> QED  BY <2>5, <2>8, <4>1
    <3> QED  BY <3>1, <3>2
  <2> HIDE DEF in
  <2>10. BehindAnswer(Tail(in)) = Tail(in)
    <3> SUFFICES ASSUME Tail(in) # <<>>, Head(Tail(in)) = <<"answer">> PROVE FALSE  BY DEF BehindAnswer
    <3>1. Carries(Tail(in), Head(Tail(in)))  BY <1>11, <2>1, CarriesAfter
    <3> QED  BY <2>9, <3>1
  <2>11. sock'[k]["C"].in = Tail(in) /\ sock'[k]["C"].open = sock[k]["C"].open  BY <1>4, <1>15
  <2>12. ASSUME NEW s \in Clients, Conn(s) = k PROVE Heard(k)' = Packets(k)'
    <3>1. Heard(k)' = heard'[k] \o BehindAnswer(sock'[k]["C"].in)  BY DEF Heard, BehindAnswer
    <3>2. Heard(k)' = heard[k] \o Tail(in)  BY <1>15, <2>10, <2>11, <3>1
    <3>3. Packets(k)' = Packets(k)  BY <1>5 DEF Packets
    <3> QED  BY <2>8, <2>12, <3>2, <3>3
  <2>13. ~Fresh(k)'  BY <1>14, <1>15
  <2>14. \A s \in Clients : s \in Threads  BY DEF Clients
  <2>15. since'[k] <= writes'  BY <1>5, <1>9 DEF Hears
  <2>16. AnswerFirst(k)'  BY <1>6, <1>7, <1>15 DEF AnswerFirst
  <2> QED  BY <1>5, <1>15, <2>7, <2>9, <2>11, <2>12, <2>13, <2>14, <2>15, <2>16 DEF Hears
\* A packet is read.
<1>16. ASSUME k = i, client[c].pc # "answer", in # <<>>, d["C"].open = sock[k]["C"].open,
              d["C"].in = Tail(in), heard' = [heard EXCEPT ![k] = Append(@, Head(in))]
       PROVE  Hears(k)'
  <2>1. ~Carries(in, <<"answer">>)  BY <1>2, <1>9, <1>16 DEF Hears
  <2> HIDE DEF in
  <2>2. Tail(in) \in Seq(Words) /\ ~Carries(Tail(in), <<"answer">>) /\ Carries(in, Head(in))
    BY <1>10, <1>11, <1>16, <2>1, CarriesAfter
  <2>3. BehindAnswer(in) = in  BY <2>1, <2>2 DEF BehindAnswer
  <2>4. BehindAnswer(Tail(in)) = Tail(in)
    <3> SUFFICES ASSUME Tail(in) # <<>>, Head(Tail(in)) = <<"answer">> PROVE FALSE  BY DEF BehindAnswer
    <3>1. Carries(Tail(in), Head(Tail(in)))  BY <1>11, <2>2, CarriesAfter
    <3> QED  BY <2>2, <3>1
  <2>5. sock'[k]["C"].in = Tail(in) /\ sock'[k]["C"].open = sock[k]["C"].open  BY <1>4, <1>16
  <2>6. heard'[k] = Append(heard[k], Head(in))  BY <1>10, <1>16
  <2>7. Heard(k)' = Heard(k)
    <3>1. Heard(k)' = heard'[k] \o BehindAnswer(sock'[k]["C"].in)  BY DEF Heard, BehindAnswer
    <3>2. Heard(k)' = Append(heard[k], Head(in)) \o Tail(in)  BY <2>4, <2>5, <2>6, <3>1
    <3>3. Heard(k) = heard[k] \o in  BY <2>3 DEF Heard, in
    <3> QED  BY <1>10, <1>16, <3>2, <3>3, ReadOn
  <2>8. ASSUME NEW s \in Clients, Conn(s) = k, sock[k]["C"].open PROVE Heard(k)' = Packets(k)'
    <3>1. Heard(k) = Packets(k)  BY <1>9, <2>8 DEF Hears
    <3>2. Packets(k)' = Packets(k)  BY <1>5 DEF Packets
    <3> QED  BY <2>7, <3>1, <3>2
  <2>9. \A s \in Threads : Conn(s) = k => thread[s].pc # "register"
    <3> SUFFICES ASSUME NEW s \in Threads, Conn(s) = k, thread[s].pc = "register" PROVE FALSE  OBVIOUS
    <3>1. in = << <<"answer">> >>  BY <1>9, <1>16 DEF Hears, in
    <3>2. Head(in) = <<"answer">>  BY <3>1
    <3> QED  BY <2>1, <2>2, <3>2
  <2>10. ~Fresh(k)'  BY <1>14, <1>16
  <2>11. \A s \in Clients : s \in Threads  BY DEF Clients
  <2>12. since'[k] <= writes'  BY <1>5, <1>9 DEF Hears
  <2>13. AnswerFirst(k)'  BY <1>6, <1>7, <1>16 DEF AnswerFirst
  <2> QED  BY <1>5, <2>2, <2>5, <2>8, <2>9, <2>10, <2>11, <2>12, <2>13 DEF Hears
\* The connection is closed.
<1>17. ASSUME k = i, ~d["C"].open, d["C"].in = <<>> \/ d["C"].in = in, heard' = heard, client'[c].conn = 0
       PROVE  Hears(k)'
  <2>1. CASE d["C"].in = in  BY <1>13, <1>17, <2>1
  <2>2. CASE d["C"].in = <<>>
    <3>1. sock'[k]["C"].in = <<>> /\ ~sock'[k]["C"].open  BY <1>4, <1>17, <2>2
    <3>2. Fresh(k)' => heard'[k] = <<>>
      <4>1. Fresh(k)' => Fresh(k)  BY AroundStep, Stages
      <4> QED  BY <1>9, <1>17, <4>1 DEF Hears
    <3>3. \A s \in Threads : Conn(s)' = k /\ thread'[s].pc = "register" => heard'[k] = <<>>
      BY <1>5, <1>9, <1>17 DEF Hears
    <3>4. ~Carries(<<>>, <<"answer">>)  BY DEF Carries
    <3>5. since'[k] <= writes'  BY <1>5, <1>9 DEF Hears
    <3>6. AnswerFirst(k)'
      <4>1. k # 0  BY DEF Conns
      <4> QED  BY <1>6, <1>7, <1>17, <4>1 DEF AnswerFirst
    <3> QED  BY <3>1, <3>2, <3>3, <3>4, <3>5, <3>6 DEF Hears
  <2> QED  BY <1>17, <2>1, <2>2
<1>18. CASE k = i
  <2>1. \/ /\ client[c].pc = "answer" /\ in # <<>> /\ Head(in) = <<"answer">>
           /\ d["C"].open = sock[k]["C"].open /\ d["C"].in = Tail(in) /\ heard' = heard
           /\ client'[c].pc = "idle"
        \/ client[c].pc = "answer" /\ in # <<>> /\ Head(in) # <<"answer">>
        \/ /\ client[c].pc # "answer" /\ in # <<>>
           /\ d["C"].open = sock[k]["C"].open /\ d["C"].in = Tail(in)
           /\ heard' = [heard EXCEPT ![k] = Append(@, Head(in))]
        \/ /\ ~d["C"].open /\ (d["C"].in = <<>> \/ d["C"].in = in) /\ heard' = heard
           /\ client'[c].conn = 0
        \/ /\ client[c].pc # "answer"
           /\ d["C"].open = sock[k]["C"].open /\ d["C"].in = in /\ heard' = heard
    BY <1>3, <1>18 DEF Takes
  <2>2. client[c].pc = "answer" /\ in # <<>> => Head(in) = <<"answer">>
    BY <1>2, <1>9, <1>18 DEF Hears, AnswerFirst
  <2> HIDE DEF in
  <2> QED  BY <1>13, <1>15, <1>16, <1>17, <1>18, <2>1, <2>2
<1> QED  BY <1>12, <1>18

\* A new connection is silent.
LEMMA ConnectHeard ==
  ASSUME WholeInv, WholeInv', Intact, Intact', HeardInv, [Next]_vars, NEW c \in Nodes,
         UNCHANGED <<server, serverHistory>>,
         (\E path \in PathsOf[c] : ClientConnect(c, path)) \/ ClientConnectFails(c)
  PROVE  HeardInv'
<1>1. /\ UNCHANGED <<fds, thread, writes, since>>
      /\ Clients' = Clients /\ \A s \in Threads : Conn(s)' = Conn(s)
  BY DEF server, serverHistory, Clients, Registered, Conn, ConnOf
<1>2. \A t \in Threads : ~RunReply(t) /\ ~RunRegister(t)  BY <1>1, AroundStep, ThreadsMove
<1>3. heard' = heard  BY DEF ClientConnect, ClientConnectFails
<1>4. client \in [Nodes -> ClientRecord(0 .. conns)] /\ client[c] \in ClientRecord(0 .. conns)
      /\ conns \in Nat /\ DOMAIN sock = Conns \cup {0}
  BY AroundStep, SocketsAssumption DEF IInv, NetworkInv, HandInv, Traffic
<1> SUFFICES ASSUME NEW k \in Conns PROVE Hears(k)'  BY DEF HeardInv
<1>5. Hears(k) /\ k # 0  BY DEF HeardInv, Conns
<1>6. CASE ClientConnectFails(c)
  <2>1. client' = [client EXCEPT ![c].conn = 0] /\ sock' = sock
    BY <1>6 DEF ClientConnectFails, sockets
  <2>2. /\ \A b \in Nodes \ {c} : client'[b] = client[b]
        /\ client'[c].conn = 0
    BY <1>4, <2>1 DEF ClientRecord
  <2>3. \A b \in Nodes : client'[b].conn = k =>
                            client[b].conn = k /\ (client'[b].pc = "answer" <=> client[b].pc = "answer")
    BY <1>5, <2>2
  <2> QED  BY <1>1, <1>2, <1>3, <1>5, <2>1, <2>3, Untouched
<1>7. ASSUME NEW path \in PathsOf[c], ClientConnect(c, path) PROVE Hears(k)'
  <2> DEFINE up == [e \in Ends |-> Opened]
             d == IF path = <<>> THEN up ELSE Sent(up, "C", Request(path))
  <2>1. /\ client' = [client EXCEPT ![c].pc = IF path = <<>> THEN "idle" ELSE "answer",
                                    ![c].conn = conns + 1, ![c].path = path]
        /\ sock' = [sock EXCEPT ![conns + 1] = d]
    BY <1>7 DEF ClientConnect
  <2>2. d["C"].in = <<>>
    <3>1. "C" \in Ends  BY DEF Ends
    <3>2. up \in ConnRecord /\ up["C"].in = <<>>  BY <3>1, EndsMade DEF ConnRecord
    <3>3. CASE path = <<>>  BY <3>2, <3>3
    <3>4. CASE path # <<>>
      <4> DEFINE x == <<"get", path>>
      <4>1. Request(path) = <<x>>  BY DEF Request
      <4>3. x \in Words
        <5>1. path \in Seq(Chars)  BY ClientAssumption
        <5> QED  BY <5>1 DEF Words
      <4> HIDE DEF up, x
      <4>2. Sent(up, "C", <<x>>)["C"].in = up["C"].in  BY <3>1, <3>2, <4>3, SentWords
      <4> QED  BY <3>2, <3>4, <4>1, <4>2
    <3> QED  BY <3>3, <3>4
  <2> HIDE DEF d
  <2>3. /\ \A b \in Nodes \ {c} : client'[b] = client[b]
        /\ client'[c].conn = conns + 1
    BY <1>4, <2>1 DEF ClientRecord
  <2>4. CASE k # conns + 1
    <3>1. sock'[k] = sock[k]  BY <1>4, <2>1, <2>4
    <3>2. \A b \in Nodes : client'[b].conn = k =>
                              client[b].conn = k /\ (client'[b].pc = "answer" <=> client[b].pc = "answer")
      BY <2>3, <2>4
    <3> QED  BY <1>1, <1>2, <1>3, <1>5, <3>1, <3>2, Untouched
  <2>5. CASE k = conns + 1
    <3>1. sock'[k] = d  BY <1>4, <2>1, <2>5
    <3>2. k > conns  BY <1>4, <2>5
    <3>3. heard[k] = <<>>  BY <1>5, <3>2 DEF Hears, Fresh
    <3>4. \A s \in Threads : thread[s].pc \in {"register", "poll", "peek", "leave"} => Conn(s) # k
      <4> SUFFICES ASSUME NEW s \in Threads, thread[s].pc \in {"register", "poll", "peek", "leave"}, Conn(s) = k
                   PROVE  FALSE
        OBVIOUS
      <4>1. s \in Serving  BY DEF Serving
      <4>2. ~Fresh(k)  BY <4>1, AroundStep, NotFresh
      <4> QED  BY <3>2, <4>2 DEF Fresh
    <3>5. \A s \in Clients' : Conn(s)' # k
      <4>1. \A s \in Clients : s \in Threads /\ thread[s].pc \in {"poll", "peek", "leave"}
        BY DEF Clients, Registered
      <4> QED  BY <1>1, <3>4, <4>1
    <3>6. ~Carries(<<>>, <<"answer">>)  BY DEF Carries
    <3>7. since'[k] <= writes'  BY <1>1, <1>5 DEF Hears
    <3>8. AnswerFirst(k)'  BY <1>1, <2>2, <3>1, <3>4 DEF AnswerFirst
    <3> QED  BY <1>1, <1>3, <2>2, <3>1, <3>3, <3>4, <3>5, <3>6, <3>7, <3>8 DEF Hears
  <2> QED  BY <2>4, <2>5
<1> QED  BY <1>6, <1>7

\* What was disorderly stays so.
LEMMA IntactBefore ==
  ASSUME IInv, faults \in Nat, [Next]_vars, Intact'
  PROVE  Intact
<1>1. orderly' => orderly
  <2>1. CASE ServerNext
    BY <2>1 DEF ServerNext, ServerConnect, ServerConnectFails, ServerClose, CloseAll, ServerWrite,
                ServerRead, LingerEnds, RunAccept, RunStep, RunRequest, RunReply, RunRegister, RunRead,
                RunLeave, RunClose, RestUnchanged, serverHistory
  <2>2. CASE UNCHANGED serverHistory  BY <2>2 DEF serverHistory
  <2>3. CASE UNCHANGED vars  BY <2>3 DEF vars, serverHistory
  <2> QED  BY <2>1, <2>2, <2>3 DEF Next
<1> QED  BY <1>1, CalmBefore DEF Intact

\* Every step keeps what clients hear.
LEMMA HeardNext ==
  ASSUME WholeInv, WholeInv', Intact, Intact', HeardInv, [Next]_vars
  PROVE  HeardInv'
<1>1. CASE ServerNext /\ UNCHANGED clients
  BY <1>1, WriteHeard, ReplyHeard, SilentHeard
<1>2. CASE ClientNext /\ UNCHANGED <<server, serverHistory>>
  BY <1>2, ConnectHeard, CallHeard DEF ClientNext, ClientStep
<1>3. CASE \E k \in Conns : Break(k)
  <2>1. faults' = faults + 1  BY <1>3 DEF Break, Fault
  <2> QED  BY <2>1 DEF Intact
<1>4. CASE UNCHANGED vars
  <2>1. UNCHANGED <<client, sock, fds, thread, since, heard, writes, conns, backlog>>
    BY <1>4 DEF vars, sockets, server, serverHistory, clients
  <2>2. Clients' = Clients /\ \A s \in Threads : Conn(s)' = Conn(s)
    BY <2>1 DEF Clients, Registered, Conn, ConnOf
  <2> SUFFICES ASSUME NEW k \in Conns PROVE Hears(k)'  BY DEF HeardInv
  <2>3. Hears(k) /\ (Fresh(k)' <=> Fresh(k))  BY <2>1, <2>2 DEF HeardInv, Fresh, Waiting
  <2>4. Heard(k)' = Heard(k) /\ Packets(k)' = Packets(k)  BY <2>1 DEF Heard, BehindAnswer, Packets
  <2>5. \A s \in Clients : s \in Threads  BY DEF Clients
  <2>6. AnswerFirst(k)'  BY <2>1, <2>2, <2>3 DEF Hears, AnswerFirst
  <2> QED  BY <2>1, <2>2, <2>3, <2>4, <2>5, <2>6 DEF Hears
<1> QED  BY <1>1, <1>2, <1>3, <1>4 DEF Next

\* It holds as long as nothing broke and the table is right.
LEMMA HeardInvariance == Spec => [](Intact => HeardInv)
<1>1. Init => (Intact => HeardInv)
  <2> SUFFICES ASSUME Init PROVE HeardInv  OBVIOUS
  <2>1. /\ writes = 0 /\ since = [k \in Conns |-> 0] /\ heard = [k \in Conns |-> <<>>]
        /\ sock = [k \in Conns \cup {0} |-> [e \in Ends |-> Unused]]
        /\ \A t \in Threads : thread[t].pc = "none"
        /\ \A c \in Nodes : client[c] \in Disconnected
    BY DEF Init, SocketsInit, ServerInit, ClientInit, NoThread
  <2>2. \A x \in Disconnected : x.conn = 0  BY DEF Disconnected
  <2>3. \A k \in Conns : k # 0 /\ sock[k]["C"].in = <<>>  BY <2>1, EndsMade DEF Conns, Ends
  <2>4. \A k \in Conns : AnswerFirst(k)  BY <2>1, <2>2, <2>3 DEF AnswerFirst
  <2> QED  BY <2>1, <2>2, <2>3, <2>4 DEF HeardInv, Hears, Clients, Registered
<1>2. WholeInv /\ WholeInv' /\ (Intact => HeardInv) /\ [Next]_vars => (Intact => HeardInv)'
  <2> SUFFICES ASSUME WholeInv, WholeInv', Intact => HeardInv, [Next]_vars, Intact' PROVE HeardInv'
    OBVIOUS
  <2>1. Intact  BY IntactBefore DEF WholeInv, LinkInv
  <2> QED  BY <2>1, HeardNext
<1> QED  BY <1>1, <1>2, WholeInvariance, PTL DEF Spec

\* As long as the table is right and nothing broke, a client hears every packet
\* written since it was registered, once and in order, and nothing else
\* (_tcp_server.cpp:258-268).
THEOREM PacketsHeard == Spec => []EveryPacketHeard
<1>1. WholeInv /\ (Intact => HeardInv) => EveryPacketHeard
  <2> SUFFICES ASSUME WholeInv, Intact => HeardInv, NEW t \in Clients, NEW k, k = Conn(t),
                      orderly, faults = 0, k # 0, sock[k]["C"].open
               PROVE  Heard(k) = [i \in 1 .. writes - since[k] |-> <<"packet", since[k] + i>>]
    BY DEF EveryPacketHeard
  <2>1. t \in Serving  BY DEF Clients, Registered, Serving
  <2>2. Intact /\ HeardInv  BY DEF Intact
  <2>3. k \in Conns  BY <2>1, <2>2, Around, OwnConn
  <2>4. Heard(k) = Packets(k)  BY <2>2, <2>3 DEF HeardInv, Hears
  <2> QED  BY <2>4 DEF Packets
<1> QED  BY <1>1, WholeInvariance, HeardInvariance, PTL

=============================================================================

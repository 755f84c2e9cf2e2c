------------------------------ MODULE TcpSockets ------------------------------
(***************************************************************************)
(* TCP connections as the calls in src/xbus/tcp/ see them, and the static   *)
(* functions readline(fd), read(fd) and write(fd) of tcp_client.cpp that    *)
(* client and server share.                                                 *)
(*                                                                          *)
(* The kernel is external.  A connection k has an end "S" at the server and *)
(* an end "C" at the client.  What is sent is a sequence of tokens:          *)
(* <<"get", path>> and <<"answer">> in the handshake, <<"packet", n>> and   *)
(* the like for data, whose bytes are no lines of an answer.  An end that was *)
(* closed with unread data resets its peer, otherwise the peer reads the end *)
(* of the stream; a reset is reported to one call, after it receiving yields *)
(* 0 and sending fails.  Connection 0 stands for a descriptor that is not    *)
(* open.                                                                     *)
(***************************************************************************)
EXTENDS Integers, Sequences, FiniteSets

CONSTANTS
    Chars,       \* what the paths of requests are made of
    MaxConns,    \* bound: connections
    MaxFaults    \* bound: connections that break, buffers that are full, threads
                 \* that cannot be created, lines that come too late

ASSUME SocketsAssumption == MaxConns \in Nat /\ MaxFaults \in Nat

Conns == 1 .. MaxConns
Ends  == {"S", "C"}
Peer(e) == IF e = "S" THEN "C" ELSE "S"

VARIABLES
    sock,        \* for every connection its two ends
    listening,   \* the server listens: its _server_fd is open
    lingering,   \* threads that wait in accept() at a socket that was closed since,
                 \* which goes on listening for them
    backlog,     \* connections that wait for accept()
    conns,       \* connections so far
    faults

sockets == <<sock, listening, lingering, backlog, conns, faults>>

Unused == [open |-> FALSE, in |-> <<>>, eof |-> FALSE, st |-> "up"]
Opened == [Unused EXCEPT !.open = TRUE]

SocketsInit ==
    /\ sock = [k \in Conns \cup {0} |-> [e \in Ends |-> Unused]]
    /\ listening = FALSE
    /\ lingering = 0
    /\ backlog = <<>>
    /\ conns = 0
    /\ faults = 0

Reachable == listening \/ lingering > 0

Fault == faults < MaxFaults /\ faults' = faults + 1

-----------------------------------------------------------------------------
(* Effects on the two ends of one connection (c is sock[k]).                *)

\* send(): the first one to an end that was closed succeeds and is answered by a
\* reset.
SendOk(c, e) == c[e].open /\ c[e].st = "up"
Sent(c, e, tokens) ==
    IF ~c[e].open THEN c
    ELSE IF ~SendOk(c, e) THEN [c EXCEPT ![e].st = "dead"]
    ELSE IF c[Peer(e)].open THEN [c EXCEPT ![Peer(e)].in = @ \o tokens]
    ELSE [c EXCEPT ![e].st = "err"]

\* A reset arrives.
Reset(end) == [end EXCEPT !.st = IF end.st = "up" THEN "err" ELSE end.st]

\* close().
Closed(c, e) ==
    LET p == Peer(e)
    IN  IF ~c[e].open THEN c
        ELSE [c EXCEPT ![e] = Unused,
                       ![p] = IF ~c[p].open THEN c[p]
                              ELSE IF c[e].in # <<>> THEN Reset(c[p])
                              ELSE [c[p] EXCEPT !.eof = TRUE]]

\* What recv() at this end would return now: data, an error, 0, or nothing yet.
Readable(end) ==
    IF ~end.open THEN "error"
    ELSE IF end.in # <<>> THEN "data"
    ELSE IF end.st = "err" THEN "error"
    ELSE IF end.st = "dead" \/ end.eof THEN "eof"
    ELSE "nothing"

\* recv() that returns no data takes the report of a reset.
Reported(end) == [end EXCEPT !.st = IF end.st = "err" THEN "dead" ELSE end.st]

-----------------------------------------------------------------------------
(* The connection breaks, as both ends are told in time.                    *)
Break(k) ==
    /\ Fault
    /\ \E e \in Ends : sock[k][e].open /\ sock[k][e].st = "up"
    /\ sock' = [sock EXCEPT ![k] = [e \in Ends |-> IF @[e].open THEN Reset(@[e]) ELSE @[e]]]
    /\ UNCHANGED <<listening, lingering, backlog, conns>>

-----------------------------------------------------------------------------
(* tcp_client::readline(fd), called until a request or an answer is complete: *)
(* it fails at the end of the stream, on an error, and after the timeout of   *)
(* the socket (five seconds).                                                 *)
FirstToken(k, e) == Head(sock[k][e].in)

NoLine(k, e) ==
    \/ /\ Readable(sock[k][e]) \in {"error", "eof"}
       /\ UNCHANGED faults
    \/ /\ Readable(sock[k][e]) = "nothing"
       /\ Fault

(* tcp_client::read(fd), called while it is at "poll" and, when poll() has    *)
(* waited for a second and there was nothing to report, at "peek": there      *)
(* recv(MSG_PEEK) waits for five seconds.  What is found is received at once: *)
(* once a socket has something to report it does until that is received.     *)
(* The result is "data", "none", "lost", or "peek" when the call goes on.     *)
AfterPoll(end) ==
    CASE Readable(end) = "data"    -> "data"
      [] Readable(end) = "nothing" -> "peek"
      [] Readable(end) = "eof"     -> "none"
      [] Readable(end) = "error"   -> "lost"

BadAfterPeek(end) ==                 \* the timeout is taken for an error
    IF Readable(end) = "data" THEN "data" ELSE "lost"
AfterPeek(end) ==
    CASE Readable(end) = "data"    -> "data"
      [] Readable(end) = "nothing" -> "none"
      [] OTHER                     -> "lost"

AfterRead(end, at) == IF at = "poll" THEN AfterPoll(end) ELSE AfterPeek(end)

\* The end of the connection after that.
ReadFrom(end, at) ==
    CASE AfterRead(end, at) = "data"              -> [end EXCEPT !.in = Tail(@)]
      [] Readable(end) = "error" /\ end.open      -> Reported(end)
      [] OTHER                                    -> end
=============================================================================

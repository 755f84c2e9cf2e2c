------------------------------- MODULE MCTcpLink -------------------------------
(* Instances of TcpLink for TLC.                                            *)
EXTENDS TcpLink, TLC

Served  == <<"s">>
Paths == [c \in Nodes |-> {<<"s", "2">>, <<"t">>, <<>>}]
Symmetry == Permutations(Nodes)

\* What later steps or properties read: of the packets for the owner whether there are
\* any; of the table the entries that count; of a thread that ends no place in the table,
\* and no descriptor once it has; of a client without a connection no path, and whether
\* its _host.stream is set while it can connect again; which entries have moved until
\* it matters; and what was sent and heard as long as EveryPacketHeard speaks of it.
Audible(k) == orderly /\ faults = 0 /\ sock[k]["C"].open
View ==
    <<sockets, client_cnt, tid_cnt, fds, sends, rx_fifo = <<>>, opens, unspawned, forgotten, orderly, writes,
      IF orderly THEN moved ELSE {},
      [k \in Conns |-> IF Audible(k) THEN <<since[k], heard[k]>> ELSE <<>>],
      [i \in DOMAIN client_fd |-> IF i < client_cnt THEN client_fd[i] ELSE 0],
      [t \in Threads |-> CASE thread[t].pc = "done" -> <<"done">>
                           [] thread[t].pc = "close" -> <<"close", thread[t].fd>>
                           [] OTHER -> <<thread[t].pc, thread[t].fd, thread[t].idx>>],
      [c \in Nodes |-> IF client[c].conn # 0 THEN client[c] ELSE client[c].stream /\ conns < MaxConns]>>
=============================================================================

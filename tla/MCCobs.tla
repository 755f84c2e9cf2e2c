-------------------------------- MODULE MCCobs --------------------------------
(* Small instances of Cobs and Downlink for TLC.  The variable part tells which *)
(* of the two a behaviour is about; the variables of the other stay.          *)
EXTENDS Cobs, Downlink, SequencesExt

\* A checksum of which either byte may be zero.
WeightedSum(p) == FoldLeft(LAMBDA s, b : (2 * s + b) % ((MaxByte + 1) * (MaxByte + 1)), 1, p)
SmallCrc(p) == <<WeightedSum(p) % (MaxByte + 1), WeightedSum(p) \div (MaxByte + 1)>>

\* Two masks, variables that take fewer bytes in the compact mode and one that does
\* not; room for one variable to room for all; with and without a dl_period.
Var(full, ext) == [full |-> full, ext |-> ext]
Setting(maxSize, periodic) ==
    [vars |-> <<Var(2, 1), Var(1, 1), Var(2, 1)>>, bits |-> 2, maxSize |-> maxSize, periodic |-> periodic]
SmallSettings == {Setting(7, TRUE), Setting(7, FALSE), Setting(8, TRUE), Setting(20, TRUE)}

VARIABLE part

allvars == <<vars, downvars, part>>

MCInit ==
    /\ Init /\ DownlinkInit
    /\ part \in {"cobs", "downlink"}
    /\ part = "cobs" => setting = Setting(20, TRUE) /\ ~dl_hd_save /\ dl_reset_mask = {} /\ dl_snapshot[1] = 0

MCNext ==
    \/ part = "cobs" /\ Next /\ UNCHANGED <<downvars, part>>
    \/ part = "downlink" /\ DownlinkNext /\ UNCHANGED <<vars, part>>

MCSpec == MCInit /\ [][MCNext]_allvars /\ WF_clock(part = "downlink" /\ Sends)

Recovers == part = "downlink" => DownlinkRecovers
=============================================================================

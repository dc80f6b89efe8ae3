------------------------------- MODULE MCMptcp -------------------------------
(***************************************************************************)
(* Model-checking instances of MptcpEngine: the model values and the      *)
(* families of scripts each run explores.                                  *)
(***************************************************************************)
EXTENDS MptcpEngine, TLC

CONSTANTS c, s,         \* the script's names for packetdrill's and the kernel's key
          c2,           \* packetdrill's key name in a second connection
          k1, k2,       \* key values
          n1, n2,       \* nonce values
          t1, t2, t3,   \* packetdrill-side ports
          kp            \* the kernel's port

MCNames == {c, s}
MCKeys == {k1, k2}
MCNonces == {n1, n2}
MCToolPorts == {t1, t2}
MCToolPorts3 == {t1, t2, t3}
MCKernelPorts == {kp}

\* A script packet with one MPTCP option, on the subflow <<tport, kport>>,
\* carrying the key names "names" (queued by the parser in this order).
Packet(sub, dir, syn, ack, len, tport, names) ==
    [sub |-> sub, dir |-> dir, syn |-> syn, ack |-> ack, len |-> len,
     src |-> IF dir = "IN" THEN tport ELSE kp,
     dst |-> IF dir = "IN" THEN kp ELSE tport,
     names |-> names]

\* MP_CAPABLE packets of a handshake on the first subflow
SynIn(t)      == Packet("MP_CAPABLE", "IN", TRUE, FALSE, "CAP_SYN", t, <<c>>)
SynAckOut(t)  == Packet("MP_CAPABLE", "OUT", TRUE, TRUE, "CAP_SYN", t, <<s>>)
AckIn(t)      == Packet("MP_CAPABLE", "IN", FALSE, TRUE, "CAP", t, <<c, s>>)
SynOut(t)     == Packet("MP_CAPABLE", "OUT", TRUE, FALSE, "CAP_SYN", t, <<s>>)
SynAckIn(t)   == Packet("MP_CAPABLE", "IN", TRUE, TRUE, "CAP_SYN", t, <<c>>)
AckOut(t)     == Packet("MP_CAPABLE", "OUT", FALSE, TRUE, "CAP", t, <<s, c>>)
\* an MP_CAPABLE option with flags that match no handler branch
CapBadIn(t)   == Packet("MP_CAPABLE", "IN", TRUE, FALSE, "CAP", t, <<>>)

\* Each SYN and SYN/ACK sent once or retransmitted once
Repeat(p) == {<<p>>, <<p, p>>}

\* packetdrill opens the connection (active) or the kernel does (passive)
ActiveHandshakes ==
    {a \o b \o <<AckIn(t1)>> : a \in Repeat(SynIn(t1)), b \in Repeat(SynAckOut(t1))}
PassiveHandshakes ==
    {a \o b \o <<AckOut(t1)>> : a \in Repeat(SynOut(t1)), b \in Repeat(SynAckIn(t1))}

\* Run "capable": one handshake, possibly followed by a malformed option
CapableScripts ==
    {h \o tl : h \in ActiveHandshakes \cup PassiveHandshakes,
               tl \in {<<>>, <<CapBadIn(t1)>>}}

\* A script opening a second MPTCP connection after the first: both share
\* packetdrill's single mp_state; the second SYN names its key <c2>.
SecondConnectionScripts ==
    {<<SynIn(t1), SynAckOut(t1), AckIn(t1),
       Packet("MP_CAPABLE", "IN", TRUE, FALSE, "CAP_SYN", t2, <<c2>>)>>}
MCNames2 == {c, s, c2}
AllDefs2 == [MCNames2 -> {NoVar} \cup {ScriptVar(k) : k \in MCKeys}]

\* MP_JOIN packets of a second subflow
JoinSynIn(t)     == Packet("MP_JOIN", "IN", TRUE, FALSE, "JOIN_SYN", t, <<>>)
JoinSynAckOut(t) == Packet("MP_JOIN", "OUT", TRUE, TRUE, "JOIN_SYN_ACK", t, <<>>)
JoinAckIn(t)     == Packet("MP_JOIN", "IN", FALSE, TRUE, "JOIN_ACK", t, <<>>)
JoinSynOut(t)    == Packet("MP_JOIN", "OUT", TRUE, FALSE, "JOIN_SYN", t, <<>>)
JoinSynAckIn(t)  == Packet("MP_JOIN", "IN", TRUE, TRUE, "JOIN_SYN_ACK", t, <<>>)
JoinAckOut(t)    == Packet("MP_JOIN", "OUT", FALSE, TRUE, "JOIN_ACK", t, <<>>)
\* an MP_JOIN option whose length does not fit its flags
JoinBadIn(t)     == Packet("MP_JOIN", "IN", TRUE, FALSE, "JOIN_ACK", t, <<>>)

Handshakes ==
    {<<SynIn(t1), SynAckOut(t1), AckIn(t1)>>, <<SynOut(t1), SynAckIn(t1), AckOut(t1)>>}

\* packetdrill joins on t2, its SYN possibly retransmitted (each SYN
\* creates a subflow), possibly followed by a malformed option
ToolJoins ==
    {a \o <<JoinSynAckOut(t2), JoinAckIn(t2)>> \o e :
        a \in Repeat(JoinSynIn(t2)), e \in {<<>>, <<JoinBadIn(t2)>>}}
\* the kernel joins on t2
KernelJoins == {<<JoinSynOut(t2), JoinSynAckIn(t2), JoinAckOut(t2)>>}

ToolJoinScripts == {h \o j : h \in Handshakes, j \in ToolJoins}
KernelJoinScripts == {h \o j : h \in Handshakes, j \in KernelJoins}
\* Every order in which the packets of a and of b can be merged, each
\* keeping its own order
RECURSIVE Shuffles(_, _)
Shuffles(a, b) ==
    IF a = <<>> THEN {b}
    ELSE IF b = <<>> THEN {a}
    ELSE {<<Head(a)>> \o x : x \in Shuffles(Tail(a), b)}
         \cup {<<Head(b)>> \o x : x \in Shuffles(a, Tail(b))}

\* The three packets of a join on port t, opened by packetdrill or the kernel
OneJoin(t) == {<<JoinSynIn(t), JoinSynAckOut(t), JoinAckIn(t)>>,
               <<JoinSynOut(t), JoinSynAckIn(t), JoinAckOut(t)>>}

\* Two joins, on t2 and t3, whose packets interleave in every order
InterleavedJoinScripts ==
    UNION {{h \o x : x \in Shuffles(a, b)} :
              h \in Handshakes, a \in OneJoin(t2), b \in OneJoin(t3)}

JoinScripts == ToolJoinScripts \cup KernelJoinScripts \cup InterleavedJoinScripts

\* A DSS option on the subflow of tport: IPv4 (ihl 5) or IPv6, a TCP header
\* of doff 32-bit words, "payload" data bytes, the DSN and DATA_ACK the
\* script wrote (0 here: only their sum with the initial values matters)
Dss(dir, len, flagDsn, flagDack, payload, ipv, tport) ==
    [Packet("DSS", dir, FALSE, TRUE, len, tport, <<>>) EXCEPT !.len = len]
    @@ [flagDsn |-> flagDsn, flagDack |-> flagDack, rawDsn |-> 0, rawDack |-> 0,
        payload |-> payload, ipv |-> ipv, ihl |-> 5, doff |-> 8,
        ipBytes |-> 5 * 4 + 8 * 4 + payload]

\* The DSS options an IPv4 script sends on subflow t
DssVocab(t) ==
    {Dss("IN", len, TRUE, dack, pl, 4, t) :
        len \in {"DSS_DSN8", "DSS_DSN8_WOCS"}, dack \in BOOLEAN, pl \in {1, 2}}
    \cup {Dss("IN", "DSS_ACK", FALSE, TRUE, 0, 4, t), Dss("OUT", "DSS_DSN8", TRUE, TRUE, 1, 4, t)}

\* Run "data": a handshake, packetdrill possibly joining on t2, then up to
\* three DSS options on either subflow
DataScripts ==
    {h \o d : h \in Handshakes, d \in SeqOf(DssVocab(t1), 3)}
    \cup
    {h \o <<JoinSynIn(t2), JoinSynAckOut(t2), JoinAckIn(t2)>> \o d :
        h \in Handshakes, d \in SeqOf(DssVocab(t1) \cup DssVocab(t2), 2)}

\* The third ACK of the handshake sent twice before the data
ResentAckScripts ==
    {<<SynIn(t1), SynAckOut(t1), AckIn(t1), Dss("IN", "DSS_DSN8", TRUE, FALSE, 1, 4, t1),
       AckIn(t1), Dss("IN", "DSS_DSN8", TRUE, FALSE, 1, 4, t1)>>}

\* The data of an IPv6 test
Ipv6Scripts ==
    {h \o <<Dss("IN", "DSS_DSN8", TRUE, FALSE, 1, 6, t1)>> : h \in Handshakes}

\* No name is given a value by the script, or any of them is
AllDefs == [MCNames -> {NoVar} \cup {ScriptVar(k) : k \in MCKeys}]
NoDefs == {[n \in MCNames |-> NoVar]}
\* Only packetdrill's key may be given by the script
ToolDefs == {[n \in MCNames |-> IF n = c THEN d ELSE NoVar] :
                d \in {NoVar} \cup {ScriptVar(k) : k \in MCKeys}}

\* A DSS mapping in an IPv4 packet with 4 bytes of IP options (ihl 6)
IpOptionsScripts ==
    {h \o <<[Dss("IN", "DSS_DSN8", TRUE, FALSE, 1, 4, t1)
              EXCEPT !.ihl = 6, !.ipBytes = 6 * 4 + 8 * 4 + 1]>> : h \in Handshakes}

\* Run "session": the handshakes of "capable", then data on the first
\* subflow, or a join and data on the second
SessionScripts ==
    CapableScripts
    \cup {h \o d : h \in Handshakes, d \in SeqOf(DssVocab(t1), 2)}
    \cup {h \o j \o d : h \in Handshakes, j \in ToolJoins \cup KernelJoins,
                        d \in SeqOf(DssVocab(t2), 1)}

==============================================================================

----------------------------- MODULE MptcpEngine -----------------------------
(***************************************************************************)
(* packetdrill's MPTCP option engine (gtests/net/packetdrill/mptcp.c).    *)
(*                                                                         *)
(* packetdrill parses the whole script first: every "<name>" key token is *)
(* queued (enqueue_var) and every name the script gives a value is bound   *)
(* (add_mp_var_script_defined).  It then runs the script packet by        *)
(* packet; for each packet that carries an MPTCP option,                  *)
(* mptcp_insert_and_extract_opt_fields rewrites the option: in an inbound *)
(* packet (script -> kernel) the values packetdrill sends, in an outbound *)
(* packet (kernel -> script) the values it expects, learning what it      *)
(* needs from the live kernel packet.  A handler error aborts the test.   *)
(*                                                                         *)
(* One step of this module is one script packet with one MPTCP option.    *)
(* The kernel is the environment: its key is fixed for the behaviour, its *)
(* nonces are chosen when its packets arrive.                              *)
(***************************************************************************)
EXTENDS Integers, Sequences, SequencesExt, MptcpBindings, MptcpCrypto

CONSTANTS
    Names,        \* script variable names of keys, e.g. <c> and <s>
    Keys,         \* values a 64-bit key can take (rand_64, kernel, script)
    Nonces,       \* values a 32-bit nonce can take (generate_32, kernel)
    Zero,         \* the zero value of a never-written global field
    Unset,        \* the content of a field malloc left uninitialised
    NoOut,        \* no option rewritten (yet, or the handler failed)
    ToolPorts,    \* packetdrill-side TCP ports
    KernelPorts,  \* kernel-side TCP ports
    Scripts,      \* the scripts (sequences of packets) to run
    Defs,         \* the script-defined bindings the parser may make
    LiveHasOption,    \* whether a live kernel packet may carry (TRUE) or
                      \* lack (FALSE) the MPTCP option the handler reads
    UnterminatedNames \* TRUE: the bytes after a queued name may be garbage

ASSUME Zero \notin Keys /\ Unset \notin Keys \cup Nonces

Slots == {"packetdrill", "kernel"}
Pairs == ToolPorts \X KernelPorts

VARIABLES
    key,          \* mp_state.packetdrill_key / kernel_key
    keySet,       \* mp_state.packetdrill_key_set / kernel_key_set
    initialDsn,   \* mp_state.initial_dsn
    lastAddrId,   \* mp_state.last_packetdrill_addr_id
    varsQueue,    \* mp_state.vars_queue
    vars,         \* mp_state.vars
    subflows,     \* mp_state.subflows, head first
    script,       \* the script packets not yet run
    status,       \* "running", "failed" (a handler returned STATUS_ERR),
                  \* "crashed" (a NULL pointer was dereferenced)
    kernelKey,    \* the key the kernel under test really uses
    out,          \* the option of the last packet, as rewritten
    wire,         \* the nonces on the wire of each subflow (history)
    sent          \* payload bytes sent with a DSS mapping on each subflow
                  \* (history: the kernel's subflow-relative sequence)

vars_ == <<key, keySet, initialDsn, lastAddrId, varsQueue, vars, subflows,
           script, status, kernelKey, out, wire, sent>>

KeyVals == Keys \cup {Zero}
Bytes(S) == [v : S, swapped : BOOLEAN]
NonceBytes == Bytes(Nonces) \cup {Unset}

\* struct mp_subflow (addresses and the kernel's address id are left out:
\* nothing in mptcp.c reads them back)
Subflow == [src : ToolPorts, dst : KernelPorts,
            pdRand : NonceBytes, kRand : NonceBytes,
            pdAddrId : 0..255 \cup {Unset}, ssn : Nat]

\* A script packet with one MPTCP option (DSS ones carry the IP/TCP
\* lengths and DSS flags and values too)
IsPacket(p) ==
    /\ p.sub \in {"MP_CAPABLE", "MP_JOIN", "DSS"} /\ p.dir \in {"IN", "OUT"}
    /\ p.syn \in BOOLEAN /\ p.ack \in BOOLEAN
    /\ {p.src, p.dst} \subseteq ToolPorts \cup KernelPorts
    /\ p.names \in Seq(Names)
    /\ p.sub = "DSS" =>
         /\ {p.flagDsn, p.flagDack} \subseteq BOOLEAN /\ p.ipv \in {4, 6}
         /\ {p.rawDsn, p.rawDack, p.payload, p.ihl, p.doff, p.ipBytes} \subseteq Nat

TypeOK ==
    /\ key \in [Slots -> KeyVals]
    /\ keySet \in [Slots -> BOOLEAN]
    /\ initialDsn \in {Zero} \cup {Idsn(k) : k \in KeyVals}
    /\ lastAddrId \in 0..255
    /\ \A i \in DOMAIN varsQueue : varsQueue[i] \in DOMAIN vars
    /\ Names \subseteq DOMAIN vars
    /\ \A n \in DOMAIN vars : vars[n] \in {NoVar} \cup {ScriptVar(k) : k \in Keys}
                                              \cup {KeyVar(s) : s \in Slots}
    /\ subflows \in Seq(Subflow)
    /\ \A i \in DOMAIN script : IsPacket(script[i])
    /\ status \in {"running", "failed", "crashed"}
    /\ kernelKey \in Keys
    /\ out = NoOut \/ out.sub \in {"MP_CAPABLE", "MP_JOIN", "DSS"}
    /\ wire \in [Pairs -> [tool : NonceBytes, kernel : NonceBytes]]
    /\ sent \in [Pairs -> Nat]

-----------------------------------------------------------------------------
(* Packets *)

\* The subflow of a packet from packetdrill's side: <<its port, kernel's>>
PairOf(p) == IF p.dir = "IN" THEN <<p.src, p.dst>> ELSE <<p.dst, p.src>>

\* does_subflow_match_inbound_packet / does_subflow_match_outbound_packet
MatchInbound(sf, p) == sf.dst = p.dst /\ sf.src = p.src
MatchOutbound(sf, p) == sf.dst = p.src /\ sf.src = p.dst

\* find_matching_subflow: index of the first subflow of the list that the
\* match function of the packet's direction accepts, 0 (NULL) if none
FindMatchingSubflow(p, dir) ==
    SelectInSeq(subflows, LAMBDA sf : IF dir = "IN" THEN MatchInbound(sf, p)
                                                    ELSE MatchOutbound(sf, p))

\* find_subflow_matching_inbound_packet / _outbound_packet
FindInbound(p) == FindMatchingSubflow(p, "IN")
FindOutbound(p) == FindMatchingSubflow(p, "OUT")

\* enqueue_var copies a name's characters without its '\0'.  What the
\* string functions then read is the name followed by whatever the heap
\* holds after the copy: either a 0 byte (the name itself) or garbage,
\* which makes a string of its own that no other occurrence equals.  An
\* occurrence with garbage is the pair <<name, its position in the queue>>.
QueuedName(q, dirty, i) == IF i \in dirty THEN <<q[i], i>> ELSE q[i]

Init ==
    /\ \E s \in Scripts, d \in Defs :
         LET q == FlattenSeq([i \in DOMAIN s |-> s[i].names]) IN
         \E dirty \in IF UnterminatedNames THEN SUBSET DOMAIN q ELSE {{}} :
          /\ script = s
          /\ varsQueue = [i \in DOMAIN q |-> QueuedName(q, dirty, i)]
          /\ vars = [n \in Names \cup {QueuedName(q, dirty, i) : i \in dirty} |->
                      IF n \in Names THEN d[n] ELSE NoVar]
    /\ key = [s \in Slots |-> Zero]
    /\ keySet = [s \in Slots |-> FALSE]
    /\ initialDsn = Zero
    /\ lastAddrId = 0
    /\ subflows = <<>>
    /\ status = "running"
    /\ kernelKey \in Keys
    /\ out = NoOut
    /\ wire = [pr \in Pairs |-> [tool |-> Unset, kernel |-> Unset]]
    /\ sent = [pr \in Pairs |-> 0]

\* The packet a handler runs on, and the end of its step: the next packet
\* runs only if the handler returned STATUS_OK.
Pkt == Head(script)
Running == status = "running" /\ script # <<>>
Finish(err) ==
    /\ script' = Tail(script)
    /\ status' = IF err THEN "failed" ELSE "running"

-----------------------------------------------------------------------------
(* Subflow table *)

\* Mutant of NewSubflowInbound: the sequence counter starts at 1, as if
\* the SYN had been counted.
NewSubflowInboundSsnOne(p, r) ==
    [src |-> p.src, dst |-> p.dst, pdRand |-> Host(r), kRand |-> Unset,
     pdAddrId |-> lastAddrId, ssn |-> 1]

\* new_subflow_inbound: a subflow opened by packetdrill, with a fresh nonce
\* and the next address id, pushed on the head of the list.
NewSubflowInbound(p, r) ==
    [src |-> p.src, dst |-> p.dst, pdRand |-> Host(r), kRand |-> Unset,
     pdAddrId |-> lastAddrId, ssn |-> 0]

\* Mutant of NewSubflowOutbound: the ports copied without swapping them
\* to packetdrill's perspective.
NewSubflowOutboundUnswapped(p, kRand) ==
    [src |-> p.src, dst |-> p.dst, pdRand |-> Unset, kRand |-> kRand,
     pdAddrId |-> Unset, ssn |-> 0]

\* Mutant of NewSubflowOutbound: the sequence counter starts at 1.
NewSubflowOutboundSsnOne(p, kRand) ==
    [src |-> p.dst, dst |-> p.src, pdRand |-> Unset, kRand |-> kRand,
     pdAddrId |-> Unset, ssn |-> 1]

\* new_subflow_outbound: a subflow opened by the kernel; the nonce is read
\* raw from the MPTCP option of pkt, packetdrill's fields stay as malloc
\* left them.  (From an MP_CAPABLE ACK the "nonce" is key bytes read
\* through the union: Unset too.)
NewSubflowOutbound(p, kRand) ==
    [src |-> p.dst, dst |-> p.src, pdRand |-> Unset, kRand |-> kRand,
     pdAddrId |-> Unset, ssn |-> 0]

-----------------------------------------------------------------------------
(* MP_CAPABLE *)

\* The key fields of mp_state and the bindings, as the MP_CAPABLE key
\* handlers return them
KeyState == [key |-> key, keySet |-> keySet, vars |-> vars]

\* set_packetdrill_key / set_kernel_key: store the key, mark the slot set
SetKey(st, slot, v) == [st EXCEPT !.key[slot] = v, !.keySet[slot] = TRUE]

\* The front name of the queue has a value the script gave it
FrontScriptKey == varsQueue # <<>> /\ IsScriptDefined(vars, Head(varsQueue))

\* Mutant of BindFront: the name bound to packetdrill's slot whatever slot
\* was learnt.
BindFrontPacketdrill(st, slot) ==
    IF varsQueue = <<>> THEN st
    ELSE [st EXCEPT !.vars = AddMpVar(@, Head(varsQueue), KeyVar("packetdrill"))]

\* add_mp_var_key(front name, &slot), when there is a front name
BindFront(st, slot) ==
    IF varsQueue = <<>> THEN st
    ELSE [st EXCEPT !.vars = AddMpVar(@, Head(varsQueue), KeyVar(slot))]

\* Mutant of LearnKey: a fresh key set and bound even when one is known.
LearnKeyAlways(slot, fresh) ==
    IF FrontScriptKey THEN SetKey(KeyState, slot, vars[Head(varsQueue)].value)
    ELSE BindFront(SetKey(KeyState, slot, fresh), slot)

\* The body shared by mptcp_gen_key and extract_and_set_kernel_key: the
\* front name's script value, if it has one, is set into the slot; then,
\* if the slot is still not set, the fresh key is set and the front name
\* bound to the slot.
LearnKey(slot, fresh) ==
    LET st == IF FrontScriptKey
              THEN SetKey(KeyState, slot, vars[Head(varsQueue)].value)
              ELSE KeyState
    IN  IF st.keySet[slot] THEN st ELSE BindFront(SetKey(st, slot, fresh), slot)

\* mptcp_gen_key: with an empty queue it returns before anything; the
\* fresh key is rand_64 (r).
GenKey(r) == IF varsQueue = <<>> THEN KeyState ELSE LearnKey("packetdrill", r)

\* extract_and_set_kernel_key: a live packet without an MPTCP option
\* changes nothing (its STATUS_ERR is overwritten by the caller, as is the
\* one for an empty queue); the fresh key is the live option's.
ExtractKernelKey(liveHasOpt) ==
    IF ~liveHasOpt THEN KeyState ELSE LearnKey("kernel", kernelKey)

\* The SYN branches of mptcp_subtype_mp_capable: gen_key (inbound) or
\* extract_and_set_kernel_key (outbound), then mptcp_set_mp_cap_syn_key
\* pops the front name and writes its key into the option.
CapSyn(g) ==
    LET k == FindNextKey(varsQueue, g.vars, g.key)
    IN  /\ key' = g.key
        /\ keySet' = g.keySet
        /\ vars' = g.vars
        /\ varsQueue' = DequeueVar(varsQueue)
        /\ out' = IF k = NoVar THEN NoOut
                  ELSE [sub |-> "MP_CAPABLE", dir |-> Pkt.dir, syn |-> TRUE,
                        key |-> k]
        /\ Finish(k = NoVar)
        /\ UNCHANGED <<initialDsn, lastAddrId, subflows, kernelKey, wire, sent>>

\* Inbound MP_CAPABLE SYN: the key packetdrill sends
MpCapableSynIn ==
    /\ Running
    /\ Pkt.sub = "MP_CAPABLE" /\ Pkt.len = "CAP_SYN"
    /\ Pkt.syn /\ Pkt.dir = "IN" /\ ~Pkt.ack
    /\ \E r \in Keys : CapSyn(GenKey(r))

\* Inbound MP_CAPABLE SYN/ACK (packetdrill answers the kernel's SYN)
MpCapableSynAckIn ==
    /\ Running
    /\ Pkt.sub = "MP_CAPABLE" /\ Pkt.len = "CAP_SYN"
    /\ Pkt.syn /\ Pkt.dir = "IN" /\ Pkt.ack
    /\ \E r \in Keys : CapSyn(GenKey(r))

\* Outbound MP_CAPABLE SYN or SYN/ACK: the kernel's key.  The error of
\* extract_and_set_kernel_key is overwritten by that of set_syn_key.
MpCapableSynOut ==
    /\ Running
    /\ Pkt.sub = "MP_CAPABLE" /\ Pkt.len = "CAP_SYN"
    /\ Pkt.syn /\ Pkt.dir = "OUT"
    /\ \E liveHasOpt \in LiveHasOption : CapSyn(ExtractKernelKey(liveHasOpt))

\* mptcp_set_mp_cap_keys: pops the sender's name, then, only if that one
\* was bound, the receiver's; the two keys (NoVar: not found) and the
\* queue it leaves.
CapKeys ==
    LET snd == FindNextKey(varsQueue, vars, key)
        q1  == DequeueVar(varsQueue)
    IN  [sender |-> snd,
         receiver |-> IF snd = NoVar THEN NoVar ELSE FindNextKey(q1, vars, key),
         queue |-> IF snd = NoVar THEN q1 ELSE DequeueVar(q1)]

\* The third ACK: mptcp_set_mp_cap_keys; whatever it returned, the IDSN is
\* derived from packetdrill's key and the first subflow is created.
MpCapableAck ==
    /\ Running
    /\ Pkt.sub = "MP_CAPABLE" /\ Pkt.len = "CAP" /\ ~Pkt.syn /\ Pkt.ack
    /\ LET snd == CapKeys.sender
           rcv == CapKeys.receiver
           err == snd = NoVar \/ rcv = NoVar
       IN  /\ varsQueue' = CapKeys.queue
           /\ initialDsn' = Idsn(key.packetdrill)
           /\ \E r \in Nonces :
                IF Pkt.dir = "IN"
                THEN /\ subflows' = <<NewSubflowInbound(Pkt, r)>> \o subflows
                     /\ lastAddrId' = (lastAddrId + 1) % 256
                ELSE /\ subflows' = <<NewSubflowOutbound(Pkt, Unset)>> \o subflows
                     /\ UNCHANGED lastAddrId
           /\ out' = IF err THEN NoOut
                     ELSE [sub |-> "MP_CAPABLE", dir |-> Pkt.dir, syn |-> FALSE,
                           sender |-> snd, receiver |-> rcv]
           /\ Finish(err)
    /\ UNCHANGED <<key, keySet, vars, kernelKey, wire, sent>>

\* Any other length/flags/direction combination of an MP_CAPABLE option
MpCapableOther ==
    /\ Running
    /\ Pkt.sub = "MP_CAPABLE"
    /\ ~(Pkt.len = "CAP_SYN" /\ Pkt.syn)
    /\ ~(Pkt.len = "CAP" /\ ~Pkt.syn /\ Pkt.ack)
    /\ out' = NoOut
    /\ Finish(TRUE)
    /\ UNCHANGED <<key, keySet, initialDsn, lastAddrId, varsQueue, vars,
                   subflows, kernelKey, wire, sent>>

-----------------------------------------------------------------------------
(* MP_JOIN *)

\* The option fields written by an MP_JOIN handler (case = the branch, in
\* the order of mptcp_subtype_mp_join) on the subflow pair pr
JoinOut(case, pr, fields) == [sub |-> "MP_JOIN", case |-> case, pair |-> pr] @@ fields

\* Mutant of UpdateSubflow: the nonce stored into a copy of the entry, the
\* list left as it was.
UpdateSubflowLost(i, sf) == UNCHANGED subflows

\* The step's effect on one subflow of the list (index i)
UpdateSubflow(i, sf) == subflows' = [subflows EXCEPT ![i] = sf]

\* Mutant of KernelToken: the token derived from packetdrill's own key.
KernelTokenOwnKey == Hton(Host(Token(key.packetdrill)))

\* receiver_token = htonl(sha1_least_32bits(mp_state.kernel_key))
KernelToken == Hton(Host(Token(key.kernel)))

\* Case 1, inbound SYN: packetdrill opens a subflow; it sends the kernel's
\* token, its new nonce (as generate_32 left it) and address id.
MpJoinSynIn ==
    /\ Running
    /\ Pkt.sub = "MP_JOIN" /\ Pkt.dir = "IN" /\ ~Pkt.ack /\ Pkt.syn
    /\ Pkt.len = "JOIN_SYN"
    /\ \E r \in Nonces :
         LET sf == NewSubflowInbound(Pkt, r) IN
         /\ subflows' = <<sf>> \o subflows
         /\ lastAddrId' = (lastAddrId + 1) % 256
         /\ out' = JoinOut(1, PairOf(Pkt),
                     [token |-> KernelToken,
                      rand |-> sf.pdRand, addrId |-> sf.pdAddrId])
         /\ wire' = [wire EXCEPT ![PairOf(Pkt)] = [tool |-> sf.pdRand, kernel |-> Unset]]
    /\ Finish(FALSE)
    /\ UNCHANGED <<key, keySet, initialDsn, varsQueue, vars, kernelKey, sent>>

\* Case 2, outbound SYN/ACK: the kernel's nonce is read from the live
\* option into the subflow and the expected option, with the HMAC the
\* kernel should send: keys kernel||packetdrill, nonces kernel, packetdrill.
MpJoinSynAckOut ==
    /\ Running
    /\ Pkt.sub = "MP_JOIN" /\ Pkt.dir = "OUT" /\ Pkt.ack /\ Pkt.syn
    /\ Pkt.len = "JOIN_SYN_ACK"
    /\ \E liveHasOpt \in LiveHasOption, nk \in Nonces :
         LET i == FindOutbound(Pkt)
             sf == [subflows[i] EXCEPT !.kRand = Host(nk)]
         IN  IF i = 0 \/ ~liveHasOpt
             THEN /\ out' = NoOut
                  /\ Finish(TRUE)
                  /\ UNCHANGED <<subflows, wire>>
             ELSE /\ UpdateSubflow(i, sf)
                  /\ out' = JoinOut(2, PairOf(Pkt),
                              [rand |-> sf.kRand,
                               hmac |-> Host(Hmac(<<key.kernel, key.packetdrill>>,
                                                  <<sf.kRand, sf.pdRand>>, 64))])
                  /\ wire' = [wire EXCEPT ![PairOf(Pkt)].kernel = sf.kRand]
                  /\ Finish(FALSE)
    /\ UNCHANGED <<key, keySet, initialDsn, lastAddrId, varsQueue, vars, kernelKey, sent>>

\* Case 3, inbound ACK: packetdrill's full HMAC, keys packetdrill||kernel,
\* nonces packetdrill, kernel.
MpJoinAckIn ==
    /\ Running
    /\ Pkt.sub = "MP_JOIN" /\ Pkt.dir = "IN" /\ Pkt.ack /\ ~Pkt.syn
    /\ Pkt.len = "JOIN_ACK"
    /\ LET i == FindInbound(Pkt) IN
       IF i = 0 THEN out' = NoOut /\ Finish(TRUE)
       ELSE /\ out' = JoinOut(3, PairOf(Pkt),
                       [hmac |-> Host(Hmac(<<key.packetdrill, key.kernel>>,
                                 <<subflows[i].pdRand, subflows[i].kRand>>, 160))])
            /\ Finish(FALSE)
    /\ UNCHANGED <<key, keySet, initialDsn, lastAddrId, varsQueue, vars,
                   subflows, kernelKey, wire, sent>>

\* Case 4, outbound SYN: the kernel opens a subflow; new_subflow_outbound
\* reads its nonce raw from the live option.  Without an MPTCP option in
\* the live packet it returns NULL, which this branch dereferences.
MpJoinSynOut ==
    /\ Running
    /\ Pkt.sub = "MP_JOIN" /\ Pkt.dir = "OUT" /\ ~Pkt.ack /\ Pkt.syn
    /\ Pkt.len = "JOIN_SYN"
    /\ \E liveHasOpt \in LiveHasOption, nk \in Nonces :
         IF ~liveHasOpt
         THEN /\ status' = "crashed" /\ script' = Tail(script) /\ out' = NoOut
              /\ UNCHANGED <<subflows, wire>>
         ELSE LET sf == NewSubflowOutbound(Pkt, Host(nk)) IN
              /\ subflows' = <<sf>> \o subflows
              /\ out' = JoinOut(4, PairOf(Pkt),
                          [rand |-> Hton(sf.kRand),
                           token |-> KernelToken])
              /\ wire' = [wire EXCEPT ![PairOf(Pkt)] = [tool |-> Unset, kernel |-> sf.kRand]]
              /\ Finish(FALSE)
    /\ UNCHANGED <<key, keySet, initialDsn, lastAddrId, varsQueue, vars, kernelKey, sent>>

\* Case 5, inbound SYN/ACK: packetdrill answers the kernel's subflow with
\* a new nonce (sent through htonl), the next address id (not stored in the
\* subflow) and the truncated HMAC (sent through htobe64), keys
\* packetdrill||kernel, nonces packetdrill, kernel as held in memory.
MpJoinSynAckIn ==
    /\ Running
    /\ Pkt.sub = "MP_JOIN" /\ Pkt.dir = "IN" /\ Pkt.ack /\ Pkt.syn
    /\ Pkt.len = "JOIN_SYN_ACK"
    /\ LET i == FindInbound(Pkt) IN
       IF i = 0 THEN /\ out' = NoOut /\ Finish(TRUE)
                     /\ UNCHANGED <<subflows, lastAddrId, wire>>
       ELSE \E r \in Nonces :
            LET sf == [subflows[i] EXCEPT !.pdRand = Host(r)] IN
            /\ UpdateSubflow(i, sf)
            /\ lastAddrId' = (lastAddrId + 1) % 256
            /\ out' = JoinOut(5, PairOf(Pkt),
                        [addrId |-> lastAddrId, rand |-> Hton(sf.pdRand),
                         hmac |-> Hton(Host(Hmac(<<key.packetdrill, key.kernel>>,
                                                 <<sf.pdRand, sf.kRand>>, 64)))])
            /\ wire' = [wire EXCEPT ![PairOf(Pkt)].tool = Hton(sf.pdRand)]
            /\ Finish(FALSE)
    /\ UNCHANGED <<key, keySet, initialDsn, varsQueue, vars, kernelKey, sent>>

\* Case 6, outbound ACK: the full HMAC the kernel should send, keys
\* kernel||packetdrill, nonces kernel, packetdrill.
MpJoinAckOut ==
    /\ Running
    /\ Pkt.sub = "MP_JOIN" /\ Pkt.dir = "OUT" /\ Pkt.ack /\ ~Pkt.syn
    /\ Pkt.len = "JOIN_ACK"
    /\ LET i == FindOutbound(Pkt) IN
       IF i = 0 THEN out' = NoOut /\ Finish(TRUE)
       ELSE /\ out' = JoinOut(6, PairOf(Pkt),
                       [hmac |-> Host(Hmac(<<key.kernel, key.packetdrill>>,
                                 <<subflows[i].kRand, subflows[i].pdRand>>, 160))])
            /\ Finish(FALSE)
    /\ UNCHANGED <<key, keySet, initialDsn, lastAddrId, varsQueue, vars,
                   subflows, kernelKey, wire, sent>>

\* Any other direction/flags/length of an MP_JOIN option
MpJoinOther ==
    /\ Running
    /\ Pkt.sub = "MP_JOIN"
    /\ <<Pkt.dir, Pkt.syn, Pkt.ack, Pkt.len>> \notin
         {<<"IN", TRUE, FALSE, "JOIN_SYN">>, <<"OUT", TRUE, TRUE, "JOIN_SYN_ACK">>,
          <<"IN", FALSE, TRUE, "JOIN_ACK">>, <<"OUT", TRUE, FALSE, "JOIN_SYN">>,
          <<"IN", TRUE, TRUE, "JOIN_SYN_ACK">>, <<"OUT", FALSE, TRUE, "JOIN_ACK">>}
    /\ out' = NoOut
    /\ Finish(TRUE)
    /\ UNCHANGED <<key, keySet, initialDsn, lastAddrId, varsQueue, vars,
                   subflows, kernelKey, wire, sent>>

-----------------------------------------------------------------------------
(* DSS *)

\* The TCP payload length mptcp_subtype_dss computes in u16 arithmetic:
\* the IP header is taken as ihl*8 bytes and only the TCP options are
\* subtracted from the rest.
\* Mutant of TcpPayloadLength: the whole TCP header subtracted.
TcpPayloadLengthWholeHeader(p) == (p.ipBytes - p.ihl * 8 - p.doff * 4) % 65536

TcpPayloadLength(p) == (p.ipBytes - p.ihl * 8 - (p.doff * 4 - 20)) % 65536

\* The data ACK: htobe64(initial_dack + value in the script); initial_dack
\* is a field of the global mp_state that nothing assigns.
DackField(p) == Hton(Host([base |-> Zero, off |-> p.rawDack]))

\* The DSN-carrying branches: DSN = htobe64(initial_dsn + script value)
\* (+1 without checksum), data-level length = htons(payload length), subflow
\* sequence = htonl of the matched subflow's, which then grows by the
\* payload length; with a checksum, the checksum over the segment and the
\* (dsn, ssn, dll, 0) block.  IPv6 packets have no ipv4 header to read
\* ihl from, and a packet of no known subflow has no subflow: both are
\* NULL dereferences.
DssDsn(withChecksum) ==
    LET p   == Pkt
        pr  == PairOf(p)
        len == TcpPayloadLength(p)
        i   == FindInbound(p)
        dsn == Hton(Host([base |-> initialDsn,
                          off |-> p.rawDsn + (IF withChecksum THEN 0 ELSE 1)]))
        dll == Hton(Host(len))
        ssn == Hton(Host(subflows[i].ssn))
        fields == [dsn |-> dsn, dll |-> dll, ssn |-> ssn]
                  @@ (IF withChecksum
                      THEN [csum |-> [dsn |-> dsn, ssn |-> ssn, dll |-> dll]]
                      ELSE <<>>)
                  @@ (IF p.flagDack THEN [dack |-> DackField(p)] ELSE <<>>)
    IN  IF p.ipv = 6 \/ i = 0
        THEN /\ status' = "crashed" /\ script' = Tail(script) /\ out' = NoOut
             /\ UNCHANGED <<subflows, sent>>
        ELSE /\ UpdateSubflow(i, [subflows[i] EXCEPT !.ssn = @ + len])
             /\ out' = [sub |-> "DSS", pair |-> pr] @@ fields
             /\ sent' = [sent EXCEPT ![pr] = @ + p.payload]
             /\ Finish(FALSE)

\* Inbound DSS with an 8-byte DSN and a checksum
MpDssDsnChecksumIn ==
    /\ Running
    /\ Pkt.sub = "DSS" /\ Pkt.dir = "IN"
    /\ Pkt.flagDsn /\ Pkt.len = "DSS_DSN8"
    /\ DssDsn(TRUE)
    /\ UNCHANGED <<key, keySet, initialDsn, lastAddrId, varsQueue, vars,
                   kernelKey, wire>>

\* Inbound DSS with an 8-byte DSN and no checksum
MpDssDsnIn ==
    /\ Running
    /\ Pkt.sub = "DSS" /\ Pkt.dir = "IN"
    /\ Pkt.flagDsn /\ Pkt.len = "DSS_DSN8_WOCS"
    /\ DssDsn(FALSE)
    /\ UNCHANGED <<key, keySet, initialDsn, lastAddrId, varsQueue, vars,
                   kernelKey, wire>>

\* Inbound DSS with no DSN branch: only the data ACK, if any, is written
MpDssAckIn ==
    /\ Running
    /\ Pkt.sub = "DSS" /\ Pkt.dir = "IN"
    /\ ~(Pkt.flagDsn /\ Pkt.len \in {"DSS_DSN8", "DSS_DSN8_WOCS"})
    /\ out' = [sub |-> "DSS", pair |-> PairOf(Pkt)]
              @@ (IF Pkt.flagDack THEN [dack |-> DackField(Pkt)] ELSE <<>>)
    /\ Finish(FALSE)
    /\ UNCHANGED <<key, keySet, initialDsn, lastAddrId, varsQueue, vars,
                   subflows, kernelKey, wire, sent>>

\* Outbound DSS: nothing is checked or learnt
MpDssOut ==
    /\ Running
    /\ Pkt.sub = "DSS" /\ Pkt.dir = "OUT"
    /\ out' = NoOut
    /\ Finish(FALSE)
    /\ UNCHANGED <<key, keySet, initialDsn, lastAddrId, varsQueue, vars,
                   subflows, kernelKey, wire, sent>>

-----------------------------------------------------------------------------
Next ==
    \/ MpCapableSynIn
    \/ MpCapableSynAckIn
    \/ MpCapableSynOut
    \/ MpCapableAck
    \/ MpCapableOther
    \/ MpJoinSynIn
    \/ MpJoinSynAckOut
    \/ MpJoinAckIn
    \/ MpJoinSynOut
    \/ MpJoinSynAckIn
    \/ MpJoinAckOut
    \/ MpJoinOther
    \/ MpDssDsnChecksumIn
    \/ MpDssDsnIn
    \/ MpDssAckIn
    \/ MpDssOut

Spec == Init /\ [][Next]_vars_

\* packetdrill's event loop hands every script packet to the engine in turn
\* and nothing in the engine waits: a packet that can be processed is.
FairSpec == Spec /\ WF_vars_(Next)

-----------------------------------------------------------------------------
(* Properties *)

\* Every key the engine writes into an MP_CAPABLE option is the key the
\* session then holds for that party (packetdrill's key in what it sends,
\* the kernel's in what it expects from the kernel, sender first in the
\* third ACK), the kernel's slot holds the key the kernel really uses
\* unless the script named that key itself, and the IDSN is derived from
\* packetdrill's key.  This is about mptcp_gen_key,
\* extract_and_set_kernel_key and the find_next_key pops, which must all
\* agree on which name refers to which slot.
OwnerKey(dir, sending) ==
    IF (dir = "IN") = sending THEN key.packetdrill ELSE key.kernel

HandshakeKeysConsistent ==
    /\ out # NoOut /\ out.sub = "MP_CAPABLE" /\ status = "running" =>
         IF out.syn THEN keySet[IF out.dir = "IN" THEN "packetdrill" ELSE "kernel"]
                         => out.key = OwnerKey(out.dir, TRUE)
         ELSE keySet.packetdrill /\ keySet.kernel =>
                 /\ out.sender = OwnerKey(out.dir, TRUE)
                 /\ out.receiver = OwnerKey(out.dir, FALSE)
                 /\ initialDsn = Idsn(key.packetdrill)
    /\ keySet.kernel =>
         \/ key.kernel = kernelKey
         \/ \E n \in Names : IsScriptDefined(vars, n) /\ vars[n].value = key.kernel

\* An outbound MP_CAPABLE SYN the engine accepts leaves the kernel's key
\* known: extract_and_set_kernel_key fails when the live packet carries no
\* MPTCP option, and the caller must not carry on as if it had learnt it.
KernelKeyLearned ==
    out # NoOut /\ out.sub = "MP_CAPABLE" /\ out.syn /\ out.dir = "OUT"
        /\ status = "running" => keySet.kernel

\* The HMAC the receiver of an MP_JOIN message computes to check it (RFC
\* 6824): keyed with the sender's key then the receiver's, over the
\* sender's nonce then the receiver's, each nonce as its bytes crossed the
\* wire on that subflow.  The kernel uses its real key; packetdrill's key
\* is the one it announced (HandshakeKeysConsistent).
WireHmac(sender, pr, width) ==
    LET w == wire[pr] IN
    IF sender = "kernel"
    THEN Host(Hmac(<<kernelKey, key.packetdrill>>, <<w.kernel, w.tool>>, width))
    ELSE Host(Hmac(<<key.packetdrill, kernelKey>>, <<w.tool, w.kernel>>, width))

\* Every HMAC packetdrill sends or expects in an MP_JOIN option is the HMAC
\* the receiver computes from the keys and from the nonces that crossed
\* the wire in this subflow's handshake.  This is about the nonces
\* mptcp_subtype_mp_join keeps in the subflow list between the three
\* packets of a join, the key and nonce order each branch builds, and the
\* byte order of the nonces it sends and of the HMAC it writes.
JoinHmacMatchesWire ==
    out # NoOut /\ out.sub = "MP_JOIN" /\ status = "running"
      /\ out.case \in {2, 3, 5, 6}
    => /\ Unset \notin {wire[out.pair].tool, wire[out.pair].kernel}
       /\ out.hmac = WireHmac(IF out.case \in {2, 6} THEN "kernel" ELSE "tool",
                              out.pair, IF out.case \in {2, 5} THEN 64 ELSE 160)

\* Every nonce packetdrill expects from the kernel in an MP_JOIN SYN or
\* SYN/ACK is the bytes the live kernel packet carried, and every token it
\* sends or expects is the kernel's token in network order: the fields of
\* the rewritten script packet must match the live one.
JoinFieldsMatchLive ==
    out # NoOut /\ out.sub = "MP_JOIN" /\ status = "running" =>
      /\ out.case \in {2, 4} => out.rand = wire[out.pair].kernel
      /\ out.case \in {1, 4} => out.token = Hton(Host(Token(kernelKey)))

\* The subflow sequence number packetdrill writes in a DSS mapping is, in
\* network order, the number of payload bytes it has mapped on that
\* subflow before (spec section 8, property 2): the kernel counts from the
\* subflow's SYN.  This is about the subflow list lookup by ports and the
\* per-subflow counter that mptcp_subtype_dss reads and then advances.
SsnMatchesKernel ==
    [][out' # NoOut /\ out'.sub = "DSS" /\ "ssn" \in DOMAIN out'
         => out'.ssn = Hton(Host(sent[out'.pair]))]_vars_

\* The engine never dereferences a NULL pointer, whatever packet the
\* script presents.
NoCrash == status # "crashed"

\* Once a key slot is set its value never changes (spec section 3): the
\* engine bindings point into the slots, so a changed slot silently
\* changes every name bound to it and every value derived from it.
KeySlotsImmutable ==
    [][\A s \in Slots : keySet[s] => key'[s] = key[s]]_key

\* The data-level length packetdrill writes into a DSS mapping is, in
\* network order, the number of payload bytes of the segment it maps.  This
\* is about the u16 arithmetic of mptcp_subtype_dss on the IP and TCP
\* header lengths of the packet.
DllMatchesPayload ==
    [][out' # NoOut /\ out'.sub = "DSS" /\ "dll" \in DOMAIN out'
         => out'.dll = Hton(Host(sent'[out'.pair] - sent[out'.pair]))]_vars_

\* A script whose names the parser queued and whose live packets carry the
\* options the handlers read runs to its end without a handler error.  This
\* is about the name queue: every pop must find the binding gen_key,
\* extract_and_set_kernel_key or the script made for that name.
ScriptCompletes == <>(script = <<>> /\ status = "running")

-----------------------------------------------------------------------------
(* Refinement: the engine keeps the session state of spec.md section 3 *)

\* The sequence space of the pair pr: that of the first subflow the port
\* lookups find for it
SubflowSeq(pr) ==
    LET i == SelectInSeq(subflows, LAMBDA sf : <<sf.src, sf.dst>> = pr)
    IN  IF i = 0 THEN Zero ELSE subflows[i].ssn

Session == INSTANCE MptcpSession
    WITH None <- Zero,
         localKey <- IF keySet.packetdrill THEN key.packetdrill ELSE Zero,
         peerKey <- IF keySet.kernel THEN key.kernel ELSE Zero,
         idsn <- initialDsn,
         seq <- [pr \in Pairs |-> SubflowSeq(pr)]

\* The engine implements the abstract session: keys learnt once, the IDSN
\* derived once from packetdrill's key after both keys are known, and each
\* subflow's sequence space opened at 0 and only moving forward.  This is
\* about every handler that touches mp_state at once.
SessionRefined == Session!Spec

==============================================================================

---------------------------- MODULE MptcpSession ----------------------------
(***************************************************************************)
(* The session state of an MPTCP connection as spec.md section 3 states   *)
(* it, whatever packet is being rewritten: each key is learnt once and is *)
(* immutable after, the IDSN is derived once, from packetdrill's key, when *)
(* both keys are known (at the final ACK of the handshake, which also      *)
(* opens the first subflow), and every subflow's sequence number starts at *)
(* 0 and only grows by the payload mapped on it.                           *)
(***************************************************************************)
EXTENDS Naturals, MptcpCrypto

CONSTANTS
    Keys,     \* key values
    Pairs,    \* subflows, by <<packetdrill's port, kernel's port>>
    None      \* not known yet

VARIABLES
    localKey,  \* packetdrill's key
    peerKey,   \* the kernel's key
    idsn,      \* packetdrill's initial data sequence number
    seq        \* the subflow sequence number of each pair, None if closed

svars == <<localKey, peerKey, idsn, seq>>

Init ==
    /\ localKey = None /\ peerKey = None /\ idsn = None
    /\ seq = [pr \in Pairs |-> None]

LearnLocalKey ==
    /\ localKey = None /\ localKey' \in Keys
    /\ UNCHANGED <<peerKey, idsn, seq>>

LearnPeerKey ==
    /\ peerKey = None /\ peerKey' \in Keys
    /\ UNCHANGED <<localKey, idsn, seq>>

\* Opening a subflow that is already open is harmless only while no data
\* has been mapped on it.
Open(pr) == seq[pr] \in {None, 0} /\ seq' = [seq EXCEPT ![pr] = 0]

\* The final ACK: the IDSN is derived and the first subflow opened
Establish(pr) ==
    /\ idsn = None /\ localKey # None /\ peerKey # None
    /\ idsn' = Idsn(localKey)
    /\ Open(pr)
    /\ UNCHANGED <<localKey, peerKey>>

OpenSubflow(pr) ==
    /\ Open(pr)
    /\ UNCHANGED <<localKey, peerKey, idsn>>

\* Data mapped on an open subflow moves its sequence number forward (by
\* the payload length, which this level leaves open)
MapData(pr) ==
    /\ seq[pr] # None
    /\ seq'[pr] \in Nat /\ seq'[pr] > seq[pr]
    /\ \A q \in Pairs \ {pr} : seq'[q] = seq[q]
    /\ UNCHANGED <<localKey, peerKey, idsn>>

Next ==
    \/ LearnLocalKey
    \/ LearnPeerKey
    \/ \E pr \in Pairs : Establish(pr) \/ OpenSubflow(pr) \/ MapData(pr)

Spec == Init /\ [][Next]_svars
==============================================================================

-------------------------- MODULE MessageExchange --------------------------
(***************************************************************************)
(* Messenger's receiving side composed with the stations that send to us.  *)
(* A transmission reaches us as any number of copies (heard directly, from *)
(* digipeaters, from the iGate), all within CopySpread.  A station that    *)
(* numbers its message repeats it at PeerRetry or more, because our ack    *)
(* may be lost, for at most PeerLife.  A station that does not number it   *)
(* says the same thing again only on purpose, later than UnnumberedGap.    *)
(*                                                                         *)
(* The stations are external: their timing is what messaging.py:30-34 and  *)
(* docs/PROGRESS.md:262 take for granted, stated as TimingAssumption.      *)
(***************************************************************************)
EXTENDS Messenger

CONSTANTS
    Numbered,       \* the peers that number their message
    PeerRetry,      \* shortest time between two transmissions of one message
    PeerLife,       \* how long a peer goes on repeating it
    CopySpread,     \* how long copies of one transmission keep arriving
    UnnumberedGap,  \* shortest time before a station repeats itself on purpose
    PeerTries       \* bound: transmissions per peer

ASSUME TimingAssumption ==
    /\ Numbered \subseteq Peers
    /\ Texts # {} /\ (Numbered # {} => PeerNos # {})
    /\ CopySpread \in Nat /\ PeerLife \in Nat /\ PeerTries \in Nat
    /\ PeerRetry \in Nat /\ UnnumberedGap \in Nat
    /\ CopySpread < AckHoldoff                       \* "arrive within seconds"
    /\ CopySpread + AckHoldoff <= PeerRetry          \* "below the sender's retry interval"
    /\ PeerLife + CopySpread <= DupeWindow           \* a retry comes within 30 min
    /\ CopySpread <= DupeWindowUnnumbered
    /\ UnnumberedGap > DupeWindowUnnumbered + CopySpread

VARIABLES
    sent,       \* transmissions of each peer so far
    since,      \* time since its last transmission
    life,       \* time since its first
    heard,      \* its last transmission: not heard, "heard", or heard while "linked"
    acks,       \* acks we sent for its last transmission
    stored      \* rows stored for its message

peerVars == <<sent, since, life, heard, acks, stored>>
allVars == <<vars, peerVars>>

NumberOf(p) == IF p \in Numbered THEN CHOOSE m \in PeerNos: TRUE ELSE None
TextOf(p) == CHOOSE x \in Texts: TRUE
Key(p) == <<p, NumberOf(p), TextOf(p)>>
\* The stations' clocks stop where nothing depends on them any more.
Later(t, most) == IF t < most THEN t + 1 ELSE t
LongestGap == IF PeerRetry < UnnumberedGap THEN UnnumberedGap ELSE PeerRetry

XInit ==
    /\ Init
    /\ sent = [p \in Peers |-> 0]
    /\ since = [p \in Peers |-> 0]
    /\ life = [p \in Peers |-> 0]
    /\ heard = [p \in Peers |-> "no"]
    /\ acks = [p \in Peers |-> 0]
    /\ stored = [p \in Peers |-> 0]

\* A peer transmits: its message for the first time, a retry, or a new unnumbered one.
PeerTransmits(p) ==
    /\ sent[p] < PeerTries
    /\ sent[p] > 0 => /\ p \in Numbered => since[p] >= PeerRetry /\ life[p] <= PeerLife
                      /\ p \notin Numbered => since[p] >= UnnumberedGap
    /\ sent' = [sent EXCEPT ![p] = @ + 1]
    /\ since' = [since EXCEPT ![p] = 0]
    /\ life' = [life EXCEPT ![p] = IF sent[p] = 0 THEN 0 ELSE @]
    /\ acks' = [acks EXCEPT ![p] = 0]
    /\ heard' = [heard EXCEPT ![p] = "no"]
    /\ stored' = [stored EXCEPT ![p] = IF p \in Numbered THEN @ ELSE 0]
    /\ UNCHANGED vars

\* A copy of p's last transmission arrives.
CopyArrives(p) ==
    /\ sent[p] > 0 /\ since[p] <= CopySpread
    /\ HandleText(p, NumberOf(p), TextOf(p), p \in Numbered, None)
    /\ heard' = [heard EXCEPT ![p] = IF linkUp THEN "linked" ELSE IF @ = "no" THEN "heard" ELSE @]
    /\ acks' = [acks EXCEPT ![p] = IF AckGoesOut(p, NumberOf(p)) THEN @ + 1 ELSE @]
    /\ stored' = [stored EXCEPT ![p] = IF inbox'[Key(p)] # inbox[Key(p)] THEN @ + 1 ELSE @]
    /\ UNCHANGED <<sent, since, life>>

TimePasses ==
    /\ Advance
    /\ since' = [p \in Peers |-> Later(since[p], LongestGap)]
    /\ life' = [p \in Peers |-> Later(life[p], PeerLife + 1)]
    /\ UNCHANGED <<sent, heard, acks, stored>>

\* The process dies handling a copy, after the ack and before the row is stored.  The
\* sender may take its message for delivered; we have it only if another copy comes.
DiesHandling(p) ==
    /\ sent[p] > 0 /\ since[p] <= CopySpread /\ AckGoesOut(p, NumberOf(p))
    /\ Restart({}, {})
    /\ acks' = [acks EXCEPT ![p] = @ + 1]
    /\ UNCHANGED <<sent, since, life, heard, stored>>

Own == (LinkChange \/ Restarts) /\ UNCHANGED peerVars

XNext == (\E p \in Peers: PeerTransmits(p) \/ CopyArrives(p) \/ DiesHandling(p))
         \/ TimePasses \/ Own

XSpec == XInit /\ [][XNext]_allVars

-----------------------------------------------------------------------------
\* Properties

XTypeOK ==
    /\ TypeOK
    /\ sent \in [Peers -> 0..PeerTries]
    /\ since \in [Peers -> Nat] /\ life \in [Peers -> Nat]
    /\ heard \in [Peers -> {"no", "heard", "linked"}]
    /\ acks \in [Peers -> Nat] /\ stored \in [Peers -> Nat]

\* Every transmission of a numbered message of which we hear a copy while we can
\* transmit is acked: the retry that follows a lost ack too, however late a copy of the
\* transmission before it was acked, and one whose first copies came while the link was
\* down (messaging.py:32-34 and _send_ack).
HeardIsAcked == \A p \in Numbered: heard[p] = "linked" => acks[p] >= 1

\* Copies of one transmission get one ack; a restart, which forgets what was acked,
\* is worth one more (messaging.py:32, 156-164; docs/PROGRESS.md:262).
OneAckPerTransmission == \A p \in Peers: acks[p] <= 1 + restarts

\* A message we heard is in the table exactly once, through copies, retries and
\* restarts, and an unnumbered message said again on purpose is stored again
\* (messaging.py:146-153; docs/PROGRESS.md:262).
HeardIsStoredOnce == \A p \in Peers: stored[p] <= 1 /\ (heard[p] # "no" => stored[p] = 1)

=============================================================================

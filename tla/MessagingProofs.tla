----------------------------- MODULE MessagingProofs -----------------------------
(***************************************************************************)
(* Theorems about Messenger, for every number of workers, peers, messages  *)
(* and every retry schedule; then theorems about MessageExchange, for      *)
(* every number of stations.  Only those use TimingAssumption, and cite    *)
(* it.  The composition is a behaviour of Messenger, whose types and       *)
(* invariant hold in it therefore.                                         *)
(***************************************************************************)
EXTENDS MessageExchange, TLAPS

-----------------------------------------------------------------------------
\* Messenger

\* Less counts down within the naturals.
LEMMA LessType == ASSUME NEW t \in Nat PROVE Less(t) \in 0..t
  BY DEF Less

\* Numbers below the size of the number space are their own remainders, so two
\* messages never share a two-character number.
LEMMA ModSmall == ASSUME NEW i \in Id
                  PROVE  i % MsgnoSpace = i /\ i % MsgnoSpace \in Msgno
  BY NoReuseAssumption, BoundsAssumption DEF Id, Msgno

\* Delays are positive naturals within the horizon.
LEMMA DelayType == ASSUME NEW k \in 1..MaxTries
                   PROVE  /\ RetryDelays[k] \in Nat \ {0} /\ RetryDelays[k] <= Horizon
                          /\ Gap(k) \in Nat \ {0} /\ Gap(k) <= RetryDelays[k]
  <1>1. RetryDelays[k] \in Nat \ {0} /\ RetryDelays[k] <= Horizon
    BY DelaysAssumption DEF MaxTries
  <1>2. TxWait \in Nat \ {0}
    BY DelaysAssumption
  <1>3. QED
    BY <1>1, <1>2 DEF Gap

\* A gap is a number the history variable quiet can count to.
LEMMA GapBounded == ASSUME NEW k \in 1..MaxTries
                    PROVE  Gap(k) \in Nat /\ Gap(k) <= Horizon
  <1>1. /\ RetryDelays[k] \in Nat /\ RetryDelays[k] <= Horizon
        /\ Gap(k) \in Nat /\ Gap(k) <= RetryDelays[k]
    BY DelayType
  <1>2. Horizon \in Nat
    BY DelaysAssumption
  <1>3. QED
    BY <1>1, <1>2

\* There is at least one try.
LEMMA MaxTriesType == MaxTries \in Nat /\ MaxTries > 0
  BY DelaysAssumption DEF MaxTries

\* A row settled by an answer.
Settled(r, s) == [r EXCEPT !.state = s, !.next_try = None]

\* What _acknowledge does to the table (messaging.py:116-119): a row it touches was
\* pending, to that peer and with that number.
LEMMA AcknowledgeEffect ==
  ASSUME NEW o \in [Id -> Row], NEW p, NEW m, NEW s \in {"acked", "rejected"}
  PROVE  /\ Acknowledge(o, p, m, s) \in [Id -> Row]
         /\ \A i \in Id: \/ Acknowledge(o, p, m, s)[i] = o[i]
                         \/ /\ o[i].state = "pending" /\ o[i].msgno = m
                            /\ Acknowledge(o, p, m, s)[i] = Settled(o[i], s)
  <1> DEFINE n == Acknowledge(o, p, m, s)
             hit == Latest(PendingFor(o, p, m))
  <1>1. \A i \in Id: n[i] = IF i \in hit THEN Settled(o[i], s) ELSE o[i]
    BY DEF Acknowledge, Settled
  <1>2. \A i \in hit: o[i].state = "pending" /\ o[i].msgno = m
    BY DEF Latest, PendingFor
  <1>3. \A i \in Id: o[i] \in Row /\ Settled(o[i], s) \in Row
    BY DEF Row, Terminal, Settled
  <1>4. n \in [Id -> Row]
    BY <1>3 DEF Acknowledge, Settled
  <1>5. QED
    BY <1>1, <1>2, <1>4

\* A row with another count and another countdown is a row.
LEMMA RowUpdate ==
  ASSUME NEW r \in Row, NEW t \in 0..MaxTries, NEW n \in Nat \cup {None}
  PROVE  [r EXCEPT !.tries = t, !.next_try = n] \in Row /\ [r EXCEPT !.next_try = n] \in Row
  BY DEF Row

\* TryRow keeps a row a row.
LEMMA TryRowType ==
  ASSUME NEW r \in Row
  PROVE  TryRow(r) \in Row
  <1> USE MaxTriesType
  <1>1. CASE r.tries >= MaxTries
    BY <1>1 DEF TryRow, Row, Terminal
  <1>2. ASSUME ~(r.tries >= MaxTries) PROVE TryRow(r) \in Row
    <2> DEFINE again == [r EXCEPT !.tries = r.tries + 1, !.next_try = RetryDelays[r.tries + 1]]
               wait == [r EXCEPT !.next_try = TxWait]
    <2>1. r.tries + 1 \in 1..MaxTries
      BY <1>2 DEF Row
    <2>2. RetryDelays[r.tries + 1] \in Nat /\ TxWait \in Nat
      BY <2>1, DelayType, DelaysAssumption
    <2>3. r.tries + 1 \in 0..MaxTries /\ RetryDelays[r.tries + 1] \in Nat \cup {None}
      BY <2>1, <2>2
    <2>5. again \in Row
      BY <2>3, RowUpdate, Zenon
    <2>6. wait \in Row
      BY <2>2 DEF Row
    <2>7. TryRow(r) = again \/ TryRow(r) = wait
      BY <1>2, Zenon DEF TryRow
    <2>8. QED
      BY <2>5, <2>6, <2>7, Zenon
  <1>4. QED
    BY <1>1, <1>2

-----------------------------------------------------------------------------
\* Type correctness

\* The initial state is well typed.
LEMMA InitType == Init => TypeOK
  <1> SUFFICES ASSUME Init PROVE TypeOK
    OBVIOUS
  <1> USE BoundsAssumption, MaxTriesType
  <1>1. out \in [Id -> Row]
    BY DEF Init, NoRow, Row
  <1>2. thr \in [Workers -> Thread]
    BY DEF Init, Idle, Thread
  <1>3. inbox \in [InKey -> 0..Forgotten]
    BY DEF Init, Forgotten
  <1>4. replyAck \in [Peers -> PeerNos \cup {None}] /\ holdoff \in [Peers \X PeerNos -> 0..AckHoldoff]
    BY DEF Init
  <1>5. txs \in [Id -> Nat] /\ quiet \in [Id -> Nat]
    BY DEF Init
  <1>6. seq \in 0..MaxSeq /\ restarts \in 0..MaxRestarts /\ link \in {"up", "down"}
    BY DEF Init
  <1>7. QED
    BY <1>1, <1>2, <1>3, <1>4, <1>5, <1>6 DEF TypeOK

\* The steps of Messenger.send keep the types.
LEMMA SendType == ASSUME TypeOK, Ownership, NEW w \in Workers, Send(w)
                  PROVE  TypeOK'
  <1> USE DEF TypeOK, inVars, envVars, history, linkUp
  <1>1. ASSUME NEW p \in Peers, Number(w, p) PROVE TypeOK'
    <2>1. seq + 1 \in Id /\ seq' \in 0..MaxSeq
      BY <1>1, BoundsAssumption DEF Number, Id
    <2>2. (seq + 1) % MsgnoSpace \in Msgno
      BY <2>1, ModSmall
    <2>3. thr' \in [Workers -> Thread]
      BY <1>1, <2>1, <2>2 DEF Number, Thread
    <2>4. QED
      BY <1>1, <2>1, <2>3 DEF Number
  <1>2. ASSUME RejectText(w) PROVE TypeOK'
    BY <1>2 DEF RejectText, Thread, Idle
  <1>3. ASSUME Add(w) PROVE TypeOK'
    <2>1. thr[w].id \in Id /\ thr[w].peer \in Peers /\ thr[w].msgno \in Msgno
      BY <1>3, ModSmall, BoundsAssumption DEF Add, Ownership, Id
    <2>2. out' \in [Id -> Row]
      BY <1>3, <2>1, MaxTriesType DEF Add, Row
    <2>3. thr' \in [Workers -> Thread]
      BY <1>3 DEF Add, Thread
    <2>4. QED
      BY <1>3, <2>2, <2>3 DEF Add
  <1>4. ASSUME Transmit(w) PROVE TypeOK'
    <2>1. thr' \in [Workers -> Thread]
      BY SMTT(40), <1>4 DEF Transmit, Thread
    <2>2. txs' \in [Id -> Nat] /\ quiet' \in [Id -> Nat]
      BY <1>4 DEF Transmit
    <2>3. QED
      BY <1>4, <2>1, <2>2 DEF Transmit
  <1>5. ASSUME Record(w) PROVE TypeOK'
    <2>1. 1 \in 0..MaxTries /\ RetryDelays[1] \in Nat /\ TxWait \in Nat
      BY MaxTriesType, DelayType, DelaysAssumption
    <2>2. out' \in [Id -> Row]
      <3> DEFINE i == thr[w].id
      <3>1. i \in Id
        BY <1>5, BoundsAssumption DEF Record, Ownership, Id
      <3>2. [out[i] EXCEPT !.tries = 1, !.next_try = RetryDelays[1]] \in Row
        BY <2>1, <3>1, RowUpdate, Zenon
      <3>3. [out[i] EXCEPT !.next_try = TxWait] \in Row
        BY <2>1, <3>1, MaxTriesType, RowUpdate, Zenon
      <3>4. [out[i] EXCEPT !.tries = 1] \in Row
        BY <2>1, <3>1 DEF Row
      <3>5. \/ out' = [out EXCEPT ![i] = [out[i] EXCEPT !.tries = 1, !.next_try = RetryDelays[1]]]
            \/ out' = [out EXCEPT ![i] = [out[i] EXCEPT !.tries = 1]]
            \/ out' = [out EXCEPT ![i] = [out[i] EXCEPT !.next_try = TxWait]]
            \/ out' = out
        BY <1>5, Zenon DEF Record
      <3>6. QED
        BY <3>1, <3>2, <3>3, <3>4, <3>5
    <2>3. thr' \in [Workers -> Thread]
      BY <1>5 DEF Record, Thread, Idle
    <2>4. QED
      BY <1>5, <2>2, <2>3 DEF Record
  <1>6. QED
    BY <1>1, <1>2, <1>3, <1>4, <1>5 DEF Send

\* So does a received message, ack or rej.
LEMMA HandleType == ASSUME TypeOK, Responses \/ Incoming
                    PROVE  TypeOK'
  <1> USE DEF TypeOK, inVars, envVars, history, linkUp
  <1>1. ASSUME NEW p \in Peers, NEW m \in Msgno, NEW ra \in Msgno \cup {None},
               NEW s \in {"acked", "rejected"}, HandleResponse(p, m, ra, s)
        PROVE  TypeOK'
    <2>1. Acknowledge(out, p, ra, "acked") \in [Id -> Row]
      BY AcknowledgeEffect
    <2>2. out' \in [Id -> Row]
      BY <1>1, <2>1, AcknowledgeEffect DEF HandleResponse
    <2>3. QED
      BY <1>1, <2>2 DEF HandleResponse
  <1>2. ASSUME NEW p \in Peers, NEW m \in PeerNos \cup {None}, NEW x \in Texts,
               NEW f \in BOOLEAN, NEW ra \in Msgno \cup {None}, HandleText(p, m, x, f, ra)
        PROVE  TypeOK'
    <2>1. out' \in [Id -> Row]
      BY <1>2, AcknowledgeEffect DEF HandleText
    <2>2. replyAck' \in [Peers -> PeerNos \cup {None}]
      BY <1>2 DEF HandleText
    <2>3. holdoff' \in [Peers \X PeerNos -> 0..AckHoldoff]
      <3>1. holdoff' = holdoff \/ holdoff' = [holdoff EXCEPT ![<<p, m>>] = AckHoldoff]
        BY <1>2, Zenon DEF HandleText
      <3>2. AckHoldoff \in 0..AckHoldoff
        BY BoundsAssumption
      <3>3. QED
        BY <3>1, <3>2
    <2>4. inbox' \in [InKey -> 0..Forgotten]
      <3>1. inbox' = inbox \/ inbox' = [inbox EXCEPT ![<<p, m, x>>] = 0]
        BY <1>2, Zenon DEF HandleText
      <3>2. 0 \in 0..Forgotten
        BY BoundsAssumption DEF Forgotten
      <3>3. QED
        BY <3>1, <3>2
    <2>5. QED
      BY <1>2, <2>1, <2>2, <2>3, <2>4 DEF HandleText
  <1>3. QED
    BY ZenonT(60), <1>1, <1>2 DEF Responses, Incoming

\* So does the tick.
LEMMA TickType == ASSUME TypeOK, Tick PROVE TypeOK'
  <1> USE DEF TypeOK, inVars, envVars, history, linkUp
  <1>1. \A i \in Id: TryRow(out[i]) \in Row
    BY TryRowType
  <1>2. out' \in [Id -> Row]
    BY <1>1 DEF Tick
  <1>3. txs' \in [Id -> Nat] /\ quiet' \in [Id -> Nat]
    BY DEF Tick
  <1>4. QED
    BY <1>2, <1>3 DEF Tick

\* So does the clock: a countdown that is due stays at 0.
LEMMA AdvanceType == ASSUME TypeOK, RowsMatch, Advance PROVE TypeOK'
  <1> USE DEF TypeOK, inVars, envVars, history, linkUp
  <1>1. out' \in [Id -> Row]
    <2> SUFFICES ASSUME NEW i \in Id, out[i].state = "pending"
                 PROVE  [out[i] EXCEPT !.next_try = Less(@)] \in Row
      BY DEF Advance
    <2>1. out[i].next_try \in Nat /\ Less(out[i].next_try) \in Nat
      BY LessType DEF RowsMatch
    <2>2. QED
      BY ZenonT(60), <2>1 DEF Row
  <1>2. holdoff' \in [Peers \X PeerNos -> 0..AckHoldoff]
    BY LessType, BoundsAssumption DEF Advance, Less
  <1>3. inbox' \in [InKey -> 0..Forgotten]
    BY BoundsAssumption DEF Advance, Forgotten
  <1>4. quiet' \in [Id -> Nat]
    BY DEF Advance
  <1>5. QED
    BY <1>1, <1>2, <1>3, <1>4 DEF Advance

\* Type correctness: every step keeps the types.
LEMMA NextType == ASSUME TypeOK, IInv, [Next]_vars PROVE TypeOK'
  <1>1. CASE UNCHANGED vars
    BY <1>1 DEF vars, TypeOK
  <1>2. CASE LinkChange
    BY <1>2 DEF LinkChange, TypeOK, inVars, history
  <1>3. CASE Restarts
    <2>1. PICK served \in SUBSET Due, cut \in Cuts: Restart(served, cut)
      BY <1>3 DEF Restarts
    <2>2. thr' \in [Workers -> Thread]
      BY <2>1 DEF Restart, Idle, Thread
    <2>3. holdoff' \in [Peers \X PeerNos -> 0..AckHoldoff] /\ replyAck' \in [Peers -> PeerNos \cup {None}]
      BY <2>1, BoundsAssumption DEF Restart, TypeOK
    <2>4. out' \in [Id -> Row]
      BY <2>1, TryRowType DEF Restart, Cut, TypeOK
    <2>5. txs' \in [Id -> Nat] /\ quiet' \in [Id -> Nat]
      BY <2>1 DEF Restart, Cut, TypeOK
    <2>6. QED
      BY <2>1, <2>2, <2>3, <2>4, <2>5, BoundsAssumption DEF Restart, TypeOK
  <1>4. QED
    BY <1>1, <1>2, <1>3, SendType, HandleType, TickType, AdvanceType DEF Next, IInv

-----------------------------------------------------------------------------
\* The inductive invariant

\* The empty table satisfies the invariant.
LEMMA InitInv == Init => IInv
  <1> SUFFICES ASSUME Init PROVE IInv
    OBVIOUS
  <1>1. Ownership /\ FirstTry
    BY DEF Init, Ownership, FirstTry, Sending, Idle
  <1>2. RowsMatch
    BY DEF Init, RowsMatch, NoRow, Id
  <1>3. TriesCounted
    BY DEF Init, TriesCounted, NoRow
  <1>4. Spaced
    BY DEF Init, Spaced, NoRow
  <1>5. QED
    BY <1>1, <1>2, <1>3, <1>4 DEF IInv

\* A worker's steps up to the insertion of its row.
LEMMA NumberInv == ASSUME TypeOK, IInv, NEW w \in Workers, NEW p \in Peers, Number(w, p)
                   PROVE  IInv'
  <1> USE DEF inVars, envVars, history
  <1>1. /\ seq' = seq + 1 /\ seq \in Nat /\ seq' \in Id
        /\ out' = out /\ txs' = txs /\ quiet' = quiet
        /\ thr' = [thr EXCEPT ![w] = [pc |-> "numbered", peer |-> p,
                                     msgno |-> (seq + 1) % MsgnoSpace, id |-> seq + 1]]
    BY BoundsAssumption DEF Number, TypeOK, Id
  <1>2. \A v \in Workers \ {w}: thr'[v] = thr[v]
    BY <1>1 DEF TypeOK
  <1>3. /\ thr'[w].pc = "numbered" /\ thr'[w].id = seq + 1 /\ thr'[w].peer = p
        /\ thr'[w].msgno = (seq + 1) % MsgnoSpace
    BY <1>1 DEF TypeOK
  <1>4. out[seq + 1].state = "absent"
    BY <1>1 DEF IInv, RowsMatch
  <1>5. Ownership'
    <2> SUFFICES ASSUME NEW v \in Workers, thr'[v].pc # "idle"
                 PROVE  /\ thr'[v].id \in 1..seq'
                        /\ thr'[v].peer \in Peers /\ thr'[v].msgno = thr'[v].id % MsgnoSpace
                        /\ thr'[v].pc = "numbered" => out'[thr'[v].id].state = "absent"
                        /\ Sending(v)' => out'[thr'[v].id].state # "absent"
                        /\ \A u \in Workers \ {v}: thr'[u].pc # "idle" => thr'[u].id # thr'[v].id
      BY DEF Ownership
    <2>1. CASE v = w
      BY <1>1, <1>2, <1>3, <1>4, <2>1 DEF IInv, Ownership, Sending
    <2>2. CASE v # w
      BY <1>1, <1>2, <1>3, <2>2 DEF IInv, Ownership, Sending
    <2>3. QED
      BY <2>1, <2>2
  <1>6. FirstTry'
    BY <1>1, <1>2, <1>3 DEF IInv, FirstTry, Sending
  <1>7. RowsMatch' /\ TriesCounted' /\ Spaced'
    BY <1>1 DEF Number, IInv, RowsMatch, TriesCounted, Spaced, Id
  <1>8. QED
    BY <1>5, <1>6, <1>7 DEF IInv

\* A text that does not encode leaves a number unused and nothing else.
LEMMA RejectInv == ASSUME TypeOK, IInv, NEW w \in Workers, RejectText(w)
                   PROVE  IInv'
  <1> USE DEF inVars, envVars, history
  <1>1. /\ seq' = seq /\ out' = out /\ txs' = txs /\ quiet' = quiet
        /\ thr' = [thr EXCEPT ![w] = Idle]
    BY DEF RejectText
  <1>2. (\A v \in Workers \ {w}: thr'[v] = thr[v]) /\ thr'[w].pc = "idle"
    BY <1>1 DEF TypeOK, Idle
  <1>3. Ownership' /\ FirstTry'
    BY <1>1, <1>2 DEF IInv, Ownership, FirstTry, Sending
  <1>4. RowsMatch' /\ TriesCounted' /\ Spaced'
    BY <1>1 DEF RejectText, IInv, RowsMatch, TriesCounted, Spaced
  <1>5. QED
    BY <1>3, <1>4 DEF IInv

\* The row a worker adds is its own, pending and at no try.
LEMMA AddInv == ASSUME TypeOK, IInv, NEW w \in Workers, Add(w)
                PROVE  IInv'
  <1> USE DEF inVars, envVars, history
  <1> DEFINE i == thr[w].id
  <1>1. /\ i \in 1..seq /\ i \in Id /\ thr[w].pc = "numbered"
        /\ out[i].state = "absent" /\ thr[w].msgno = i % MsgnoSpace
    BY SMTT(40), BoundsAssumption DEF Add, IInv, Ownership, Id, TypeOK
  <1>2. /\ seq' = seq /\ txs' = txs /\ quiet' = quiet
        /\ out' = [out EXCEPT ![i] = [state |-> "pending", peer |-> thr[w].peer,
                                      msgno |-> thr[w].msgno, tries |-> 0, next_try |-> 0]]
        /\ thr' = [thr EXCEPT ![w].pc = "added"]
    BY DEF Add
  <1>3. \A v \in Workers \ {w}: thr'[v] = thr[v]
    BY <1>2 DEF TypeOK
  <1>4. /\ thr'[w].pc = "added" /\ thr'[w].id = i /\ thr'[w].peer = thr[w].peer
        /\ thr'[w].msgno = thr[w].msgno
    BY <1>2 DEF TypeOK, Thread
  <1>5. /\ \A j \in Id \ {i}: out'[j] = out[j]
        /\ out'[i].state = "pending" /\ out'[i].tries = 0 /\ out'[i].next_try = 0
        /\ out'[i].msgno = i % MsgnoSpace
    BY <1>1, <1>2 DEF TypeOK
  <1>6. \A v \in Workers: thr[v].pc # "idle" => thr[v].id \in Id
    BY BoundsAssumption DEF IInv, Ownership, TypeOK, Id
  <1>7. Ownership'
    <2> SUFFICES ASSUME NEW v \in Workers, thr'[v].pc # "idle"
                 PROVE  /\ thr'[v].id \in 1..seq'
                        /\ thr'[v].peer \in Peers /\ thr'[v].msgno = thr'[v].id % MsgnoSpace
                        /\ thr'[v].pc = "numbered" => out'[thr'[v].id].state = "absent"
                        /\ Sending(v)' => out'[thr'[v].id].state # "absent"
                        /\ \A u \in Workers \ {v}: thr'[u].pc # "idle" => thr'[u].id # thr'[v].id
      BY DEF Ownership
    <2>1. CASE v = w
      BY <1>1, <1>2, <1>3, <1>4, <1>5, <2>1 DEF IInv, Ownership, Sending
    <2>2. CASE v # w
      BY <1>1, <1>2, <1>3, <1>4, <1>5, <1>6, <2>2 DEF IInv, Ownership, Sending
    <2>3. QED
      BY <2>1, <2>2
  <1>8. txs[i] = 0
    BY <1>1 DEF IInv, RowsMatch
  <1>9. FirstTry'
    <2> SUFFICES ASSUME NEW v \in Workers, Sending(v)'
                 PROVE  LET k == thr'[v].id IN
                        /\ out'[k].tries <= 1
                        /\ (out'[k].tries = 1 /\ out'[k].state = "pending") => out'[k].next_try >= Gap(1)
                        /\ thr'[v].pc \in {"added", "refused"} => txs'[k] = out'[k].tries
                        /\ thr'[v].pc = "sent" => txs'[k] > 0
      BY DEF FirstTry, Gap
    <2>1. CASE v = w
      BY <1>2, <1>4, <1>5, <1>8, <2>1
    <2>2. CASE v # w
      <3>1. thr[v].id # i /\ thr[v].id \in Id /\ thr'[v] = thr[v] /\ Sending(v)
        BY <1>1, <1>3, <1>6, <2>2 DEF IInv, Ownership, Sending
      <3>2. QED
        BY <1>2, <1>5, <3>1 DEF IInv, FirstTry
    <2>3. QED
      BY <2>1, <2>2
  <1>10. RowsMatch'
    <2>1. \A j \in Id \ {i}: out'[j] = out[j] /\ txs'[j] = txs[j] /\ seq' = seq
      BY <1>2, <1>5
    <2>2. ~(i > seq)
      BY <1>1 DEF TypeOK
    <2>3. QED
      BY <1>2, <1>5, <2>1, <2>2 DEF IInv, RowsMatch
  <1>11. TriesCounted'
    <2>1. restarts' = restarts /\ restarts \in Nat
      BY DEF Add, TypeOK
    <2>2. QED
      BY <1>2, <1>5, <1>8, <2>1 DEF IInv, TriesCounted
  <1>12. Spaced'
    BY <1>2, <1>5 DEF IInv, Spaced, Gap
  <1>13. QED
    BY <1>7, <1>9, <1>10, <1>11, <1>12 DEF IInv

\* The first try: the transmission and the write that records it.
LEMMA TransmitInv == ASSUME TypeOK, IInv, NEW w \in Workers, Transmit(w)
                     PROVE  IInv'
  <1> USE DEF inVars, envVars, history
  <1> DEFINE i == thr[w].id
  <1>1. /\ i \in 1..seq /\ i \in Id /\ thr[w].pc = "added" /\ Sending(w)
        /\ out[i].state # "absent" /\ txs[i] = out[i].tries
    BY BoundsAssumption DEF Transmit, IInv, Ownership, FirstTry, Sending, Id, TypeOK
  <1>2. /\ seq' = seq /\ out' = out
        /\ \/ /\ thr' = [thr EXCEPT ![w].pc = "sent"]
              /\ txs' = [txs EXCEPT ![i] = @ + 1] /\ quiet' = [quiet EXCEPT ![i] = 0]
           \/ /\ thr' = [thr EXCEPT ![w].pc = "refused"]
              /\ txs' = txs /\ quiet' = quiet
    BY DEF Transmit
  <1>3. \A v \in Workers \ {w}: thr'[v] = thr[v]
    BY <1>2 DEF TypeOK
  <1>4. /\ thr'[w].pc \in {"sent", "refused"} /\ thr'[w].id = i
        /\ thr'[w].peer = thr[w].peer /\ thr'[w].msgno = thr[w].msgno
    BY <1>2 DEF TypeOK, Thread
  <1>5. \A j \in Id \ {i}: txs'[j] = txs[j] /\ quiet'[j] = quiet[j]
    BY <1>2 DEF TypeOK
  <1>6. \/ thr'[w].pc = "sent" /\ txs'[i] = txs[i] + 1 /\ quiet'[i] = 0
        \/ thr'[w].pc = "refused" /\ txs'[i] = txs[i] /\ quiet'[i] = quiet[i]
    BY <1>1, <1>2 DEF TypeOK, Thread
  <1>7. \A v \in Workers: thr[v].pc # "idle" => thr[v].id \in Id
    BY BoundsAssumption DEF IInv, Ownership, TypeOK, Id
  <1>8. out[i].tries \in Nat /\ txs[i] \in Nat
    BY <1>1, MaxTriesType DEF TypeOK, Row
  <1>9. Ownership'
    <2>1. \A v \in Workers: /\ thr'[v].id = thr[v].id /\ thr'[v].peer = thr[v].peer
                            /\ thr'[v].msgno = thr[v].msgno
                            /\ thr'[v].pc # "idle" <=> thr[v].pc # "idle"
                            /\ thr'[v].pc = "numbered" => thr[v].pc = "numbered"
                            /\ Sending(v)' => Sending(v)
      BY <1>1, <1>3, <1>4 DEF Sending
    <2>2. QED
      BY <1>2, <2>1 DEF IInv, Ownership
  <1>10. FirstTry'
    <2> SUFFICES ASSUME NEW v \in Workers, Sending(v)'
                 PROVE  LET k == thr'[v].id IN
                        /\ out'[k].tries <= 1
                        /\ (out'[k].tries = 1 /\ out'[k].state = "pending") => out'[k].next_try >= Gap(1)
                        /\ thr'[v].pc \in {"added", "refused"} => txs'[k] = out'[k].tries
                        /\ thr'[v].pc = "sent" => txs'[k] > 0
      BY DEF FirstTry, Gap
    <2>1. CASE v = w
      BY <1>1, <1>2, <1>4, <1>6, <1>8, <2>1 DEF IInv, FirstTry
    <2>2. CASE v # w
      <3>1. thr[v].id # i /\ thr[v].id \in Id /\ thr'[v] = thr[v] /\ Sending(v)
        BY <1>1, <1>3, <1>7, <2>2 DEF IInv, Ownership, Sending
      <3>2. QED
        BY <1>2, <1>5, <3>1 DEF IInv, FirstTry
    <2>3. QED
      BY <2>1, <2>2
  <1>11. RowsMatch'
    <2>1. ~(i > seq) /\ out[i].state # "absent"
      BY <1>1 DEF TypeOK
    <2>2. QED
      BY <1>2, <1>5, <2>1 DEF IInv, RowsMatch
  <1>12. TriesCounted'
    <2>1. restarts' = restarts /\ restarts \in Nat
      BY DEF Transmit, TypeOK
    <2>2. QED
      BY <1>1, <1>2, <1>5, <1>6, <1>8, <2>1 DEF IInv, TriesCounted
  <1>13. Spaced'
    <2> SUFFICES ASSUME NEW j \in Id, out[j].state = "pending", out[j].tries > 0
                 PROVE  quiet'[j] + out[j].next_try >= Gap(out[j].tries)
      BY <1>2 DEF Spaced, Gap
    <2>1. quiet[j] + out[j].next_try >= Gap(out[j].tries) /\ out[j].next_try \in Nat
      BY DEF IInv, Spaced, RowsMatch
    <2>2. CASE j # i
      BY <1>5, <2>1, <2>2
    <2>3. CASE j = i
      <3>1. out[i].tries = 1 /\ out[i].next_try >= Gap(1)
        BY <1>1, <1>8, <2>3 DEF IInv, FirstTry
      <3>2. Gap(1) \in Nat
        BY DelayType, MaxTriesType
      <3>3. QED
        BY <1>6, <2>1, <2>3, <3>1, <3>2
    <2>4. QED
      BY <2>2, <2>3
  <1>14. QED
    BY <1>9, <1>10, <1>11, <1>12, <1>13 DEF IInv

\* A worker's late write: whatever the tick and the answers did to its row since, it is
\* left at its first try, with a countdown no shorter than the gap the tick keeps.
LEMMA RecordInv == ASSUME TypeOK, IInv, NEW w \in Workers, Record(w)
                   PROVE  IInv'
  <1> USE DEF inVars, envVars, history
  <1> DEFINE i == thr[w].id
  <1>1. /\ i \in 1..seq /\ i \in Id /\ thr[w].pc \in {"sent", "refused"} /\ Sending(w)
        /\ out[i].state # "absent"
    BY BoundsAssumption DEF Record, IInv, Ownership, Sending, Id, TypeOK
  <1>2. /\ seq' = seq /\ txs' = txs /\ quiet' = quiet
        /\ thr' = [thr EXCEPT ![w] = Idle]
        /\ \/ /\ thr[w].pc = "sent"
              /\ out' = [out EXCEPT ![i] = [out[i] EXCEPT !.tries = 1, !.next_try = RetryDelays[1]]]
           \/ /\ thr[w].pc = "sent" /\ out[i].next_try = TxWait
              /\ out' = [out EXCEPT ![i] = [out[i] EXCEPT !.tries = 1]]
           \/ /\ thr[w].pc = "refused"
              /\ out' = [out EXCEPT ![i] = [out[i] EXCEPT !.next_try = TxWait]]
           \/ thr[w].pc = "refused" /\ out[i].tries > 0 /\ out' = out
    BY Zenon DEF Record
  <1>3. (\A v \in Workers \ {w}: thr'[v] = thr[v]) /\ thr'[w].pc = "idle"
    BY <1>2 DEF TypeOK, Idle
  <1>4. \A j \in Id \ {i}: out'[j] = out[j]
    BY <1>2 DEF TypeOK
  <1>5. out[i] \in Row
    BY <1>1 DEF TypeOK
  <1>6. /\ out'[i].state = out[i].state /\ out'[i].msgno = out[i].msgno
        /\ \/ /\ thr[w].pc = "sent" /\ out'[i].tries = 1
              /\ out'[i].next_try \in {RetryDelays[1], TxWait}
           \/ /\ thr[w].pc = "refused" /\ out'[i].tries = out[i].tries /\ out'[i].next_try = TxWait
           \/ thr[w].pc = "refused" /\ out'[i] = out[i]
    <2>1. \/ /\ thr[w].pc = "sent"
             /\ out'[i] = [out[i] EXCEPT !.tries = 1, !.next_try = RetryDelays[1]]
          \/ /\ thr[w].pc = "sent" /\ out[i].next_try = TxWait
             /\ out'[i] = [out[i] EXCEPT !.tries = 1]
          \/ thr[w].pc = "refused" /\ out'[i] = [out[i] EXCEPT !.next_try = TxWait]
          \/ thr[w].pc = "refused" /\ out'[i] = out[i]
      BY <1>1, <1>2 DEF TypeOK
    <2>2. QED
      BY <1>1, <1>5, <2>1 DEF Row
  <1>7. /\ RetryDelays[1] \in Nat /\ TxWait \in Nat /\ Gap(1) \in Nat
        /\ Gap(1) <= RetryDelays[1] /\ Gap(1) <= TxWait
    BY DelayType, MaxTriesType, DelaysAssumption DEF Gap
  <1>8. out[i].tries \in Nat /\ out[i].tries <= 1 /\ txs[i] \in Nat
    BY <1>1, <1>5, MaxTriesType DEF IInv, FirstTry, TypeOK, Row
  <1>9. \A v \in Workers: thr[v].pc # "idle" => thr[v].id \in Id
    BY BoundsAssumption DEF IInv, Ownership, TypeOK, Id
  <1>10. Ownership'
    <2>1. \A v \in Workers: thr'[v].pc # "idle" => v # w /\ thr'[v] = thr[v]
      BY <1>3
    <2>2. \A v \in Workers: thr[v].pc # "idle" => out'[thr[v].id].state = out[thr[v].id].state
      BY <1>4, <1>6, <1>9
    <2>3. Ownership
      BY DEF IInv
    <2>4. QED
      BY <1>2, <2>1, <2>2, <2>3 DEF Ownership, Sending
  <1>11. FirstTry'
    BY SMTT(40), <1>1, <1>2, <1>3, <1>4, <1>9 DEF IInv, Ownership, FirstTry, Sending
  <1>12. RowsMatch'
    <2>1. ~(i > seq)
      BY <1>1 DEF TypeOK
    <2>2. QED
      BY <1>1, <1>2, <1>4, <1>6, <1>7, <2>1 DEF IInv, RowsMatch
  <1>13. TriesCounted'
    <2>1. thr[w].pc = "sent" => txs[i] > 0 /\ txs[i] <= out[i].tries + 1 + restarts
      BY <1>1 DEF IInv, FirstTry, TriesCounted
    <2>2. restarts' = restarts /\ restarts \in Nat
      BY DEF Record, TypeOK
    <2>3. QED
      BY <1>2, <1>4, <1>6, <1>8, <2>1, <2>2 DEF IInv, TriesCounted
  <1>14. Spaced'
    <2>1. \A j \in Id: quiet[j] \in Nat
      BY DEF TypeOK
    <2>2. (out'[i].state = "pending" /\ out'[i].tries > 0)
             => out'[i].tries = 1 /\ out'[i].next_try \in Nat /\ out'[i].next_try >= Gap(1)
      <3>1. (out[i].state = "pending" /\ out[i].tries > 0)
               => out[i].next_try \in Nat /\ out[i].next_try >= Gap(1)
        BY <1>1, <1>8 DEF IInv, FirstTry, RowsMatch
      <3>2. QED
        BY <1>6, <1>7, <1>8, <3>1
    <2>3. QED
      BY <1>2, <1>4, <1>6, <1>7, <2>1, <2>2 DEF IInv, Spaced, Gap
  <1>15. QED
    BY <1>10, <1>11, <1>12, <1>13, <1>14 DEF IInv

\* A pending message whose number the peer can have heard was transmitted: numbers are
\* not reused, so no other message carries it.
LEMMA HeardTransmitted ==
  ASSUME TypeOK, RowsMatch, NEW p, NEW m \in Heard(p) \cup {None}, NEW i \in Id,
         out[i].state = "pending", out[i].msgno = m
  PROVE  txs[i] > 0
  <1>1. out[i].msgno = i % MsgnoSpace /\ i % MsgnoSpace = i
    BY ModSmall DEF RowsMatch
  <1>2. m # None
    BY <1>1, BoundsAssumption DEF Id
  <1>3. PICK j \in Id: txs[j] > 0 /\ out[j].msgno = m
    BY <1>2 DEF Heard
  <1>4. out[j].state # "absent" /\ out[j].msgno = j % MsgnoSpace /\ j % MsgnoSpace = j
    BY <1>3, ModSmall DEF RowsMatch, TypeOK
  <1>5. QED
    BY <1>1, <1>3, <1>4

Answered(i) == /\ out[i].state = "pending" /\ txs[i] > 0
               /\ \E s \in {"acked", "rejected"}: out'[i] = Settled(out[i], s)

\* What handle does to the outgoing messages: it settles some that were pending and
\* were transmitted.
LEMMA HandleEffect ==
  ASSUME TypeOK, IInv, Responses \/ Incoming
  PROVE  /\ seq' = seq /\ thr' = thr /\ txs' = txs /\ quiet' = quiet
         /\ \A i \in Id: out'[i] = out[i] \/ Answered(i)
  <1> USE DEF history
  <1>0. out \in [Id -> Row] /\ RowsMatch
    BY DEF TypeOK, IInv
  <1>1. ASSUME NEW p \in Peers, NEW m \in Msgno, NEW ra \in Msgno \cup {None},
               NEW s \in {"acked", "rejected"}, HandleResponse(p, m, ra, s)
        PROVE  /\ seq' = seq /\ thr' = thr /\ txs' = txs /\ quiet' = quiet
               /\ \A i \in Id: out'[i] = out[i] \/ Answered(i)
    <2> DEFINE o == Acknowledge(out, p, ra, "acked")
    <2>0. /\ o \in [Id -> Row]
          /\ \A i \in Id: \/ o[i] = out[i]
                          \/ /\ out[i].state = "pending" /\ out[i].msgno = ra
                             /\ o[i] = Settled(out[i], "acked")
      BY <1>0, AcknowledgeEffect
    <2>1. \A i \in Id: \/ out'[i] = o[i]
                       \/ /\ o[i].state = "pending" /\ o[i].msgno = m
                          /\ out'[i] = Settled(o[i], s)
      <3>1. out' = Acknowledge(o, p, m, s)
        BY <1>1 DEF HandleResponse
      <3>2. QED
        BY <2>0, <3>1, AcknowledgeEffect
    <2>2. m \in Heard(p) \cup {None} /\ ra \in Heard(p) \cup {None}
      BY <1>1 DEF HandleResponse
    <2>3. ASSUME NEW i \in Id PROVE out'[i] = out[i] \/ Answered(i)
      <3> HIDE DEF o
      <3>1. \/ o[i] = out[i]
            \/ /\ out[i].state = "pending" /\ out[i].msgno = ra
               /\ o[i] = Settled(out[i], "acked")
        BY <2>0
      <3>2. \/ out'[i] = o[i]
            \/ /\ o[i].state = "pending" /\ o[i].msgno = m
               /\ out'[i] = Settled(o[i], s)
        BY <2>1
      <3>3. CASE o[i] = out[i] /\ out'[i] # o[i]
        <4>1. txs[i] > 0
          BY <1>0, <2>2, <3>2, <3>3, HeardTransmitted
        <4>2. QED
          BY <3>2, <3>3, <4>1 DEF Answered
      <3>4. CASE o[i] # out[i]
        <4>1. txs[i] > 0
          BY <1>0, <2>2, <3>1, <3>4, HeardTransmitted
        <4>2. o[i].state = "acked"
          BY <1>0, <3>1, <3>4 DEF Row, Settled
        <4>3. QED
          BY <3>1, <3>2, <3>4, <4>1, <4>2 DEF Answered
      <3>5. QED
        BY <3>3, <3>4
    <2>4. QED
      BY <1>1, <2>3 DEF HandleResponse
  <1>2. ASSUME NEW p \in Peers, NEW m \in PeerNos \cup {None}, NEW x \in Texts,
               NEW f \in BOOLEAN, NEW ra \in Msgno \cup {None}, HandleText(p, m, x, f, ra)
        PROVE  /\ seq' = seq /\ thr' = thr /\ txs' = txs /\ quiet' = quiet
               /\ \A i \in Id: out'[i] = out[i] \/ Answered(i)
    <2>1. ra \in Heard(p) \cup {None}
      BY <1>2 DEF HandleText
    <2>0. \A i \in Id: \/ out'[i] = out[i]
                       \/ /\ out[i].state = "pending" /\ out[i].msgno = ra
                          /\ out'[i] = Settled(out[i], "acked")
      <3>1. out' = Acknowledge(out, p, ra, "acked")
        BY <1>2 DEF HandleText
      <3>2. QED
        BY <1>0, <3>1, AcknowledgeEffect
    <2>2. ASSUME NEW i \in Id PROVE out'[i] = out[i] \/ Answered(i)
      <3>1. \/ out'[i] = out[i]
            \/ /\ out[i].state = "pending" /\ out[i].msgno = ra
               /\ out'[i] = Settled(out[i], "acked")
        BY <2>0
      <3>2. out'[i] # out[i] => txs[i] > 0
        BY <1>0, <2>1, <3>1, HeardTransmitted
      <3>3. QED
        BY <3>1, <3>2 DEF Answered
    <2>3. QED
      BY <1>2, <2>2 DEF HandleText
  <1>3. QED
    BY <1>1, <1>2 DEF Responses, Incoming

\* No answer restarts anything.
LEMMA HandleKeeps == (Responses \/ Incoming) => restarts' = restarts
  BY DEF Responses, Incoming, HandleResponse, HandleText, envVars

\* Answers settle rows and leave their counters alone.
LEMMA HandleInv == ASSUME TypeOK, IInv, Responses \/ Incoming
                   PROVE  IInv'
  <1>1. /\ seq' = seq /\ thr' = thr /\ txs' = txs /\ quiet' = quiet
        /\ \A i \in Id: out'[i] = out[i] \/ Answered(i)
    BY HandleEffect
  <1>2. \A i \in Id: \/ out'[i] = out[i]
                     \/ /\ out[i].state = "pending" /\ out'[i].state \in {"acked", "rejected"}
                        /\ out'[i].tries = out[i].tries /\ out'[i].msgno = out[i].msgno
    <2> SUFFICES ASSUME NEW i \in Id, Answered(i)
                 PROVE  /\ out[i].state = "pending" /\ out'[i].state \in {"acked", "rejected"}
                        /\ out'[i].tries = out[i].tries /\ out'[i].msgno = out[i].msgno
      BY <1>1
    <2>1. out[i] \in Row
      BY DEF TypeOK
    <2>2. QED
      BY <2>1 DEF Answered, Settled, Row
  <1>3. \A v \in Workers: thr[v].pc # "idle" => thr[v].id \in Id
    BY BoundsAssumption DEF IInv, Ownership, TypeOK, Id
  <1>4. Ownership'
    BY <1>1, <1>2, <1>3 DEF IInv, Ownership, Sending
  <1>5. FirstTry'
    BY <1>1, <1>2, <1>3 DEF IInv, FirstTry, Sending, Gap
  <1>6. RowsMatch'
    BY <1>1, <1>2 DEF IInv, RowsMatch
  <1>7. TriesCounted'
    BY <1>1, <1>2, HandleKeeps DEF IInv, TriesCounted
  <1>8. Spaced'
    BY <1>1, <1>2 DEF IInv, Spaced, Gap
  <1>9. QED
    BY <1>4, <1>5, <1>6, <1>7, <1>8 DEF IInv

\* What _try does to a due row: it gives it up, transmits it, or puts it off.
Tried(i) ==
    /\ out'[i].msgno = out[i].msgno
    /\ \/ /\ out[i].tries >= MaxTries /\ out'[i].state = "failed"
          /\ out'[i].tries = out[i].tries
          /\ txs'[i] = txs[i] /\ quiet'[i] = quiet[i]
       \/ /\ out[i].tries < MaxTries /\ out'[i].state = "pending"
          /\ out'[i].tries = out[i].tries + 1
          /\ out'[i].next_try = RetryDelays[out[i].tries + 1]
          /\ txs'[i] = txs[i] + 1 /\ quiet'[i] = 0
       \/ /\ out[i].tries < MaxTries /\ out'[i].state = "pending"
          /\ out'[i].tries = out[i].tries /\ out'[i].next_try = TxWait
          /\ txs'[i] = txs[i] /\ quiet'[i] = quiet[i]

Untouched(i) == out'[i] = out[i] /\ txs'[i] = txs[i] /\ quiet'[i] = quiet[i]

\* The row the process died on, after its transmission and before the write.
CutOff(i) == out'[i] = out[i] /\ txs'[i] = txs[i] + 1 /\ quiet'[i] = quiet[i]

LEMMA TryEffect ==
  ASSUME TypeOK, NEW i \in Due, out'[i] = TryRow(out[i]),
         txs'[i] = IF linkUp /\ i \in Retried THEN txs[i] + 1 ELSE txs[i],
         quiet'[i] = IF linkUp /\ i \in Retried THEN 0 ELSE quiet[i]
  PROVE  Tried(i)
  <1>1. i \in Id /\ out[i] \in Row /\ out[i].state = "pending"
    BY DEF TypeOK, Due
  <1>2. CASE out[i].tries >= MaxTries
    <2>1. i \notin Retried
      BY <1>2 DEF Retried, Exhausted
    <2>2. txs'[i] = txs[i] /\ quiet'[i] = quiet[i]
      BY <2>1
    <2>3. out'[i] = [out[i] EXCEPT !.state = "failed", !.next_try = None]
      BY <1>2 DEF TryRow
    <2>4. QED
      BY <1>1, <1>2, <2>2, <2>3 DEF Row, Tried
  <1>3. CASE ~(out[i].tries >= MaxTries)
    <2>1. i \in Retried
      BY <1>3 DEF Retried, Exhausted
    <2>2. out[i].tries < MaxTries
      BY <1>1, <1>3, MaxTriesType DEF Row
    <2>3. CASE linkUp
      <3>1. out'[i] = [out[i] EXCEPT !.tries = out[i].tries + 1,
                                     !.next_try = RetryDelays[out[i].tries + 1]]
        BY <1>3, <2>3, Zenon DEF TryRow
      <3>2. txs'[i] = txs[i] + 1 /\ quiet'[i] = 0
        BY <2>1, <2>3
      <3>3. QED
        BY <1>1, <2>2, <3>1, <3>2 DEF Row, Tried
    <2>4. CASE ~linkUp
      <3>1. out'[i] = [out[i] EXCEPT !.next_try = TxWait]
        BY <1>3, <2>4, Zenon DEF TryRow
      <3>2. txs'[i] = txs[i] /\ quiet'[i] = quiet[i]
        BY <2>4
      <3>3. QED
        BY <1>1, <2>2, <3>1, <3>2 DEF Row, Tried
    <2>5. QED
      BY <2>3, <2>4
  <1>4. QED
    BY <1>2, <1>3

\* What the tick does: it tries every due row and leaves the others alone.
LEMMA TickEffect ==
  ASSUME TypeOK, Tick
  PROVE  /\ seq' = seq /\ thr' = thr /\ restarts' = restarts
         /\ \A i \in Id \ Due: Untouched(i)
         /\ \A i \in Due: Tried(i)
  <1> USE DEF inVars, envVars, history
  <1>1. seq' = seq /\ thr' = thr /\ restarts' = restarts
    BY DEF Tick
  <1>2. \A i \in Id: /\ out'[i] = IF i \in Due THEN TryRow(out[i]) ELSE out[i]
                     /\ txs'[i] = IF linkUp /\ i \in Retried THEN txs[i] + 1 ELSE txs[i]
                     /\ quiet'[i] = IF linkUp /\ i \in Retried THEN 0 ELSE quiet[i]
    BY DEF Tick
  <1>3. \A i \in Id \ Due: Untouched(i)
    BY <1>2 DEF Retried, Untouched
  <1>4. ASSUME NEW i \in Due PROVE Tried(i)
    <2>1. i \in Id
      BY DEF Due
    <2>2. QED
      BY <1>2, <2>1, TryEffect
  <1>5. QED
    BY <1>1, <1>3, <1>4

\* What a restart does: the tick it interrupts may have tried some of the due rows, and cut
\* off one.
LEMMA RestartEffect ==
  ASSUME TypeOK, Restarts
  PROVE  /\ seq' = seq /\ restarts' = restarts + 1
         /\ \A w \in Workers: thr'[w].pc = "idle"
         /\ \A i \in Id \ Due: Untouched(i)
         /\ \A i \in Due: Untouched(i) \/ Tried(i) \/ CutOff(i)
  <1>1. PICK served \in SUBSET Due, cut \in Cuts: Restart(served, cut)
    BY DEF Restarts
  <1>2. seq' = seq /\ restarts' = restarts + 1 /\ \A w \in Workers: thr'[w].pc = "idle"
    BY <1>1 DEF Restart, Idle
  <1>3. \A i \in Id:
           /\ out'[i] = IF i \in served THEN TryRow(out[i]) ELSE out[i]
           /\ txs'[i] = IF linkUp /\ i \in Retried \cap (served \cup cut)
                        THEN txs[i] + 1 ELSE txs[i]
           /\ quiet'[i] = IF linkUp /\ i \in Retried \cap served THEN 0 ELSE quiet[i]
    BY <1>1 DEF Restart, Cut
  <1>4. \A i \in Id \ Due: Untouched(i)
    BY <1>3 DEF Retried, Untouched
  <1>5. ASSUME NEW i \in Due PROVE Untouched(i) \/ Tried(i) \/ CutOff(i)
    <2>1. i \in Id
      BY DEF Due
    <2>2. CASE i \in served
      BY <1>3, <2>1, <2>2, TryEffect
    <2>3. CASE i \notin served
      BY <1>3, <2>1, <2>3 DEF Untouched, CutOff
    <2>4. QED
      BY <2>2, <2>3
  <1>6. QED
    BY <1>2, <1>4, <1>5

\* A row that was tried is a row of its message still; its count and its transmissions
\* moved together, and a new countdown asks for the delay of its last counted try.
LEMMA TriedRow ==
  ASSUME TypeOK, IInv, NEW i \in Due, Tried(i)
  PROVE  /\ out'[i].state # "absent" /\ out'[i].msgno = out[i].msgno
         /\ out'[i].state = "pending" => out'[i].next_try \in Nat
         /\ \/ out'[i].tries = out[i].tries /\ txs'[i] = txs[i]
            \/ out'[i].tries = out[i].tries + 1 /\ txs'[i] = txs[i] + 1
         /\ (out'[i].state = "pending" /\ out'[i].tries > 0)
               => quiet'[i] + out'[i].next_try >= Gap(out'[i].tries)
  <1>1. /\ i \in Id /\ out[i].state = "pending" /\ out[i].next_try = 0
        /\ out[i].tries \in 0..MaxTries /\ out[i].tries \in Nat
        /\ txs[i] \in Nat /\ quiet[i] \in Nat
    BY MaxTriesType DEF Due, TypeOK, Row
  <1>2. TxWait \in Nat
    BY DelaysAssumption
  <1>3. CASE out[i].tries >= MaxTries
    BY <1>1, <1>3, MaxTriesType DEF Tried
  <1>4. CASE /\ out[i].tries < MaxTries /\ out'[i].tries = out[i].tries + 1
             /\ out'[i].next_try = RetryDelays[out[i].tries + 1] /\ quiet'[i] = 0
    <2>1. out[i].tries + 1 \in 1..MaxTries
      BY <1>1, <1>4, MaxTriesType
    <2>2. QED
      BY <1>1, <1>4, <2>1, DelayType, MaxTriesType DEF Tried
  <1>5. CASE /\ out[i].tries < MaxTries /\ out'[i].tries = out[i].tries
             /\ out'[i].next_try = TxWait /\ quiet'[i] = quiet[i]
    <2>1. ASSUME out[i].tries > 0
          PROVE  quiet[i] + TxWait >= Gap(out[i].tries)
      <3>1. quiet[i] + 0 >= Gap(out[i].tries)
        BY <1>1, <2>1 DEF IInv, Spaced
      <3>2. out[i].tries \in 1..MaxTries
        BY <1>1, <2>1, MaxTriesType
      <3>3. Gap(out[i].tries) \in Nat
        BY <3>2, DelayType
      <3>4. QED
        BY <1>1, <1>2, <3>1, <3>3
    <2>2. QED
      BY <1>1, <1>2, <1>5, <2>1, MaxTriesType DEF Tried
  <1>6. QED
    BY <1>1, <1>3, <1>4, <1>5, MaxTriesType DEF Tried

\* A tick row moves from one try to the next, its counter and its transmissions together.
LEMMA TickInv == ASSUME TypeOK, IInv, Tick PROVE IInv'
  <1>1. /\ seq' = seq /\ thr' = thr /\ restarts' = restarts
        /\ \A i \in Id \ Due: out'[i] = out[i] /\ txs'[i] = txs[i] /\ quiet'[i] = quiet[i]
    BY TickEffect DEF Untouched
  <1>2. \A i \in Due: /\ i \in Id /\ out[i].state = "pending" /\ out[i].next_try = 0
                      /\ out[i].tries \in Nat /\ txs[i] \in Nat /\ quiet[i] \in Nat
    BY MaxTriesType DEF Due, TypeOK, Row
  <1>3. \A i \in Due: /\ out'[i].state # "absent" /\ out'[i].msgno = out[i].msgno
                      /\ out'[i].state = "pending" => out'[i].next_try \in Nat
                      /\ \/ out'[i].tries = out[i].tries /\ txs'[i] = txs[i]
                         \/ out'[i].tries = out[i].tries + 1 /\ txs'[i] = txs[i] + 1
                      /\ (out'[i].state = "pending" /\ out'[i].tries > 0)
                            => quiet'[i] + out'[i].next_try >= Gap(out'[i].tries)
    BY TickEffect, TriedRow
  <1>4. \A v \in Workers: thr[v].pc # "idle" => thr[v].id \in Id
    BY BoundsAssumption DEF IInv, Ownership, TypeOK, Id
  <1>5. Ownership'
    BY <1>1, <1>2, <1>3, <1>4 DEF IInv, Ownership, Sending
  <1>6. FirstTry'
    <2> SUFFICES ASSUME NEW v \in Workers, Sending(v)
                 PROVE  LET k == thr[v].id IN
                        /\ out'[k].tries <= 1
                        /\ (out'[k].tries = 1 /\ out'[k].state = "pending") => out'[k].next_try >= Gap(1)
                        /\ thr[v].pc \in {"added", "refused"} => txs'[k] = out'[k].tries
                        /\ thr[v].pc = "sent" => txs'[k] > 0
      BY <1>1 DEF FirstTry, Gap, Sending
    <2> DEFINE k == thr[v].id
    <2>1. /\ k \in Id /\ out[k].tries <= 1
          /\ (out[k].tries = 1 /\ out[k].state = "pending") => out[k].next_try >= Gap(1)
          /\ thr[v].pc \in {"added", "refused"} => txs[k] = out[k].tries
          /\ thr[v].pc = "sent" => txs[k] > 0
      BY <1>4 DEF IInv, FirstTry, Sending
    <2>2. Gap(1) \in Nat \ {0} /\ Gap(1) <= RetryDelays[1] /\ RetryDelays[1] \in Nat
      BY DelayType, MaxTriesType
    <2>3. CASE k \notin Due
      BY <1>1, <2>1, <2>3
    <2>4. CASE k \in Due
      <3>1. out[k].tries = 0
        BY <1>2, <2>1, <2>2, <2>4
      <3>2. out[k].tries < MaxTries
        BY <3>1, MaxTriesType
      <3>3. \/ /\ out'[k].tries = 1 /\ out'[k].next_try = RetryDelays[1] /\ txs'[k] = txs[k] + 1
            \/ /\ out'[k].tries = 0 /\ txs'[k] = txs[k]
        BY <1>2, <2>4, <3>1, <3>2, MaxTriesType, TickEffect DEF Tried
      <3>4. QED
        BY <1>2, <2>1, <2>2, <2>4, <3>1, <3>3
    <2>5. QED
      BY <2>3, <2>4
  <1>7. RowsMatch'
    BY <1>1, <1>2, <1>3 DEF IInv, RowsMatch
  <1>8. TriesCounted'
    <2> SUFFICES ASSUME NEW i \in Id
                 PROVE  out'[i].tries <= txs'[i] /\ txs'[i] <= out'[i].tries + 1 + restarts
      BY <1>1 DEF TriesCounted
    <2>1. out[i].tries <= txs[i] /\ txs[i] <= out[i].tries + 1 + restarts /\ restarts \in Nat
      BY DEF IInv, TriesCounted, TypeOK
    <2>2. QED
      BY <1>1, <1>2, <1>3, <2>1
  <1>9. Spaced'
    BY <1>1, <1>3 DEF IInv, Spaced, Gap
  <1>10. QED
    BY <1>5, <1>6, <1>7, <1>8, <1>9 DEF IInv

\* One unit of time moves from the countdown to the time since the last transmission.
LEMMA CountdownSum ==
  ASSUME NEW q \in Nat, NEW n \in Nat, NEW g \in Nat, NEW h \in Nat, g <= h, q + n >= g
  PROVE  (IF q < h THEN q + 1 ELSE q) + Less(n) >= g
  BY DEF Less

\* What the countdown loses the time since the last transmission gains.
LEMMA AdvanceInv == ASSUME TypeOK, IInv, Advance PROVE IInv'
  <1> USE DEF envVars
  <1>1. /\ seq' = seq /\ thr' = thr /\ txs' = txs
        /\ \A w \in Workers: thr[w].pc = "idle"
    BY DEF Advance
  <1>2. ASSUME NEW i \in Id
        PROVE  /\ out'[i].state = out[i].state /\ out'[i].tries = out[i].tries
               /\ out'[i].msgno = out[i].msgno
               /\ out[i].state = "pending" => out'[i].next_try = Less(out[i].next_try)
    <2>1. out[i] \in Row /\ out'[i] = IF out[i].state = "pending"
                                      THEN [out[i] EXCEPT !.next_try = Less(out[i].next_try)]
                                      ELSE out[i]
      BY DEF Advance, TypeOK
    <2>2. QED
      BY <2>1 DEF Row
  <1>3. Ownership' /\ FirstTry'
    BY <1>1 DEF Ownership, FirstTry, Sending
  <1>4. RowsMatch'
    <2>1. \A i \in Id: out[i].state = "pending" => Less(out[i].next_try) \in Nat
      BY LessType DEF IInv, RowsMatch
    <2>2. QED
      BY <1>1, <1>2, <2>1 DEF IInv, RowsMatch
  <1>5. TriesCounted'
    BY <1>1, <1>2 DEF Advance, IInv, TriesCounted
  <1>6. Spaced'
    <2> SUFFICES ASSUME NEW i \in Id, out[i].state = "pending", out[i].tries > 0
                 PROVE  quiet'[i] + Less(out[i].next_try) >= Gap(out[i].tries)
      BY <1>2 DEF Spaced, Gap
    <2>1. quiet[i] + out[i].next_try >= Gap(out[i].tries) /\ out[i].next_try \in Nat
      BY DEF IInv, Spaced, RowsMatch
    <2>2. out[i].tries \in 1..MaxTries /\ quiet[i] \in Nat
      BY MaxTriesType DEF TypeOK, Row
    <2>3. Gap(out[i].tries) \in Nat /\ Gap(out[i].tries) <= Horizon
      BY <2>2, GapBounded
    <2>4. quiet'[i] = IF quiet[i] < Horizon THEN quiet[i] + 1 ELSE quiet[i]
      BY DEF Advance
    <2>5. QED
      BY <2>1, <2>2, <2>3, <2>4, DelaysAssumption, CountdownSum
  <1>7. QED
    BY <1>3, <1>4, <1>5, <1>6 DEF IInv

\* A restart drops the workers and keeps the table as the tick left it; the transmission
\* it cut off is one more than the tries count.
LEMMA RestartInv == ASSUME TypeOK, IInv, Restarts PROVE IInv'
  <1>1. /\ seq' = seq /\ restarts' = restarts + 1 /\ restarts \in Nat
        /\ \A w \in Workers: thr'[w].pc = "idle"
        /\ \A i \in Id \ Due: Untouched(i)
    BY RestartEffect DEF TypeOK
  <1>2. \A i \in Due: /\ i \in Id /\ out[i].state = "pending"
                      /\ out[i].tries \in Nat /\ txs[i] \in Nat
    BY MaxTriesType DEF Due, TypeOK, Row
  <1>3. \A i \in Due: \/ Untouched(i) \/ CutOff(i)
                      \/ /\ out'[i].state # "absent" /\ out'[i].msgno = out[i].msgno
                         /\ out'[i].state = "pending" => out'[i].next_try \in Nat
                         /\ \/ out'[i].tries = out[i].tries /\ txs'[i] = txs[i]
                            \/ out'[i].tries = out[i].tries + 1 /\ txs'[i] = txs[i] + 1
                         /\ (out'[i].state = "pending" /\ out'[i].tries > 0)
                               => quiet'[i] + out'[i].next_try >= Gap(out'[i].tries)
    BY RestartEffect, TriedRow
  <1>4. Ownership' /\ FirstTry'
    BY <1>1 DEF Ownership, FirstTry, Sending
  <1>5. RowsMatch'
    BY <1>1, <1>2, <1>3 DEF IInv, RowsMatch, Untouched, CutOff
  <1>6. TriesCounted'
    <2> SUFFICES ASSUME NEW i \in Id
                 PROVE  out'[i].tries <= txs'[i] /\ txs'[i] <= out'[i].tries + 1 + (restarts + 1)
      BY <1>1 DEF TriesCounted
    <2>1. /\ out[i].tries <= txs[i] /\ txs[i] <= out[i].tries + 1 + restarts
          /\ out[i].tries \in Nat /\ txs[i] \in Nat
      BY MaxTriesType DEF IInv, TriesCounted, TypeOK, Row
    <2>2. QED
      BY <1>1, <1>3, <2>1 DEF Untouched, CutOff
  <1>7. Spaced'
    BY <1>1, <1>3 DEF IInv, Spaced, Gap, Untouched, CutOff
  <1>8. QED
    BY <1>4, <1>5, <1>6, <1>7 DEF IInv

\* The link concerns nothing the invariant speaks of.
LEMMA LinkInv == ASSUME TypeOK, IInv, LinkChange \/ UNCHANGED vars PROVE IInv'
  <1>1. UNCHANGED <<seq, out, txs, quiet, thr, restarts>>
    BY DEF LinkChange, vars, history
  <1>2. Ownership' /\ FirstTry'
    BY <1>1 DEF IInv, Ownership, FirstTry, Sending, Gap
  <1>3. RowsMatch' /\ TriesCounted' /\ Spaced'
    BY <1>1 DEF IInv, RowsMatch, TriesCounted, Spaced, Gap
  <1>4. QED
    BY <1>2, <1>3 DEF IInv

\* Every step keeps the invariant.
LEMMA NextInv == ASSUME TypeOK, IInv, [Next]_vars PROVE IInv'
  BY NumberInv, RejectInv, AddInv, TransmitInv, RecordInv, HandleInv, TickInv, AdvanceInv,
     RestartInv, LinkInv DEF Next, Send

-----------------------------------------------------------------------------
\* The theorems

\* In every reachable state the table, the threads and the timers have their types,
\* and each worker holds a row of its own at its first try (messaging.py:63-105).
THEOREM Invariance == Spec => [](TypeOK /\ IInv)
  <1>1. Init => TypeOK /\ IInv
    BY InitType, InitInv
  <1>2. TypeOK /\ IInv /\ [Next]_vars => (TypeOK /\ IInv)'
    BY NextType, NextInv
  <1>3. QED
    BY <1>1, <1>2, PTL DEF Spec

\* The tables, the clocks and the threads inside send keep their types (messaging.py:63-164).
THEOREM TypesKept == Spec => []TypeOK
  BY Invariance, PTL

\* The tries column never runs ahead of the transmissions and lags them by one at most
\* (messaging.py:91-105).
THEOREM TriesAreCounted == Spec => []TriesCounted
  <1>1. TypeOK /\ IInv => TriesCounted
    BY DEF IInv
  <1>2. QED
    BY <1>1, Invariance, PTL

\* A tick repeats or gives up a message only when the delay after its last counted try
\* has passed (messaging.py:26, 85-105).
THEOREM TicksAreSpaced == Spec => TickSpaced
  <1> DEFINE A == \A i \in Id: LET before == out[i].tries IN
        /\ (txs'[i] > txs[i] /\ thr' = thr /\ before > 0) => quiet[i] >= Gap(before)
        /\ (out'[i].state = "failed" /\ out[i].state # "failed") => quiet[i] >= Gap(MaxTries)
  <1>1. ASSUME TypeOK, IInv, [Next]_vars PROVE [A]_vars
    <2> SUFFICES ASSUME Next, NEW i \in Id
                 PROVE  LET before == out[i].tries IN
                   /\ (txs'[i] > txs[i] /\ thr' = thr /\ before > 0) => quiet[i] >= Gap(before)
                   /\ (out'[i].state = "failed" /\ out[i].state # "failed")
                          => quiet[i] >= Gap(MaxTries)
      BY <1>1
    <2>1. i \in Due => (out[i].tries > 0 => quiet[i] >= Gap(out[i].tries))
      <3> SUFFICES ASSUME i \in Due, out[i].tries > 0 PROVE quiet[i] >= Gap(out[i].tries)
        OBVIOUS
      <3>1. quiet[i] + 0 >= Gap(out[i].tries) /\ quiet[i] \in Nat
        BY <1>1 DEF Due, IInv, Spaced, TypeOK
      <3>2. out[i].tries \in 1..MaxTries
        BY <1>1, MaxTriesType DEF TypeOK, Row
      <3>3. QED
        BY <3>1, <3>2, DelayType
    <2>2. CASE Tick
      <3>1. CASE i \notin Due
        BY <1>1, <2>2, <3>1, TickEffect DEF TypeOK, Untouched
      <3>2. CASE i \in Due
        <4>1. (out'[i].state = "failed" /\ out[i].state # "failed") => out[i].tries = MaxTries
          <5>1. out'[i].state = "failed" => out[i].tries >= MaxTries
            BY <1>1, <2>2, <3>2, TickEffect DEF Tried
          <5>2. out[i].tries \in 0..MaxTries
            BY <1>1 DEF TypeOK, Row
          <5>3. QED
            BY <5>1, <5>2, MaxTriesType
        <4>2. QED
          BY <2>1, <3>2, <4>1, MaxTriesType
      <3>3. QED
        BY <3>1, <3>2
    <2>3. ASSUME NEW w \in Workers, Send(w)
          PROVE  (txs'[i] = txs[i] \/ thr' # thr) /\ (out'[i].state = "failed" => out[i].state = "failed")
      <3>1. txs'[i] = txs[i] \/ thr' # thr
        BY <1>1, <2>3 DEF Send, Number, RejectText, Add, Transmit, Record, history, TypeOK, Thread
      <3>2. out' # out => Add(w) \/ Record(w)
        BY <2>3 DEF Send, Number, RejectText, Transmit
      <3>3. CASE Add(w)
        BY <1>1, <3>1, <3>3 DEF Add, TypeOK
      <3>4. CASE Record(w)
        <4>1. \/ out'[i] = out[i]
              \/ out'[i] = [out[i] EXCEPT !.tries = 1, !.next_try = RetryDelays[1]]
              \/ out'[i] = [out[i] EXCEPT !.tries = 1]
              \/ out'[i] = [out[i] EXCEPT !.next_try = TxWait]
          BY <1>1, <3>4 DEF Record, TypeOK
        <4>2. out[i] \in Row
          BY <1>1 DEF TypeOK
        <4>3. out'[i].state = out[i].state
          BY <4>1, <4>2 DEF Row
        <4>4. QED
          BY <3>1, <4>3
      <3>5. QED
        BY <3>1, <3>2, <3>3, <3>4
    <2>4. CASE Responses \/ Incoming
      <3>1. txs' = txs /\ (out'[i] = out[i] \/ Answered(i))
        BY <1>1, <2>4, HandleEffect
      <3>2. Answered(i) => out'[i].state # "failed"
        BY <1>1 DEF Answered, Settled, TypeOK, Row
      <3>3. QED
        BY <1>1, <3>1, <3>2 DEF TypeOK
    <2>5. CASE LinkChange
      BY <1>1, <2>5 DEF LinkChange, history, TypeOK
    <2>8. CASE Restarts
      <3>1. CASE i \notin Due
        BY <1>1, <2>8, <3>1, RestartEffect DEF TypeOK, Untouched
      <3>2. CASE i \in Due
        <4>1. (out'[i].state = "failed" /\ out[i].state # "failed") => out[i].tries = MaxTries
          <5>1. (out'[i].state = "failed" /\ out[i].state # "failed") => out[i].tries >= MaxTries
            BY <1>1, <2>8, <3>2, RestartEffect DEF Tried, Untouched, CutOff
          <5>2. out[i].tries \in 0..MaxTries
            BY <1>1 DEF TypeOK, Row
          <5>3. QED
            BY <5>1, <5>2, MaxTriesType
        <4>2. QED
          BY <2>1, <3>2, <4>1, MaxTriesType
      <3>3. QED
        BY <3>1, <3>2
    <2>6. CASE Advance
      <3>1. txs' = txs /\ out[i] \in Row
        BY <1>1, <2>6 DEF Advance, TypeOK
      <3>2. out'[i].state = out[i].state
        BY <2>6, <3>1 DEF Advance, Row
      <3>3. QED
        BY <1>1, <3>1, <3>2 DEF TypeOK
    <2>7. QED
      BY <1>1, <2>2, <2>3, <2>4, <2>5, <2>6, <2>8 DEF Next, TypeOK
  <1>2. QED
    BY <1>1, Invariance, PTL DEF Spec, TickSpaced

\* One step, seen at one message of the life cycle.
Move(i) == \/ /\ out[i].state = "absent" /\ out'[i].state = "pending" /\ txs'[i] = txs[i]
           \/ /\ out[i].state # "absent" /\ out'[i].state = out[i].state /\ txs'[i] = txs[i] + 1
           \/ /\ out[i].state = "pending" /\ txs[i] > 0
              /\ out'[i].state \in {"acked", "rejected"} /\ txs'[i] = txs[i]
           \/ /\ out[i].state = "pending" /\ txs[i] >= MaxTries
              /\ out'[i].state = "failed" /\ txs'[i] = txs[i]
           \/ /\ out'[i].state = out[i].state /\ txs'[i] = txs[i]

\* A step of send is a step of the message life cycle, or leaves it alone.
LEMMA SendMoves == ASSUME TypeOK, IInv, NEW w \in Workers, Send(w), NEW i \in Id
                   PROVE  Move(i)
  <1> USE DEF history
  <1>1. CASE (\E p \in Peers: Number(w, p)) \/ RejectText(w)
    BY <1>1 DEF Number, RejectText, Move
  <1>2. CASE Add(w)
    <2>1. thr[w].pc = "numbered" /\ out[thr[w].id].state = "absent" /\ txs' = txs
      BY <1>2 DEF Add, IInv, Ownership
    <2>2. out' = [out EXCEPT ![thr[w].id] = [state |-> "pending", peer |-> thr[w].peer,
                   msgno |-> thr[w].msgno, tries |-> 0, next_try |-> 0]]
      BY <1>2 DEF Add
    <2>3. CASE i = thr[w].id
      BY <2>1, <2>2, <2>3 DEF Move, TypeOK
    <2>4. CASE i # thr[w].id
      BY <2>1, <2>2, <2>4 DEF Move, TypeOK
    <2>5. QED
      BY <2>3, <2>4
  <1>3. CASE Transmit(w)
    <2>1. thr[w].pc = "added" /\ out[thr[w].id].state # "absent" /\ out' = out
      BY <1>3 DEF Transmit, IInv, Ownership, Sending
    <2>2. txs' = txs \/ txs' = [txs EXCEPT ![thr[w].id] = @ + 1]
      BY <1>3 DEF Transmit
    <2>3. QED
      BY <2>1, <2>2 DEF Move, TypeOK
  <1>4. CASE Record(w)
    <2>1. \/ out'[i] = out[i]
          \/ out'[i] = [out[i] EXCEPT !.tries = 1, !.next_try = RetryDelays[1]]
          \/ out'[i] = [out[i] EXCEPT !.tries = 1]
          \/ out'[i] = [out[i] EXCEPT !.next_try = TxWait]
      BY <1>4 DEF Record, TypeOK
    <2>2. out[i] \in Row
      BY DEF TypeOK
    <2>3. out'[i].state = out[i].state
      BY <2>1, <2>2 DEF Row
    <2>4. QED
      BY <1>4, <2>3 DEF Record, Move
  <1>5. QED
    BY <1>1, <1>2, <1>3, <1>4 DEF Send

\* So is every step, for each message.
LEMMA NextMoves == ASSUME TypeOK, IInv, Next, NEW i \in Id
                   PROVE  Move(i)
  <1> USE DEF history
  <1>1. out[i] \in Row /\ txs[i] \in Nat
    BY DEF TypeOK
  <1>2. CASE Tick \/ Restarts
    <2>1. CASE i \notin Due
      BY <1>2, <2>1, TickEffect, RestartEffect DEF Move, Untouched
    <2>2. CASE i \in Due
      <3>1. out[i].state = "pending" /\ out[i].tries <= txs[i] /\ out[i].tries \in Nat
        BY <1>1, <2>2, MaxTriesType DEF Due, IInv, TriesCounted, Row
      <3>2. Untouched(i) \/ Tried(i) \/ CutOff(i)
        BY <1>2, <2>2, TickEffect, RestartEffect
      <3>3. out[i].tries >= MaxTries => txs[i] >= MaxTries
        BY <1>1, <3>1, MaxTriesType
      <3>4. QED
        BY <3>1, <3>2, <3>3 DEF Move, Untouched, Tried, CutOff
    <2>3. QED
      BY <2>1, <2>2
  <1>3. CASE Responses \/ Incoming
    <2>1. txs' = txs /\ (out'[i] = out[i] \/ Answered(i))
      BY <1>3, HandleEffect
    <2>2. Answered(i) => /\ out[i].state = "pending" /\ txs[i] > 0
                         /\ out'[i].state \in {"acked", "rejected"}
      BY <1>1 DEF Answered, Settled, Row
    <2>3. QED
      BY <2>1, <2>2 DEF Move
  <1>4. CASE LinkChange
    BY <1>4 DEF LinkChange, Move
  <1>5. CASE Advance
    <2>1. out'[i] = out[i] \/ out'[i] = [out[i] EXCEPT !.next_try = Less(out[i].next_try)]
      BY <1>5 DEF Advance
    <2>2. out'[i].state = out[i].state
      BY <1>1, <2>1 DEF Row
    <2>3. QED
      BY <1>5, <2>2 DEF Advance, Move
  <1>6. QED
    BY SendMoves, <1>2, <1>3, <1>4, <1>5 DEF Next

\* Messaging implements the life cycle: whatever the interleaving of sends, ticks,
\* answers and restarts, an outgoing message ends acked, rejected or failed for good,
\* answered only after it was on the air and given up only after every try was
\* (messaging.py:63-119).
THEOREM Implements == Spec => Lifecycle
  <1> DEFINE phase == [i \in Id |-> out[i].state]
  <1>1. Init => Life!Init
    BY DEF Init, Life!Init, NoRow
  <1>2. ASSUME TypeOK, IInv, [Next]_vars PROVE [Life!Next]_<<phase, txs>>
    <2>1. CASE UNCHANGED vars
      BY <2>1 DEF vars
    <2>2. CASE Next
      <3>1. TypeOK'
        BY <1>2, NextType
      <3>2. phase' \in [Id -> {"absent", "pending"} \cup Life!Terminal] /\ txs' \in [Id -> Nat]
        BY <3>1 DEF TypeOK, Row, Terminal, Life!Terminal
      <3>3. \A i \in Id: Move(i)
        BY <1>2, <2>2, NextMoves
      <3>4. \A i \in Id: Life!Create(i) \/ Life!Transmit(i) \/ Life!Answer(i)
                            \/ Life!GiveUp(i) \/ Life!Keep(i)
        BY <3>3 DEF Move, Life!Create, Life!Transmit, Life!Answer, Life!GiveUp, Life!Keep
      <3>5. QED
        BY <3>2, <3>4 DEF Life!Next
    <2>3. QED
      BY <1>2, <2>1, <2>2
  <1>3. QED
    BY <1>1, <1>2, Invariance, PTL DEF Spec, Lifecycle, Life!Spec

-----------------------------------------------------------------------------
\* MessageExchange

\* How old the row of p's message is, and how long its number is not acked again.
Age(p) == inbox[Key(p)]
Hold(p) == holdoff[<<p, NumberOf(p)>>]

-----------------------------------------------------------------------------
\* The inductive invariant

\* What was not stored yet would be stored now; what was heard was stored, once.
StoredInv(p) ==
    /\ sent[p] = 0 => heard[p] = "no" /\ acks[p] = 0 /\ stored[p] = 0
    /\ stored[p] <= 1
    /\ heard[p] # "no" => stored[p] = 1
    /\ stored[p] = 0 => Age(p) > Window(NumberOf(p))

\* The holdoff runs only after an ack of this transmission, outlasts the transmission's
\* copies, and is over when the next transmission comes.
AckInv(p) ==
    /\ sent[p] = 0 => Hold(p) = 0
    /\ Hold(p) > 0 => acks[p] >= 1 /\ Hold(p) + since[p] <= CopySpread + AckHoldoff
    /\ heard[p] = "linked" => acks[p] >= 1
    /\ acks[p] <= 1 + restarts
    /\ since[p] + Hold(p) <= CopySpread => acks[p] <= restarts

\* The row of a numbered message is as young as the message, while copies of it can come.
RetryInv(p) ==
    stored[p] = 1 =>
        /\ life[p] <= PeerLife => Age(p) <= life[p]
        /\ (life[p] > PeerLife /\ since[p] <= CopySpread) => Age(p) <= PeerLife + since[p]

\* The row of an unnumbered one is as young as its transmission while copies of it can come,
\* and grows old with it afterwards.
RepeatInv(p) ==
    /\ acks[p] = 0
    /\ stored[p] = 1 =>
          /\ since[p] <= CopySpread => Age(p) <= since[p]
          /\ Age(p) = Forgotten \/ Age(p) + CopySpread >= since[p]

PeerInv(p) ==
    /\ StoredInv(p)
    /\ p \in Numbered => AckInv(p) /\ RetryInv(p)
    /\ p \notin Numbered => RepeatInv(p)

PeerType ==
    /\ sent \in [Peers -> 0..PeerTries]
    /\ since \in [Peers -> Nat] /\ life \in [Peers -> Nat]
    /\ heard \in [Peers -> {"no", "heard", "linked"}]
    /\ acks \in [Peers -> Nat] /\ stored \in [Peers -> Nat]

XInv == PeerType /\ \A p \in Peers: PeerInv(p)

-----------------------------------------------------------------------------
\* Names, numbers and clocks

\* What p sends has a key of the table and, numbered, one of the holdoffs; no two peers share
\* them.
LEMMA PeerKeys ==
  ASSUME NEW p \in Peers
  PROVE  /\ NumberOf(p) \in PeerNos \cup {None} /\ TextOf(p) \in Texts
         /\ Key(p) \in InKey
         /\ p \in Numbered => NumberOf(p) \in PeerNos /\ NumberOf(p) # None
                              /\ <<p, NumberOf(p)>> \in Peers \X PeerNos
         /\ p \notin Numbered => NumberOf(p) = None
  <1>1. TextOf(p) \in Texts
    BY TimingAssumption DEF TextOf
  <1>2. p \in Numbered => NumberOf(p) \in PeerNos
    BY TimingAssumption DEF NumberOf
  <1>3. p \notin Numbered => NumberOf(p) = None
    BY DEF NumberOf
  <1>4. None \notin PeerNos
    BY BoundsAssumption
  <1>5. Key(p) \in InKey
    BY <1>1, <1>2, <1>3 DEF Key, InKey
  <1>6. QED
    BY <1>1, <1>2, <1>3, <1>4, <1>5

LEMMA KeysApart ==
  ASSUME NEW p \in Peers, NEW q \in Peers, p # q
  PROVE  /\ Key(p) # Key(q) /\ \A m, n: <<p, m>> # <<q, n>>
  BY DEF Key

\* The constants are numbers in the order the code takes for granted.
LEMMA Timings ==
  /\ CopySpread \in Nat /\ PeerLife \in Nat /\ PeerTries \in Nat /\ PeerRetry \in Nat
  /\ UnnumberedGap \in Nat /\ AckHoldoff \in Nat
  /\ DupeWindow \in Nat /\ DupeWindowUnnumbered \in Nat /\ DupeWindowUnnumbered <= DupeWindow
  /\ Forgotten = DupeWindow + 1
  /\ CopySpread < AckHoldoff /\ CopySpread + AckHoldoff <= PeerRetry
  /\ PeerLife + CopySpread <= DupeWindow /\ CopySpread <= DupeWindowUnnumbered
  /\ UnnumberedGap > DupeWindowUnnumbered + CopySpread
  /\ LongestGap \in Nat /\ LongestGap >= PeerRetry /\ LongestGap >= UnnumberedGap
  BY TimingAssumption, BoundsAssumption DEF LongestGap, Forgotten

LEMMA Windows ==
  ASSUME NEW p \in Peers
  PROVE  /\ p \in Numbered => Window(NumberOf(p)) = DupeWindow
         /\ p \notin Numbered => Window(NumberOf(p)) = DupeWindowUnnumbered
  BY PeerKeys DEF Window

\* The state of one peer, in numbers.
LEMMA PeerFields ==
  ASSUME TypeOK, PeerType, NEW p \in Peers
  PROVE  /\ sent[p] \in Nat /\ since[p] \in Nat /\ life[p] \in Nat
         /\ acks[p] \in Nat /\ stored[p] \in Nat /\ restarts \in Nat
         /\ heard[p] \in {"no", "heard", "linked"}
         /\ Age(p) \in Nat /\ Age(p) <= Forgotten
         /\ p \in Numbered => Hold(p) \in Nat /\ Hold(p) <= AckHoldoff
  <1>1. Age(p) \in 0..Forgotten
    BY PeerKeys DEF TypeOK, Age
  <1>2. p \in Numbered => Hold(p) \in 0..AckHoldoff
    BY PeerKeys DEF TypeOK, Hold
  <1>3. QED
    BY <1>1, <1>2, Timings, BoundsAssumption DEF TypeOK, PeerType

-----------------------------------------------------------------------------
\* The composition is a behaviour of Messenger

LEMMA StepIsMessengers == [XNext]_allVars => [Next]_vars
  <1>1. ASSUME NEW p \in Peers, CopyArrives(p) PROVE Next
    <2>1. PICK m, x: m = NumberOf(p) /\ x = TextOf(p)
      OBVIOUS
    <2>2. PICK f \in BOOLEAN: f <=> p \in Numbered
      OBVIOUS
    <2>3. HandleText(p, m, x, f, None)
      BY <1>1, <2>1, <2>2 DEF CopyArrives, HandleText
    <2>4. m \in PeerNos \cup {None} /\ x \in Texts
      BY <2>1, PeerKeys
    <2>5. None \in Msgno \cup {None}
      OBVIOUS
    <2>6. Incoming
      BY <2>3, <2>4, <2>2, <2>5 DEF Incoming
    <2>7. QED
      BY <2>6 DEF Next
  <1>2. ASSUME NEW p \in Peers, PeerTransmits(p) PROVE UNCHANGED vars
    BY <1>2 DEF PeerTransmits
  <1>3. TimePasses \/ Own => Next
    BY DEF TimePasses, Own, Next
  <1>6. ASSUME NEW p \in Peers, DiesHandling(p) PROVE Next
    BY <1>6 DEF DiesHandling, Restarts, Cuts, Next
  <1>4. UNCHANGED allVars => UNCHANGED vars
    BY DEF allVars
  <1>5. QED
    BY <1>1, <1>2, <1>3, <1>4, <1>6 DEF XNext

\* What is heard and acked here happens in a behaviour of Messenger: the composition only
\* adds when the copies come.
THEOREM ImplementsMessenger == XSpec => Spec
  <1>1. XInit => Init
    BY DEF XInit
  <1>2. QED
    BY <1>1, StepIsMessengers, PTL DEF XSpec, Spec

-----------------------------------------------------------------------------
\* The invariant

LEMMA XInitInv == XInit => XInv
  <1> SUFFICES ASSUME XInit PROVE XInv
    OBVIOUS
  <1>1. PeerType
    BY Timings DEF XInit, PeerType
  <1>2. ASSUME NEW p \in Peers PROVE PeerInv(p)
    <2>1. Age(p) = Forgotten
      BY PeerKeys DEF XInit, Init, Age
    <2>2. p \in Numbered => Hold(p) = 0
      BY PeerKeys DEF XInit, Init, Hold
    <2>3. sent[p] = 0 /\ heard[p] = "no" /\ acks[p] = 0 /\ stored[p] = 0 /\ restarts = 0
      BY DEF XInit, Init
    <2>4. StoredInv(p)
      BY <2>1, <2>3, Timings, Windows DEF StoredInv
    <2>5. p \in Numbered => AckInv(p) /\ RetryInv(p)
      BY <2>2, <2>3 DEF AckInv, RetryInv
    <2>6. RepeatInv(p)
      BY <2>3 DEF RepeatInv
    <2>7. QED
      BY <2>4, <2>5, <2>6 DEF PeerInv
  <1>3. QED
    BY <1>1, <1>2 DEF XInv

\* A step that leaves a peer and its row alone, except that time may make it older.
LEMMA PeerKept ==
  ASSUME TypeOK, PeerType, NEW p \in Peers, PeerInv(p), restarts' = restarts,
         Age(p)' = Age(p), p \in Numbered => Hold(p)' = Hold(p),
         sent'[p] = sent[p], since'[p] = since[p], life'[p] = life[p], heard'[p] = heard[p],
         acks'[p] = acks[p], stored'[p] = stored[p]
  PROVE  PeerInv(p)'
  BY DEF PeerInv, StoredInv, AckInv, RetryInv, RepeatInv

\* A transmission comes when the acks of the one before it are over and done with.
LEMMA TransmitsInv ==
  ASSUME TypeOK, XInv, NEW p \in Peers, PeerTransmits(p)
  PROVE  XInv'
  <1> USE DEF XInv
  <1>1. UNCHANGED <<inbox, holdoff, restarts>>
    BY DEF PeerTransmits, vars
  <1>2. PeerType'
    BY Timings DEF PeerTransmits, PeerType
  <1>3. \A q \in Peers: Age(q)' = Age(q) /\ Hold(q)' = Hold(q)
    BY <1>1 DEF Age, Hold
  <1>4. ASSUME NEW q \in Peers, q # p PROVE PeerInv(q)'
    <2>1. /\ sent'[q] = sent[q] /\ since'[q] = since[q] /\ life'[q] = life[q]
          /\ heard'[q] = heard[q] /\ acks'[q] = acks[q] /\ stored'[q] = stored[q]
      BY <1>4 DEF PeerTransmits, PeerType
    <2>2. QED
      BY <1>1, <1>3, <2>1, PeerKept
  <1>5. PeerInv(p)'
    <2>1. /\ sent'[p] = sent[p] + 1 /\ since'[p] = 0 /\ acks'[p] = 0 /\ heard'[p] = "no"
          /\ life'[p] = (IF sent[p] = 0 THEN 0 ELSE life[p])
          /\ stored'[p] = (IF p \in Numbered THEN stored[p] ELSE 0)
          /\ sent[p] > 0 => /\ p \in Numbered => since[p] >= PeerRetry /\ life[p] <= PeerLife
                            /\ p \notin Numbered => since[p] >= UnnumberedGap
      BY DEF PeerTransmits, PeerType
    <2>2. PeerInv(p)
      OBVIOUS
    <2>3. CASE p \in Numbered
      <3>1. Hold(p) = 0
        BY <2>1, <2>2, <2>3, PeerFields, Timings DEF PeerInv, AckInv
      <3>2. AckInv(p)'
        BY <1>1, <1>3, <2>1, <3>1, PeerFields DEF AckInv
      <3>3. RetryInv(p)'
        <4>1. CASE sent[p] = 0
          <5>1. stored'[p] = 0
            BY <2>1, <2>2, <2>3, <4>1 DEF PeerInv, StoredInv
          <5>2. QED
            BY <5>1 DEF RetryInv
        <4>2. CASE sent[p] # 0
          <5>1. life'[p] = life[p] /\ life[p] <= PeerLife /\ stored'[p] = stored[p]
            BY <2>1, <2>3, <4>2, PeerFields
          <5>2. RetryInv(p)
            BY <2>2, <2>3 DEF PeerInv
          <5>3. life[p] \in Nat /\ PeerLife \in Nat /\ Age(p)' = Age(p)
            BY <1>3, PeerFields, Timings
          <5>4. QED
            BY <5>1, <5>2, <5>3 DEF RetryInv
        <4>3. QED
          BY <4>1, <4>2
      <3>4. StoredInv(p)'
        BY <1>3, <2>1, <2>2, <2>3, PeerFields DEF PeerInv, StoredInv
      <3>5. QED
        BY <2>3, <3>2, <3>3, <3>4 DEF PeerInv
    <2>4. CASE p \notin Numbered
      <3>1. Age(p) > Window(NumberOf(p))
        BY <2>1, <2>2, <2>4, PeerFields, Timings, Windows
           DEF PeerInv, StoredInv, RepeatInv
      <3>2. StoredInv(p)' /\ RepeatInv(p)'
        BY <1>3, <2>1, <2>4, <3>1, PeerFields DEF StoredInv, RepeatInv
      <3>3. QED
        BY <2>4, <3>2 DEF PeerInv
    <2>5. QED
      BY <2>3, <2>4
  <1>6. QED
    BY <1>2, <1>4, <1>5

\* A copy is stored unless the transmission or an earlier one is, and acked unless a copy of
\* the transmission was.
LEMMA ArrivesInv ==
  ASSUME TypeOK, XInv, NEW p \in Peers, CopyArrives(p)
  PROVE  XInv'
  <1> USE DEF XInv
  <1> DEFINE m == NumberOf(p)
             acked == AckGoesOut(p, m)
             news == Age(p) > Window(m)
  <1>1. /\ sent[p] > 0 /\ since[p] <= CopySpread
        /\ holdoff' = IF acked THEN [holdoff EXCEPT ![<<p, m>>] = AckHoldoff] ELSE holdoff
        /\ inbox' = IF Age(p) <= Window(m) THEN inbox ELSE [inbox EXCEPT ![Key(p)] = 0]
        /\ UNCHANGED <<restarts, sent, since, life>>
        /\ heard' = [heard EXCEPT ![p] = IF linkUp THEN "linked" ELSE IF @ = "no" THEN "heard" ELSE @]
        /\ acks' = [acks EXCEPT ![p] = IF acked THEN @ + 1 ELSE @]
        /\ stored' = [stored EXCEPT ![p] = IF inbox'[Key(p)] # inbox[Key(p)] THEN @ + 1 ELSE @]
    BY DEF CopyArrives, HandleText, Age, Key, envVars
  <1>2. p \in Numbered => (acked <=> linkUp /\ Hold(p) = 0)
    BY PeerKeys DEF AckGoesOut, Hold
  <1>3. p \notin Numbered => ~acked
    BY PeerKeys DEF AckGoesOut
  <1> HIDE DEF acked
  <1>4. Age(p) \in Nat /\ Window(m) \in Nat
    BY PeerFields, Windows, Timings
  <1>5. Age(p)' = (IF news THEN 0 ELSE Age(p))
    <2>1. inbox \in [InKey -> 0..Forgotten] /\ Key(p) \in InKey
      BY PeerKeys DEF TypeOK
    <2>2. Age(p)' = inbox'[Key(p)]
      BY DEF Age
    <2>3. QED
      BY <1>1, <1>4, <2>1, <2>2 DEF Age
  <1>6. p \in Numbered => Hold(p)' = (IF acked THEN AckHoldoff ELSE Hold(p))
    <2>1. Hold(p)' = holdoff'[<<p, m>>]
      BY DEF Hold
    <2>2. QED
      BY <1>1, <2>1, PeerKeys DEF TypeOK, Hold
  <1>7. /\ stored'[p] = (IF news THEN stored[p] + 1 ELSE stored[p])
        /\ acks'[p] = (IF acked THEN acks[p] + 1 ELSE acks[p])
        /\ heard'[p] = (IF linkUp THEN "linked" ELSE IF heard[p] = "no" THEN "heard" ELSE heard[p])
    <2>1. inbox'[Key(p)] # inbox[Key(p)] <=> news
      BY <1>4, <1>5, Windows, Timings DEF Age
    <2>2. QED
      BY <1>1, <2>1 DEF PeerType
  <1>8. PeerType'
    BY <1>1 DEF PeerType
  <1>9. ASSUME NEW q \in Peers, q # p PROVE PeerInv(q)'
    <2>1. heard'[q] = heard[q] /\ acks'[q] = acks[q] /\ stored'[q] = stored[q]
      BY <1>1, <1>9 DEF PeerType
    <2>2. Key(q) # Key(p) /\ <<q, NumberOf(q)>> # <<p, m>>
      BY <1>9, KeysApart
    <2>3. Age(q)' = Age(q)
      BY <1>1, <2>2, PeerKeys DEF Age, TypeOK
    <2>4. q \in Numbered => Hold(q)' = Hold(q)
      BY <1>1, <2>2, PeerKeys DEF Hold, TypeOK
    <2>5. QED
      BY <1>1, <2>1, <2>3, <2>4, PeerKept
  <1>10. PeerInv(p)'
    <2>1. /\ sent[p] \in Nat /\ since[p] \in Nat /\ life[p] \in Nat
          /\ acks[p] \in Nat /\ stored[p] \in Nat /\ restarts \in Nat /\ Age(p) <= Forgotten
          /\ p \in Numbered => Hold(p) \in Nat /\ Hold(p) <= AckHoldoff
      BY PeerFields
    <2>2. PeerInv(p) /\ sent'[p] = sent[p] /\ since'[p] = since[p] /\ life'[p] = life[p]
          /\ restarts' = restarts
      BY <1>1
    <2>3. news <=> stored[p] = 0
      <3>1. CASE p \in Numbered
        BY <1>1, <1>4, <2>1, <2>2, <3>1, Windows, Timings DEF PeerInv, StoredInv, RetryInv
      <3>2. CASE p \notin Numbered
        BY <1>1, <1>4, <2>1, <2>2, <3>2, Windows, Timings DEF PeerInv, StoredInv, RepeatInv
      <3>3. QED
        BY <3>1, <3>2
    <2>4. stored'[p] = 1
      BY <1>7, <2>1, <2>2, <2>3 DEF PeerInv, StoredInv
    <2>5. StoredInv(p)'
      BY <1>1, <1>7, <2>2, <2>4 DEF StoredInv
    <2>6. CASE p \in Numbered
      <3>1. RetryInv(p)'
        BY <1>5, <2>1, <2>2, <2>3, <2>6, Timings DEF PeerInv, StoredInv, RetryInv
      <3>2. AckInv(p)'
        BY <1>1, <1>2, <1>6, <1>7, <2>1, <2>2, <2>6, Timings DEF PeerInv, AckInv
      <3>3. QED
        BY <2>5, <2>6, <3>1, <3>2 DEF PeerInv
    <2>7. CASE p \notin Numbered
      <3>1. RepeatInv(p)'
        BY <1>1, <1>3, <1>5, <1>7, <2>1, <2>2, <2>3, <2>7, Timings
           DEF PeerInv, StoredInv, RepeatInv
      <3>2. QED
        BY <2>5, <2>7, <3>1 DEF PeerInv
    <2>8. QED
      BY <2>6, <2>7
  <1>11. QED
    BY <1>8, <1>9, <1>10

\* Ages and clocks grow together.
LEMMA TimePassesInv ==
  ASSUME TypeOK, XInv, TimePasses
  PROVE  XInv'
  <1> USE DEF XInv
  <1>1. /\ holdoff' = [k \in DOMAIN holdoff |-> Less(holdoff[k])]
        /\ inbox' = [k \in InKey |-> IF inbox[k] < Forgotten THEN inbox[k] + 1 ELSE Forgotten]
        /\ since' = [p \in Peers |-> Later(since[p], LongestGap)]
        /\ life' = [p \in Peers |-> Later(life[p], PeerLife + 1)]
        /\ UNCHANGED <<restarts, sent, heard, acks, stored>>
    BY DEF TimePasses, Advance, envVars
  <1>2. PeerType'
    BY <1>1, Timings DEF PeerType, Later
  <1>3. ASSUME NEW p \in Peers PROVE PeerInv(p)'
    <2>1. /\ sent[p] \in Nat /\ since[p] \in Nat /\ life[p] \in Nat
          /\ acks[p] \in Nat /\ stored[p] \in Nat /\ restarts \in Nat
          /\ Age(p) \in Nat /\ Age(p) <= Forgotten
          /\ p \in Numbered => Hold(p) \in Nat /\ Hold(p) <= AckHoldoff
      BY PeerFields
    <2>2. /\ since'[p] = (IF since[p] < LongestGap THEN since[p] + 1 ELSE since[p])
          /\ life'[p] = (IF life[p] < PeerLife + 1 THEN life[p] + 1 ELSE life[p])
          /\ UNCHANGED <<restarts, sent[p], heard[p], acks[p], stored[p]>>
      BY <1>1 DEF Later
    <2>3. Age(p)' = (IF Age(p) < Forgotten THEN Age(p) + 1 ELSE Forgotten)
      BY <1>1, PeerKeys DEF Age
    <2>4. p \in Numbered => Hold(p)' = (IF Hold(p) > 0 THEN Hold(p) - 1 ELSE 0)
      BY <1>1, PeerKeys DEF Hold, Less, TypeOK
    <2>5. PeerInv(p)
      OBVIOUS
    <2>6. StoredInv(p)'
      BY <2>1, <2>2, <2>3, <2>5, Timings, Windows DEF PeerInv, StoredInv
    <2>7. CASE p \in Numbered
      <3>1. AckInv(p)'
        BY <2>1, <2>2, <2>4, <2>5, <2>7, Timings DEF PeerInv, AckInv
      <3>2. RetryInv(p)'
        BY <2>1, <2>2, <2>3, <2>5, <2>7, Timings DEF PeerInv, RetryInv
      <3>3. QED
        BY <2>6, <2>7, <3>1, <3>2 DEF PeerInv
    <2>8. CASE p \notin Numbered
      <3>1. RepeatInv(p)'
        BY <2>1, <2>2, <2>3, <2>5, <2>8, Timings DEF PeerInv, RepeatInv
      <3>2. QED
        BY <2>6, <2>8, <3>1 DEF PeerInv
    <2>9. QED
      BY <2>7, <2>8
  <1>4. QED
    BY <1>2, <1>3

\* A restart forgets the holdoffs, so each is worth one more ack; the table stays.
LEMMA OwnInv ==
  ASSUME TypeOK, XInv, Own \/ \E p \in Peers: DiesHandling(p)
  PROVE  XInv'
  <1> USE DEF XInv
  <1>1. /\ UNCHANGED <<inbox, sent, since, life, heard, stored>>
        /\ \/ UNCHANGED <<holdoff, restarts, acks>>
           \/ /\ restarts' = restarts + 1 /\ holdoff' = [k \in DOMAIN holdoff |-> 0]
              /\ \/ acks' = acks
                 \/ \E p \in Peers: /\ AckGoesOut(p, NumberOf(p)) /\ sent[p] > 0
                                     /\ since[p] <= CopySpread
                                     /\ acks' = [acks EXCEPT ![p] = @ + 1]
    BY DEF Own, DiesHandling, LinkChange, Restarts, Restart, peerVars, inVars
  <1>2. PeerType'
    BY <1>1 DEF PeerType
  <1>3. ASSUME NEW p \in Peers PROVE PeerInv(p)'
    <2>1. Age(p)' = Age(p)
      BY <1>1 DEF Age
    <2>2. CASE UNCHANGED <<holdoff, restarts, acks>>
      BY <1>1, <2>1, <2>2, PeerKept DEF Hold
    <2>3. CASE restarts' = restarts + 1 /\ holdoff' = [k \in DOMAIN holdoff |-> 0]
      <3>1. p \in Numbered => Hold(p)' = 0
        BY <2>3, PeerKeys DEF Hold, TypeOK
      <3>2. \/ acks'[p] = acks[p]
            \/ /\ AckGoesOut(p, NumberOf(p)) /\ sent[p] > 0 /\ since[p] <= CopySpread
               /\ acks'[p] = acks[p] + 1
        BY <1>1, <2>3 DEF PeerType
      <3>3. AckGoesOut(p, NumberOf(p)) => p \in Numbered /\ Hold(p) = 0
        BY PeerKeys DEF AckGoesOut, Hold
      <3>4. p \in Numbered => AckInv(p)'
        BY <1>1, <2>3, <3>1, <3>2, <3>3, PeerFields DEF PeerInv, AckInv
      <3>5. StoredInv(p)' /\ (p \in Numbered => RetryInv(p)') /\ (p \notin Numbered => RepeatInv(p)')
        BY <1>1, <2>1, <3>2, <3>3, PeerFields DEF PeerInv, StoredInv, RetryInv, RepeatInv
      <3>6. QED
        BY <3>4, <3>5 DEF PeerInv
    <2>4. QED
      BY <1>1, <2>2, <2>3
  <1>4. QED
    BY <1>2, <1>3

LEMMA XInductive == TypeOK /\ XInv /\ [XNext]_allVars => XInv'
  <1> SUFFICES ASSUME TypeOK, XInv, [XNext]_allVars PROVE XInv'
    OBVIOUS
  <1>1. CASE UNCHANGED allVars
    BY <1>1 DEF allVars, vars, peerVars, XInv, PeerType, PeerInv, StoredInv, AckInv, RetryInv,
                RepeatInv, Age, Hold
  <1>2. CASE XNext
    BY <1>2, TransmitsInv, ArrivesInv, TimePassesInv, OwnInv DEF XNext
  <1>3. QED
    BY <1>1, <1>2

LEMMA XInvariance == XSpec => [](TypeOK /\ XInv)
  <1>1. XSpec => []TypeOK
    BY ImplementsMessenger, Invariance, PTL
  <1>2. QED
    BY <1>1, XInitInv, XInductive, PTL DEF XSpec

-----------------------------------------------------------------------------
\* The theorems

\* The tables, the clocks and the counts keep their types.
THEOREM ExchangeTypes == XSpec => []XTypeOK
  <1>1. TypeOK /\ XInv => XTypeOK
    BY DEF XInv, PeerType, XTypeOK
  <1>2. QED
    BY <1>1, XInvariance, PTL

\* A message is in the table once, however its copies, retries and our restarts fall
\* (messaging.py:146-153).
THEOREM StoredOnce == XSpec => []HeardIsStoredOnce
  <1>1. XInv => HeardIsStoredOnce
    BY DEF XInv, PeerInv, StoredInv, HeardIsStoredOnce
  <1>2. QED
    BY <1>1, XInvariance, PTL

\* The copies of a transmission get one ack and one more per restart (messaging.py:156-164).
THEOREM AckedOnce == XSpec => []OneAckPerTransmission
  <1>1. ASSUME TypeOK, XInv PROVE OneAckPerTransmission
    <2> SUFFICES ASSUME NEW p \in Peers PROVE acks[p] <= 1 + restarts
      BY DEF OneAckPerTransmission
    <2>1. PeerInv(p) /\ restarts \in Nat
      BY <1>1, PeerFields DEF XInv
    <2>2. QED
      BY <2>1 DEF PeerInv, AckInv, RepeatInv
  <1>2. QED
    BY <1>1, XInvariance, PTL

\* No transmission of a numbered message that is heard while we can transmit goes unacked:
\* the holdoff of the transmission before it is over by then (messaging.py:32-34).
THEOREM RetriesAcked == XSpec => []HeardIsAcked
  <1>1. XInv => HeardIsAcked
    BY TimingAssumption DEF XInv, PeerInv, AckInv, HeardIsAcked
  <1>2. QED
    BY <1>1, XInvariance, PTL

===============================================================================

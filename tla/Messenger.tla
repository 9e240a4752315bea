------------------------------ MODULE Messenger ------------------------------
(***************************************************************************)
(* APRS messaging (aprsx/core/messaging.py) with the message table it      *)
(* keeps its state in (aprsx/core/store.py).                               *)
(*                                                                         *)
(* Two kinds of threads run it.  POST /api/messages is a plain function,   *)
(* so FastAPI calls Messenger.send on a worker thread: its database calls  *)
(* and its transmission are separate steps (Number, Add, Transmit,         *)
(* Record).  tick and handle run on the event loop with no await, so each  *)
(* is one step; they interleave with the workers' steps.  A worker can     *)
(* run between two of tick's rows as well.  That makes a difference when   *)
(* tick writes, over what a send has just recorded, what it made of the    *)
(* row as it was before: Record has the two outcomes of this.              *)
(*                                                                         *)
(* The process may die in the middle of a send, and in the middle of a     *)
(* tick: with some of the due rows served, and one of them transmitted but *)
(* not yet written.  Restart is both.                                      *)
(*                                                                         *)
(* Times are kept relative to now, so that the state is finite:            *)
(* "next_try = now + d" is a countdown set to d and "next_try <= now" is   *)
(* a countdown at 0; "ts >= now - w" is an age of at most w.               *)
(*                                                                         *)
(* A message is named by its sequence number, from which its two-character *)
(* number follows.  Row ids of the table only order the rows.              *)
(*                                                                         *)
(* Bounds: MaxSeq caps the message counter, MaxRestarts the restarts.      *)
(* A send finishes within one unit of the clock (see Advance).             *)
(***************************************************************************)
EXTENDS Naturals, Sequences

CONSTANTS
    Peers,                  \* stations we exchange messages with
    Workers,                \* threads that can be inside Messenger.send
    MaxSeq,                 \* bound: message numbers handed out
    MsgnoSpace,             \* two-character numbers: 36^2 in the code
    RetryDelays,            \* RETRY_DELAYS_S
    TxWait,                 \* TX_WAIT_S
    PeerNos,                \* numbers peers put on their messages
    Texts,                  \* texts peers send
    DupeWindow,             \* DUPE_WINDOW_S
    DupeWindowUnnumbered,   \* DUPE_WINDOW_UNNUMBERED_S
    AckHoldoff,             \* ACK_HOLDOFF_S
    MaxRestarts,            \* bound: restarts of the core
    Horizon,                \* bound: where the history variable quiet stops counting
    None                    \* Python's None

VARIABLES
    seq,        \* settings.msg_seq
    out,        \* messages with direction 'out', named by their sequence number
    inbox,      \* messages with direction 'in': age of the newest copy of each
    replyAck,   \* Messenger._reply_ack
    holdoff,    \* Messenger._acked: time left before a number is acked again
    thr,        \* what each worker thread is doing in send
    link,       \* "up" when Core.transmit would put a packet on RF or on APRS-IS
    restarts,   \* how often the core was restarted
    txs,        \* (history) transmissions of each message
    quiet       \* (history) time since a message's last transmission, those of a tick
                \* that the process died on apart, capped

vars == <<seq, out, inbox, replyAck, holdoff, thr, link, restarts, txs, quiet>>

MaxTries == Len(RetryDelays)
Id == 1..MaxSeq
Msgno == 0..(MsgnoSpace - 1)
Terminal == {"acked", "rejected", "failed"}
InKey == Peers \X (PeerNos \cup {None}) \X Texts

ASSUME DelaysAssumption ==
    /\ RetryDelays \in Seq(Nat \ {0})
    /\ Len(RetryDelays) > 0
    /\ TxWait \in Nat \ {0}
    /\ Horizon \in Nat
    /\ \A k \in 1..Len(RetryDelays): RetryDelays[k] <= Horizon

ASSUME BoundsAssumption ==
    /\ MaxSeq \in Nat
    /\ MsgnoSpace \in Nat \ {0}
    /\ MaxRestarts \in Nat
    /\ DupeWindow \in Nat /\ DupeWindowUnnumbered \in Nat
    /\ DupeWindowUnnumbered <= DupeWindow
    /\ AckHoldoff \in Nat
    /\ None \notin Nat /\ None \notin PeerNos

\* Within one run of the counter no number is used twice; it wraps after 36^2 messages.
ASSUME NoReuseAssumption == MaxSeq < MsgnoSpace

Forgotten == DupeWindow + 1     \* age at which a received copy no longer matters

Row == [state: {"absent", "pending"} \cup Terminal, peer: Peers \cup {None},
        msgno: Msgno \cup {None}, tries: 0..MaxTries, next_try: Nat \cup {None}]

NoRow == [state |-> "absent", peer |-> None, msgno |-> None, tries |-> 0, next_try |-> None]

Thread == [pc: {"idle", "numbered", "added", "sent", "refused"},
           peer: Peers \cup {None}, msgno: Msgno \cup {None}, id: Id \cup {0}]

Idle == [pc |-> "idle", peer |-> None, msgno |-> None, id |-> 0]

Init ==
    /\ seq = 0
    /\ out = [i \in Id |-> NoRow]
    /\ inbox = [k \in InKey |-> Forgotten]
    /\ replyAck = [p \in Peers |-> None]
    /\ holdoff = [k \in Peers \X PeerNos |-> 0]
    /\ thr = [w \in Workers |-> Idle]
    /\ link = "down"
    /\ restarts = 0
    /\ txs = [i \in Id |-> 0]
    /\ quiet = [i \in Id |-> 0]

inVars == <<inbox, replyAck, holdoff>>
envVars == <<link, restarts>>
history == <<txs, quiet>>
linkUp == link = "up"

-----------------------------------------------------------------------------
\* Messenger.send, on a worker thread

\* next_seq commits the new number before the text is validated ...
Number(w, p) ==
    /\ thr[w].pc = "idle"
    /\ seq < MaxSeq
    /\ seq' = seq + 1
    /\ thr' = [thr EXCEPT ![w] = [pc |-> "numbered", peer |-> p,
                                  msgno |-> (seq + 1) % MsgnoSpace, id |-> seq + 1]]
    /\ UNCHANGED <<out, inVars, envVars, history>>

\* ... so a text that does not encode uses up a number.
RejectText(w) ==
    /\ thr[w].pc = "numbered"
    /\ thr' = [thr EXCEPT ![w] = Idle]
    /\ UNCHANGED <<seq, out, inVars, envVars, history>>

\* add_message: from here on the event loop's tick sees the row, and it is due.
Add(w) ==
    /\ thr[w].pc = "numbered"
    /\ out' = [out EXCEPT ![thr[w].id] =
                  [state |-> "pending", peer |-> thr[w].peer, msgno |-> thr[w].msgno,
                   tries |-> 0, next_try |-> 0]]
    /\ thr' = [thr EXCEPT ![w].pc = "added"]
    /\ UNCHANGED <<seq, inVars, envVars, history>>

\* _try's transmission.  The row it works from still says 0 tries.
Transmit(w) ==
    /\ thr[w].pc = "added"
    /\ IF linkUp
       THEN /\ thr' = [thr EXCEPT ![w].pc = "sent"]
            /\ txs' = [txs EXCEPT ![thr[w].id] = @ + 1]
            /\ quiet' = [quiet EXCEPT ![thr[w].id] = 0]
       ELSE /\ thr' = [thr EXCEPT ![w].pc = "refused"]
            /\ UNCHANGED history
    /\ UNCHANGED <<seq, out, inVars, envVars>>

\* Mutant of Record: it writes the whole row back from the copy send started with.
RecordWholeRow(w) ==
    /\ thr[w].pc \in {"sent", "refused"}
    /\ out' = [out EXCEPT ![thr[w].id] =
                  [@ EXCEPT !.state = "pending",
                            !.tries = IF thr[w].pc = "sent" THEN 1 ELSE 0,
                            !.next_try = IF thr[w].pc = "sent" THEN RetryDelays[1] ELSE TxWait]]
    /\ thr' = [thr EXCEPT ![w] = Idle]
    /\ UNCHANGED <<seq, inVars, envVars, history>>

\* _try's update_message: it names the columns it writes, so the state is left alone.
\* A tick that read the row before this write may write it after: what it writes is its
\* own refusal over the countdown of a first try, or its own try over a refusal.
Record(w) ==
    /\ thr[w].pc \in {"sent", "refused"}
    /\ \/ /\ thr[w].pc = "sent"
          /\ out' = [out EXCEPT ![thr[w].id] =
                        [@ EXCEPT !.tries = 1, !.next_try = RetryDelays[1]]]
       \/ /\ thr[w].pc = "sent"
          /\ out[thr[w].id].tries = 0 /\ out[thr[w].id].next_try = TxWait
          /\ out' = [out EXCEPT ![thr[w].id].tries = 1]
       \/ /\ thr[w].pc = "refused"
          /\ out' = [out EXCEPT ![thr[w].id].next_try = TxWait]
       \/ /\ thr[w].pc = "refused" /\ out[thr[w].id].tries > 0
          /\ UNCHANGED out
    /\ thr' = [thr EXCEPT ![w] = Idle]
    /\ UNCHANGED <<seq, inVars, envVars, history>>

-----------------------------------------------------------------------------
\* Messenger.tick, on the event loop, once a second

\* Mutants of Due: next_try is not looked at; rows out of tries are not selected.
DueAnyTime == {i \in Id: out[i].state = "pending"}
DueUnderLimit == {i \in Id: out[i].state = "pending" /\ out[i].next_try = 0
                                                   /\ out[i].tries < MaxTries}

Due == {i \in Id: out[i].state = "pending" /\ out[i].next_try = 0}
Exhausted == {i \in Due: out[i].tries >= MaxTries}
Retried == Due \ Exhausted

\* Mutant of TryRow: a refused transmission uses up a try.
TryRowCountsRefusals(r) ==
    IF r.tries >= MaxTries THEN [r EXCEPT !.state = "failed", !.next_try = None]
    ELSE [r EXCEPT !.tries = @ + 1, !.next_try = RetryDelays[r.tries + 1]]

TryRow(r) ==
    IF r.tries >= MaxTries THEN [r EXCEPT !.state = "failed", !.next_try = None]
    ELSE IF linkUp
         THEN [r EXCEPT !.tries = @ + 1, !.next_try = RetryDelays[r.tries + 1]]
         ELSE [r EXCEPT !.next_try = TxWait]

Tick ==
    /\ Due # {}
    /\ out' = [i \in Id |-> IF i \in Due THEN TryRow(out[i]) ELSE out[i]]
    /\ IF linkUp
       THEN /\ txs' = [i \in Id |-> IF i \in Retried THEN txs[i] + 1 ELSE txs[i]]
            /\ quiet' = [i \in Id |-> IF i \in Retried THEN 0 ELSE quiet[i]]
       ELSE UNCHANGED history
    /\ UNCHANGED <<seq, inVars, thr, envVars>>

-----------------------------------------------------------------------------
\* Messenger.handle, on the event loop

PendingFor(o, p, m) == {i \in Id: o[i].state = "pending" /\ o[i].peer = p /\ o[i].msgno = m}
Latest(S) == {i \in S: \A j \in S: j <= i}

\* _acknowledge: the newest pending message to p numbered m, if there is one.
Acknowledge(o, p, m, state) ==
    LET hit == Latest(PendingFor(o, p, m)) IN
    [i \in Id |-> IF i \in hit THEN [o[i] EXCEPT !.state = state, !.next_try = None]
                               ELSE o[i]]

\* Peers answer what they heard: the numbers we transmitted to p.
Heard(p) == {out[i].msgno: i \in {j \in Id: out[j].peer = p /\ txs[j] > 0}}

\* Mutant of HandleResponse: the word of the packet is stored as the state.
HandleResponseRaw(p, m, ra, state) ==
    /\ m \in Heard(p)
    /\ ra \in Heard(p) \cup {None}
    /\ out' = Acknowledge(Acknowledge(out, p, ra, "acked"), p, m,
                          IF state = "acked" THEN "ack" ELSE "rej")
    /\ UNCHANGED <<seq, inVars, thr, envVars, history>>

\* An ack or a rej.  Its number may be followed by a reply-ack, taken first.
HandleResponse(p, m, ra, state) ==
    /\ m \in Heard(p)
    /\ ra \in Heard(p) \cup {None}
    /\ state \in {"acked", "rejected"}
    /\ out' = Acknowledge(Acknowledge(out, p, ra, "acked"), p, m, state)
    /\ UNCHANGED <<seq, inVars, thr, envVars, history>>

\* Mutant of Window: one window for all messages, the short one.
WindowShort(m) == DupeWindowUnnumbered

Window(m) == IF m = None THEN DupeWindowUnnumbered ELSE DupeWindow

\* Mutant of AckGoesOut: no holdoff, every copy is acked.
AckEveryCopy(p, m) == m # None /\ linkUp

\* _send_ack sends: the number was not acked just now, and the packet goes out.
AckGoesOut(p, m) == m # None /\ linkUp /\ holdoff[<<p, m>>] = 0

\* Mutants of HandleText: an ack the link refused is remembered as sent; the holdoff
\* is as long as the duplicate window.
HandleTextMarksUnsent(p, m, x, replyForm, ra) ==
    /\ (replyForm \/ ra # None) => m # None
    /\ holdoff' = IF m = None \/ holdoff[<<p, m>>] > 0 THEN holdoff
                  ELSE [holdoff EXCEPT ![<<p, m>>] = AckHoldoff]
    /\ inbox' = IF inbox[<<p, m, x>>] <= Window(m) THEN inbox
                ELSE [inbox EXCEPT ![<<p, m, x>>] = 0]
    /\ UNCHANGED <<seq, out, replyAck, thr, envVars, history>>

HandleTextLongHoldoff(p, m, x, replyForm, ra) ==
    /\ (replyForm \/ ra # None) => m # None
    /\ holdoff' = IF AckGoesOut(p, m) THEN [holdoff EXCEPT ![<<p, m>>] = DupeWindow]
                                      ELSE holdoff
    /\ inbox' = IF inbox[<<p, m, x>>] <= Window(m) THEN inbox
                ELSE [inbox EXCEPT ![<<p, m, x>>] = 0]
    /\ UNCHANGED <<seq, out, replyAck, thr, envVars, history>>

\* A text message, in the reply-ack form or not, perhaps with a reply-ack for us.
HandleText(p, m, x, replyForm, ra) ==
    /\ ra \in Heard(p) \cup {None}
    /\ (replyForm \/ ra # None) => m # None
    /\ out' = Acknowledge(out, p, ra, "acked")
    /\ replyAck' = IF replyForm THEN [replyAck EXCEPT ![p] = m] ELSE replyAck
    /\ holdoff' = IF AckGoesOut(p, m) THEN [holdoff EXCEPT ![<<p, m>>] = AckHoldoff]
                                      ELSE holdoff
    /\ inbox' = IF inbox[<<p, m, x>>] <= Window(m) THEN inbox
                ELSE [inbox EXCEPT ![<<p, m, x>>] = 0]
    /\ UNCHANGED <<seq, thr, envVars, history>>

-----------------------------------------------------------------------------
\* The environment

LinkChange ==
    /\ link' = IF linkUp THEN "down" ELSE "up"
    /\ UNCHANGED <<seq, out, inVars, thr, restarts, history>>

Less(t) == IF t > 0 THEN t - 1 ELSE 0

\* One unit of time.  A send is a few milliseconds long: it does not span a unit.
Advance ==
    /\ \A w \in Workers: thr[w].pc = "idle"
    /\ out' = [i \in Id |-> IF out[i].state = "pending"
                            THEN [out[i] EXCEPT !.next_try = Less(@)] ELSE out[i]]
    /\ quiet' = [i \in Id |-> IF quiet[i] < Horizon THEN quiet[i] + 1 ELSE quiet[i]]
    /\ holdoff' = [k \in DOMAIN holdoff |-> Less(holdoff[k])]
    /\ inbox' = [k \in InKey |-> IF inbox[k] < Forgotten THEN inbox[k] + 1 ELSE Forgotten]
    /\ UNCHANGED <<seq, replyAck, thr, envVars, txs>>

\* How far a tick came before the process died: it served some of the due rows, and may
\* have transmitted one more that it had no time to write.
Cut(served, cut) ==
    /\ out' = [i \in Id |-> IF i \in served THEN TryRow(out[i]) ELSE out[i]]
    /\ txs' = [i \in Id |-> IF linkUp /\ i \in Retried \cap (served \cup cut)
                            THEN txs[i] + 1 ELSE txs[i]]
    /\ quiet' = [i \in Id |-> IF linkUp /\ i \in Retried \cap served THEN 0 ELSE quiet[i]]

\* Mutant of Restart: the message counter lives in memory.
RestartForgetsSeq(served, cut) ==
    /\ restarts < MaxRestarts
    /\ restarts' = restarts + 1
    /\ seq' = 0
    /\ Cut(served, cut)
    /\ thr' = [w \in Workers |-> Idle]
    /\ replyAck' = [p \in Peers |-> None]
    /\ holdoff' = [k \in DOMAIN holdoff |-> 0]
    /\ link' = "down"
    /\ UNCHANGED inbox

\* The process dies, in the middle of a send or of a tick perhaps, and starts again from
\* the database.
Restart(served, cut) ==
    /\ restarts < MaxRestarts
    /\ restarts' = restarts + 1
    /\ Cut(served, cut)
    /\ thr' = [w \in Workers |-> Idle]
    /\ replyAck' = [p \in Peers |-> None]
    /\ holdoff' = [k \in DOMAIN holdoff |-> 0]
    /\ link' = "down"
    /\ UNCHANGED <<seq, inbox>>

-----------------------------------------------------------------------------
Send(w) == (\E p \in Peers: Number(w, p)) \/ RejectText(w) \/ Add(w) \/ Transmit(w) \/ Record(w)

Responses ==
    \E p \in Peers, m \in Msgno, ra \in Msgno \cup {None}, s \in {"acked", "rejected"}:
        HandleResponse(p, m, ra, s)

Incoming ==
    \E p \in Peers, m \in PeerNos \cup {None}, x \in Texts, f \in BOOLEAN,
       ra \in Msgno \cup {None}: HandleText(p, m, x, f, ra)

\* One row is cut off at most, and none if the tick served that one too.
Cuts == {{}} \cup {{i}: i \in Due}
Restarts == \E served \in SUBSET Due, cut \in Cuts: Restart(served, cut)

Next ==
    \/ \E w \in Workers: Send(w)
    \/ Tick
    \/ Responses
    \/ Incoming
    \/ LinkChange
    \/ Advance
    \/ Restarts

Spec == Init /\ [][Next]_vars

\* A worker inside send finishes it, the event loop keeps ticking and time passes.
Finish(w) == RejectText(w) \/ Add(w) \/ Transmit(w) \/ Record(w)
FairSpec == /\ Spec
            /\ WF_vars(Tick) /\ WF_vars(Advance)
            /\ \A w \in Workers: WF_vars(Finish(w))

-----------------------------------------------------------------------------
\* Properties

TypeOK ==
    /\ seq \in 0..MaxSeq
    /\ out \in [Id -> Row]
    /\ inbox \in [InKey -> 0..Forgotten]
    /\ replyAck \in [Peers -> PeerNos \cup {None}]
    /\ holdoff \in [Peers \X PeerNos -> 0..AckHoldoff]
    /\ thr \in [Workers -> Thread]
    /\ link \in {"up", "down"}
    /\ restarts \in 0..MaxRestarts
    /\ txs \in [Id -> Nat]
    /\ quiet \in [Id -> Nat]

\* Workers past Add hold a row that exists, no two the same, and find it at its
\* first try: this is what their late writes rest on.
Sending(w) == thr[w].pc \in {"added", "sent", "refused"}

Ownership ==
    \A w \in Workers: thr[w].pc # "idle" =>
        /\ thr[w].id \in 1..seq
        /\ thr[w].peer \in Peers /\ thr[w].msgno = thr[w].id % MsgnoSpace
        /\ thr[w].pc = "numbered" => out[thr[w].id].state = "absent"
        /\ Sending(w) => out[thr[w].id].state # "absent"
        /\ \A v \in Workers \ {w}: thr[v].pc # "idle" => thr[v].id # thr[w].id

\* Shortest time the tick lets pass between the k-th counted try and what follows it.
\* A send the link refused can write TX_WAIT_S over the delay of a tick that got
\* through just after it, so the first gap may be that short.
Gap(k) == IF k = 1 /\ TxWait < RetryDelays[1] THEN TxWait ELSE RetryDelays[k]

FirstTry ==
    \A w \in Workers: Sending(w) =>
        LET i == thr[w].id IN
        /\ out[i].tries <= 1
        /\ (out[i].tries = 1 /\ out[i].state = "pending") => out[i].next_try >= Gap(1)
        /\ thr[w].pc \in {"added", "refused"} => txs[i] = out[i].tries
        /\ thr[w].pc = "sent" => txs[i] > 0

RowsMatch ==
    \A i \in Id:
        /\ i > seq => out[i].state = "absent"
        /\ out[i].state = "absent" => txs[i] = 0 /\ out[i].tries = 0 /\ out[i].msgno = None
        /\ out[i].state # "absent" => out[i].msgno = i % MsgnoSpace
        /\ out[i].state = "pending" => out[i].next_try \in Nat

\* The message life cycle as its users see it: see MessageLifecycle.
Life == INSTANCE MessageLifecycle
            WITH Budget <- MaxTries, phase <- [i \in Id |-> out[i].state], onAir <- txs

\* Messages are created pending and end acked, rejected or failed for good; an
\* answer follows a transmission, giving up follows all the tries
\* (messaging.py _try, _acknowledge; docs/PROGRESS.md:259).
Lifecycle == Life!Spec

\* The tick never repeats a message, and never gives one up, before the delay that
\* follows its last counted try has passed, measured from the last time anybody
\* transmitted it.  A transmission that the process died on in a tick, before it was
\* written, is not measured from: the tick after the restart repeats it at once
\* (RETRY_DELAYS_S, messaging.py:26, 89-105).
TickSpaced ==
    [][\A i \in Id: LET before == out[i].tries IN
        /\ (txs'[i] > txs[i] /\ thr' = thr /\ before > 0) => quiet[i] >= Gap(before)
        /\ (out'[i].state = "failed" /\ out[i].state # "failed")
               => quiet[i] >= Gap(MaxTries)]_vars

\* The counter in the table never runs ahead of the transmissions.  It lags them by one
\* for a message's first try, which a send and the tick may both make, and by one more
\* for each time the process died between a transmission and the write that counts it
\* (messaging.py:91-105).
TriesCounted ==
    \A i \in Id: /\ out[i].tries <= txs[i]
                 /\ txs[i] <= out[i].tries + 1 + restarts

\* What is left of a pending message's countdown and the time since its last
\* transmission (as quiet counts it) make up the delay its last counted try asks for.
Spaced ==
    \A i \in Id: (out[i].state = "pending" /\ out[i].tries > 0)
                    => quiet[i] + out[i].next_try >= Gap(out[i].tries)

\* The inductive invariant behind TriesCounted, TickSpaced and Lifecycle: who holds
\* which row, what a late write of a worker can still find there, and the countdowns
\* (messaging.py:63-119).
IInv == Ownership /\ FirstTry /\ RowsMatch /\ TriesCounted /\ Spaced

\* Once the link stays up every pending message is acked, rejected or given up
\* (docs/PROGRESS.md:259: with no ack the message is marked failed).
EventuallyResolved ==
    <>[]linkUp => \A i \in Id: out[i].state = "pending" ~> out[i].state \in Terminal

\* What docs/PROGRESS.md:259 says: a message is sent once per try, the first time at
\* once, then after each of the delays in turn.  A send and a tick that serve the same
\* new row transmit it twice in one moment; and a refused send that records its refusal
\* after a tick has transmitted the row has it sent again after TX_WAIT_S.
ScheduleKept ==
    [][\A i \in Id: (txs'[i] > txs[i] /\ txs[i] > 0)
                        => txs[i] < MaxTries /\ quiet[i] >= RetryDelays[txs[i]]]_vars

=============================================================================

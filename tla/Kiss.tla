---------------------------------- MODULE Kiss ----------------------------------
(***************************************************************************)
(* KISS framing (aprsx/core/kiss.py): encode_frame, and KissDecoder as the *)
(* client's _read_loop feeds it, in whatever chunks the bytes arrive.      *)
(*                                                                         *)
(* Bytes are numbers.  Which ones occur is a parameter: besides the four   *)
(* special ones a command for data and one for something else.             *)
(*                                                                         *)
(* Bound: MaxWire bytes since the connection was made.                     *)
(***************************************************************************)
EXTENDS Integers, Sequences, SequencesExt

CONSTANTS
    Bytes,      \* the bytes that occur
    MaxChunk,   \* the longest chunk
    Payloads,   \* what is sent
    MaxWire

FEND == 192
FESC == 219
TFEND == 220
TFESC == 221

KissConstants ==
    /\ {FEND, FESC, TFEND, TFESC} \subseteq Bytes /\ Bytes \subseteq 0..255
    /\ {MaxChunk, MaxWire} \subseteq Nat \ {0}
    /\ Payloads \subseteq Seq(Bytes)

VARIABLES
    wire,       \* history: the bytes since the connection was made
    decoder,    \* _buf, _in_frame, _escape
    frames      \* history: what feed returned since then

kissVars == <<wire, decoder, frames>>

NewDecoder == [buf |-> <<>>, inFrame |-> FALSE, escape |-> FALSE]

KissInit == wire = <<>> /\ decoder = NewDecoder /\ frames = <<>>

-----------------------------------------------------------------------------
\* encode_frame, for TNC port 0

Escape(b) ==
    CASE b = FEND -> <<FESC, TFEND>>
      [] b = FESC -> <<FESC, TFESC>>
      [] OTHER -> <<b>>

Put(sofar, b) == sofar \o Escape(b)

EncodeFrame(data) == Append(FoldLeft(Put, <<FEND, 0>>, data), FEND)

-----------------------------------------------------------------------------
\* KissDecoder.  A step takes the decoder and the frames so far, and one byte.

\* _finish: the frame, if the command is data.
Finish(buf) ==
    IF buf # <<>> /\ buf[1] % 16 = 0 THEN <<[port |-> buf[1] \div 16, data |-> Tail(buf)]>> ELSE <<>>

\* What follows an escape; anything else is dropped.
Unescape(b) == CASE b = TFEND -> <<FEND>> [] b = TFESC -> <<FESC>> [] OTHER -> <<>>

\* Mutant of AtFend: an escape that was cut off goes on in the next frame.
AtFendEscaped(d) == [d EXCEPT !.buf = <<>>, !.inFrame = TRUE]

\* A frame ends and the next one begins.
AtFend(d) == [NewDecoder EXCEPT !.inFrame = TRUE]

Byte(acc, b) ==
    LET d == acc.decoder
        Goes(next) == [acc EXCEPT !.decoder = next]
    IN  CASE b = FEND -> [decoder |-> AtFend(d),
                          frames |-> acc.frames \o (IF d.inFrame THEN Finish(d.buf) ELSE <<>>)]
          [] b # FEND /\ ~d.inFrame -> acc
          [] b # FEND /\ d.inFrame /\ d.escape ->
                Goes([buf |-> d.buf \o Unescape(b), inFrame |-> TRUE, escape |-> FALSE])
          [] b = FESC /\ d.inFrame /\ ~d.escape -> Goes([d EXCEPT !.escape = TRUE])
          [] OTHER -> Goes([d EXCEPT !.buf = Append(@, b)])

Feed(d, chunk) == FoldLeft(Byte, [decoder |-> d, frames |-> <<>>], chunk)

-----------------------------------------------------------------------------
\* _read_loop

Receive(chunk) ==
    LET fed == Feed(decoder, chunk)
    IN
    /\ Len(wire) + Len(chunk) <= MaxWire
    /\ wire' = wire \o chunk
    /\ decoder' = fed.decoder
    /\ frames' = frames \o fed.frames

\* Every connection has a decoder of its own.
Reconnect == wire' = <<>> /\ decoder' = NewDecoder /\ frames' = <<>>

-----------------------------------------------------------------------------
Chunk == UNION {[1..n -> Bytes]: n \in 1..MaxChunk}

KissNext ==
    \/ \E chunk \in Chunk: Receive(chunk)
    \/ Reconnect

KissSpec == KissInit /\ [][KissNext]_kissVars

-----------------------------------------------------------------------------
\* Properties

Indices(s) == [i \in 1..Len(s) |-> i]

\* A byte is escaped when the FESCs right before it are odd in number.
Escaped(s, i) ==
    \E n \in 1..(i - 1):
        /\ n % 2 = 1 /\ \A k \in (i - n)..(i - 1): s[k] = FESC
        /\ i - n = 1 \/ s[i - n - 1] # FESC

\* What a byte of a frame stands for: an escaped one for one byte or none, a FESC that is not
\* escaped for none, every other one for itself.
StandsFor(s, i) ==
    IF Escaped(s, i) THEN Unescape(s[i]) ELSE IF s[i] = FESC THEN <<>> ELSE <<s[i]>>

Plain(s) == FoldLeft(LAMBDA sofar, i: sofar \o StandsFor(s, i), <<>>, Indices(s))

\* What is read at the i-th byte of w: at a FEND the frame that began at the FEND before.
FendsBefore(w, i) == {j \in 1..(i - 1): w[j] = FEND}

FrameAt(w, i) ==
    IF w[i] = FEND /\ FendsBefore(w, i) # {}
    THEN Finish(Plain(SubSeq(w, Max(FendsBefore(w, i)) + 1, i - 1)))
    ELSE <<>>

Framed(w) == FoldLeft(LAMBDA sofar, i: sofar \o FrameAt(w, i), <<>>, Indices(w))

\* Whatever bytes come, in whatever chunks, cut off or in the middle of a frame at first: what
\* was handed on is what stands between the FENDs; and a frame that encode_frame wrote
\* comes out whole next, whatever came before it (kiss.py:23-78).
FramesAsWritten ==
    /\ frames = Framed(wire)
    /\ \A p \in Payloads:
          LET got == Feed(decoder, EncodeFrame(p)).frames
          IN  Len(got) \in 1..2 /\ Last(got) = [port |-> 0, data |-> p]
===============================================================================

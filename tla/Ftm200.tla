--------------------------------- MODULE Ftm200 ---------------------------------
(***************************************************************************)
(* The FTM-200's data port: the radio writes a header line and an info     *)
(* line for each packet, LineParser (aprsx/core/ftm200.py) puts them       *)
(* together, and _read drops a line that was not finished in IDLE_FLUSH_S. *)
(*                                                                         *)
(* A line is written in two halves, so that it can be read, cut off and    *)
(* joined late in its middle.  A header's second half is what HEADER_RE    *)
(* needs at the end of a line: with any text before it the line matches.   *)
(*                                                                         *)
(* The radio writes a line at once, or stops in it: then for IDLE_FLUSH_S  *)
(* and more.  Assumed: what it wrote is read before it goes on.            *)
(* Bound: MaxUnread halves are not read yet.                               *)
(***************************************************************************)
EXTENDS Integers, Sequences, SequencesExt

CONSTANTS RadioPackets, MaxUnread

FtmConstants == MaxUnread \in Nat \ {0} /\ RadioPackets # {}

VARIABLES
    writing,    \* the packet the radio writes, and what is left of it
    tty,        \* written and not read
    parser,     \* _buf and _header
    cutOff,     \* history: something of the packet being written is lost
    due,        \* history: packets written whole and not read to the end
    out,        \* history: what the last feed returned ...
    expected    \* ... and the packets it was to return

ftmVars == <<writing, tty, parser, cutOff, due, out, expected>>

Newline == <<"newline", "", 0>>
Line(p, kind) == <<<<p, kind, 1>>, <<p, kind, 2>>>>
Written(p) == Line(p, "header") \o <<Newline>> \o Line(p, "info") \o <<Newline>>

NoHeader == <<>>
NewParser == [buf |-> <<>>, header |-> NoHeader]

FtmInit ==
    /\ writing = [of |-> CHOOSE p \in RadioPackets: TRUE, rest |-> <<>>]
    /\ tty = <<>> /\ parser = NewParser
    /\ cutOff = FALSE /\ due = <<>> /\ out = <<>> /\ expected = <<>>

-----------------------------------------------------------------------------
\* The radio

Starts(p) ==
    /\ writing.rest = <<>>
    /\ writing' = [of |-> p, rest |-> Written(p)]
    /\ cutOff' = FALSE
    /\ UNCHANGED <<tty, parser, due, out, expected>>

Writes ==
    /\ writing.rest # <<>> /\ Len(tty) < MaxUnread
    /\ tty' = Append(tty, Head(writing.rest))
    /\ writing' = [writing EXCEPT !.rest = Tail(@)]
    /\ due' = IF Len(writing.rest) = 1 /\ ~cutOff THEN Append(due, writing.of) ELSE due
    /\ UNCHANGED <<parser, cutOff, out, expected>>

\* Blank lines follow packets whose info ended in CR.
Blank ==
    /\ writing.rest = <<>> /\ Len(tty) < MaxUnread
    /\ tty' = Append(tty, Newline)
    /\ UNCHANGED <<writing, parser, cutOff, due, out, expected>>

-----------------------------------------------------------------------------
\* LineParser

IsHeader(line) == line # <<>> /\ Last(line)[2] = "header" /\ Last(line)[3] = 2

\* _line, for the line in the buffer.
TakeLine(acc) ==
    LET line == acc.buf
    IN  IF IsHeader(line) THEN [acc EXCEPT !.buf = <<>>, !.header = line]
        ELSE IF line = <<>> \/ acc.header = NoHeader THEN [acc EXCEPT !.buf = <<>>]
        ELSE [buf |-> <<>>, header |-> NoHeader,
              out |-> Append(acc.out, [header |-> acc.header, info |-> line])]

\* feed
Add(acc, x) == IF x = Newline THEN TakeLine(acc) ELSE [acc EXCEPT !.buf = Append(@, x)]
FeedParser(data) == FoldLeft(Add, [buf |-> parser.buf, header |-> parser.header, out |-> <<>>], data)

Pending == parser.buf # <<>>

\* Mutant of Flushed: the unfinished line is dropped, the header of its packet is not.
FlushedLine == [parser EXCEPT !.buf = <<>>]

\* flush
Flushed == NewParser

-----------------------------------------------------------------------------
\* _read

Read ==
    LET fed == FeedParser(tty)
    IN
    /\ tty # <<>>
    /\ tty' = <<>>
    /\ parser' = [buf |-> fed.buf, header |-> fed.header]
    /\ out' = fed.out
    /\ expected' = due /\ due' = <<>>
    /\ UNCHANGED <<writing, cutOff>>

\* Nothing comes for IDLE_FLUSH_S.  The radio goes on then, or leaves the packet.
Silence ==
    /\ tty = <<>>
    /\ parser' = IF Pending THEN Flushed ELSE parser
    /\ cutOff' = (cutOff \/ Pending)
    /\ writing' \in {writing, [writing EXCEPT !.rest = <<>>]}
    /\ UNCHANGED <<tty, due, out, expected>>

\* The port is opened again, with a parser of its own; open_port drops what was not read.
Opens ==
    /\ parser' = NewParser /\ tty' = <<>>
    /\ cutOff' = (writing.rest \notin {<<>>, Written(writing.of)})
    /\ due' = <<>> /\ out' = <<>> /\ expected' = <<>>
    /\ UNCHANGED writing

-----------------------------------------------------------------------------
FtmNext ==
    \/ \E p \in RadioPackets: Starts(p)
    \/ Writes \/ Blank \/ Read \/ Silence \/ Opens

FtmSpec == FtmInit /\ [][FtmNext]_ftmVars

-----------------------------------------------------------------------------
\* Properties

WholeHeader(packet) == \E p \in RadioPackets: packet.header = Line(p, "header")

\* Those of the packets that have one.
KeepWhole(kept, packet) == IF WholeHeader(packet) THEN Append(kept, packet) ELSE kept
Whole(packets) == FoldLeft(KeepWhole, <<>>, packets)

\* Wherever lines are cut off, resumed, read in pieces or joined late: each packet that was
\* written whole is handed on once and in order, and whatever else is handed on has a whole
\* info line under the header of its own packet.  Such a header can lack its beginning, cut
\* off by a pause or before the port was opened: HEADER_RE takes any call sign
\* (ftm200.py:46-84, 146-181).
PacketsWhole ==
    /\ Whole(out) = [i \in DOMAIN expected |-> [header |-> Line(expected[i], "header"),
                                                info |-> Line(expected[i], "info")]]
    /\ \A i \in DOMAIN out: \E p \in RadioPackets:
          /\ out[i].info = Line(p, "info")
          /\ out[i].header \in {Line(p, "header"), Tail(Line(p, "header"))}
=================================================================================

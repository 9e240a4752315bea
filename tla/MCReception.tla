------------------------------ MODULE MCReception ------------------------------
(***************************************************************************)
(* Small instances of IGate, Kiss, Ftm200, HeadMirror and Cards for TLC:   *)
(* how what is heard comes in, and what becomes of it on APRS-IS, on RF    *)
(* and on the head unit.                                                   *)
(*                                                                         *)
(* The five share no variables.  In a behaviour one of them moves, the     *)
(* part it is about; the others stay in an initial state.  Cards has two   *)
(* parts: APRS messages that are grouped, and APRS beside MeshCore         *)
(* messages.                                                               *)
(***************************************************************************)
EXTENDS IGate, Kiss, Ftm200, HeadMirror, Cards

VARIABLE part

\* Two stations here, one on the internet.
Packet(from, to, text) == [from |-> from, to |-> to, text |-> text]
MCOnAir == {Packet("a", "b", 1), Packet("b", "nobody", 0)}
MCPackets == MCOnAir \cup {Packet("x", "b", 1)}
MCLimits == {[window |-> 1, most |-> 1], [window |-> 3, most |-> 2]}

-----------------------------------------------------------------------------
\* What is sent: nothing, a byte, and every way two bytes are escaped.
MCPayloads == {<<>>, <<0>>, <<192>>, <<219, 220>>, <<221, 192>>}

\* The second part of Cards; the constants of the first are in the configuration.
D == INSTANCE Cards WITH
        Peers <- {"p"}, MaxId <- 1, Contacts <- {"dm"}, Channels <- {"ch"}, MaxMeshId <- 2,
        Times <- {1, 2}, WindowS <- 0

ASSUME IGateConstants
ASSUME KissConstants
ASSUME FtmConstants
ASSUME HeadConstants
ASSUME CardsConstants /\ D!CardsConstants

-----------------------------------------------------------------------------
\* Bounds of the head unit's part: its own message is under way while there is one row; a try is
\* published, or answered, while no reload waits to be applied.
HeadBound ==
    /\ posted # NoPost \/ (worker.head /\ worker.next # "read") => Len(table) = 1
    /\ worker.next \in {"ack", "answer"} => \A g \in DOMAIN gets: gets[g].at # "answered"

allVars == <<part, vars, kissVars, ftmVars, headVars, cardVars>>

AllInit ==
    /\ part \in {"gate", "kiss", "ftm200", "head", "aprs_cards", "cards"}
    /\ Init /\ KissInit /\ FtmInit /\ HeadInit
    /\ IF part = "cards" THEN D!CardsInit ELSE CardsInit

AllNext ==
    \/ part = "gate" /\ Next /\ UNCHANGED <<part, kissVars, ftmVars, headVars, cardVars>>
    \/ part = "kiss" /\ KissNext /\ UNCHANGED <<part, vars, ftmVars, headVars, cardVars>>
    \/ part = "ftm200" /\ FtmNext /\ UNCHANGED <<part, vars, kissVars, headVars, cardVars>>
    \/ part = "head" /\ HeadNext /\ HeadBound' /\ UNCHANGED <<part, vars, kissVars, ftmVars, cardVars>>
    \/ part = "aprs_cards" /\ CardsNext /\ UNCHANGED <<part, vars, kissVars, ftmVars, headVars>>
    \/ part = "cards" /\ D!CardsNext /\ UNCHANGED <<part, vars, kissVars, ftmVars, headVars>>

AllSpec == AllInit /\ [][AllNext]_allVars

\* The properties are those of the five modules.  Those of Cards speak of the rows and cards
\* there are, and hold for both of its parts.
===============================================================================

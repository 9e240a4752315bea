-------------------------------- MODULE Clients --------------------------------
(***************************************************************************)
(* The tasks that keep a connection for as long as the core runs: the KISS *)
(* client (aprsx/core/kiss.py), the gpsd client (aprsx/core/gps.py) and    *)
(* the reader of the FTM-200's data port (aprsx/core/ftm200.py), while the *)
(* settings change where they connect to and which backend is used.        *)
(*                                                                         *)
(* A TCP client awaits open_connection with the address it read before;    *)
(* opening the data port has no await.  A cancelled task has run its       *)
(* finally before its successor can be connected.                          *)
(***************************************************************************)
CONSTANTS
    Tcp,        \* the TCP clients; Kiss, one of them, is a radio backend
    Kiss,
    Ftm,        \* the reader, the other backend
    Places      \* the addresses and devices there are

ClientsConstants == Kiss \in Tcp /\ Ftm \notin Tcp

VARIABLES
    want,       \* host and port, device and baud of each
    backend,    \* the backend that runs
    tcp,        \* per TCP client its phase, and where it connects to
    ftm,        \* the reader's phase and port
    reopen,     \* _reopen
    works       \* whether the data port wanted can be opened

clientVars == <<want, backend, tcp, ftm, reopen, works>>

Nowhere == "nowhere"
Client == Tcp \cup {Ftm}
At(phase, place) == [phase |-> phase, at |-> place]
NotRunning == At("off", Nowhere)
Waiting == At("waiting", Nowhere)   \* about to open, or in reconnect_delay

ClientsInit ==
    /\ want \in [Client -> Places]
    /\ backend \in {Kiss, Ftm}
    /\ tcp = [c \in Tcp |-> IF c = Kiss /\ backend # Kiss THEN NotRunning ELSE Waiting]
    /\ ftm = IF backend = Ftm THEN Waiting ELSE NotRunning
    /\ reopen = FALSE /\ works \in BOOLEAN

-----------------------------------------------------------------------------
\* The settings

\* set_address: a connection that is there is closed, one that is being opened is not.
SetAddress(c, place) ==
    /\ place # want[c]
    /\ want' = [want EXCEPT ![c] = place]
    /\ tcp' = IF tcp[c].phase = "open" THEN [tcp EXCEPT ![c].phase = "closing"] ELSE tcp
    /\ UNCHANGED <<backend, ftm, reopen, works>>

\* Mutant of Reopens: the reader is told of a new device when it is connected to none.
ReopensWaiting == ftm.phase # "open"

\* set_device asks for a reopen; when the reader waits, it wakes up and clears that again.
Reopens == TRUE

SetDevice(place) ==
    /\ place # want[Ftm]
    /\ want' = [want EXCEPT ![Ftm] = place]
    /\ reopen' = Reopens
    /\ works' \in BOOLEAN
    /\ UNCHANGED <<backend, tcp, ftm>>

\* Mutant of Select: the FTM-200 reader goes on beside the KISS client.
SelectBoth(new) ==
    /\ new # backend
    /\ backend' = new
    /\ tcp' = [tcp EXCEPT ![Kiss] = IF new = Kiss THEN Waiting ELSE NotRunning]
    /\ ftm' = IF new = Ftm THEN Waiting ELSE ftm
    /\ UNCHANGED <<want, reopen, works>>

\* _sync_radio: the task of the other backend is cancelled.
Select(new) ==
    /\ new # backend
    /\ backend' = new
    /\ tcp' = [tcp EXCEPT ![Kiss] = IF new = Kiss THEN Waiting ELSE NotRunning]
    /\ ftm' = IF new = Ftm THEN Waiting ELSE NotRunning
    /\ UNCHANGED <<want, reopen, works>>

-----------------------------------------------------------------------------
\* KissTcpClient.run and GpsdClient.run

TcpGoes(c, from, to) ==
    /\ tcp[c].phase \in from
    /\ tcp' = [tcp EXCEPT ![c] = to]
    /\ UNCHANGED <<want, backend, ftm, reopen, works>>

TcpOpens(c) == TcpGoes(c, {"waiting"}, At("opening", want[c]))
TcpConnects(c) == TcpGoes(c, {"opening"}, At("open", tcp[c].at))
TcpRefused(c) == TcpGoes(c, {"opening"}, Waiting)

\* The peer closes, the line breaks, or our own close is done.
TcpEnds(c) == TcpGoes(c, {"open", "closing"}, Waiting)

-----------------------------------------------------------------------------
\* Ftm200Reader.run

\* open_port, at the head of the loop: the device as it is set now.
Opened == IF works THEN At("open", want[Ftm]) ELSE Waiting

FtmGoes(to) ==
    /\ ftm' = to
    /\ UNCHANGED <<want, backend, tcp, works>>

\* The wait is over, by time or by set_device.
FtmOpens == ftm.phase = "waiting" /\ reopen' = FALSE /\ FtmGoes(Opened)

\* _read returns for a reopen: without a wait.
FtmReopens == ftm.phase = "open" /\ reopen /\ reopen' = FALSE /\ FtmGoes(Opened)

\* The port is unplugged.  One that is no longer wanted is left by FtmReopens.
FtmLost ==
    /\ ftm.phase = "open" /\ ftm.at = want[Ftm] /\ works
    /\ works' = FALSE
    /\ ftm' = Waiting
    /\ reopen' = FALSE
    /\ UNCHANGED <<want, backend, tcp>>

Plugged == ~works /\ works' = TRUE /\ UNCHANGED <<want, backend, tcp, ftm, reopen>>

-----------------------------------------------------------------------------
Changes ==
    \/ \E c \in Tcp, place \in Places: SetAddress(c, place)
    \/ \E place \in Places: SetDevice(place)
    \/ \E new \in {Kiss, Ftm}: Select(new)

TcpSteps == \E c \in Tcp: TcpOpens(c) \/ TcpConnects(c) \/ TcpRefused(c) \/ TcpEnds(c)

ClientsNext == Changes \/ TcpSteps \/ FtmOpens \/ FtmReopens \/ FtmLost \/ Plugged

ClientsSpec == ClientsInit /\ [][ClientsNext]_clientVars

\* The reader's waits end.
FairClientsSpec == ClientsSpec /\ WF_clientVars(FtmOpens) /\ WF_clientVars(FtmReopens)

-----------------------------------------------------------------------------
\* Properties

\* The task of a radio backend runs while that backend is the one chosen, and only then: no
\* change of the radio leaves two readers of packets, or none (service.py:129-140).
OneBackend ==
    /\ backend = Kiss <=> tcp[Kiss].phase # "off"
    /\ backend = Ftm <=> ftm.phase # "off"

\* The FTM-200 reader reads the device that is set, once its port can be opened and the
\* settings rest, whichever device was set while it waited, read, or was not in use
\* (ftm200.py:111-200, service.py:129-140).
FtmReadsWhereSet ==
    \A p \in Places:
        <>[](backend = Ftm /\ works /\ want[Ftm] = p) => <>[](ftm = At("open", p))

\* What kiss.py:161 and gps.py:185 say of set_address, "Connect somewhere else: drops the
\* current connection, which reconnects": no client stays connected where it was told to leave.
ConnectedWhereSet == \A c \in Tcp: tcp[c].phase = "open" => tcp[c].at = want[c]
===============================================================================

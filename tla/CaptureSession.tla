--------------------------- MODULE CaptureSession ---------------------------
(***************************************************************************)
(* The running program: MainWindow loads capture files one after the       *)
(* other, PacketHandler::ParseFrame makes hosts and sessions of their      *)
(* frames, the window lists them and DatabaseManager keeps the sessions in *)
(* a DuckDB file.  The user may clear between loads and the process may    *)
(* end at any point; only the database outlives it.                        *)
(*                                                                         *)
(* A record of a capture file is the sequence of the layers that           *)
(* ParseFrame looks at, in the order of their start in the frame:          *)
(* [kind, from, to], with kind "ip", "tcp" or "udp".                       *)
(***************************************************************************)
EXTENDS Integers, Sequences, SequencesExt

CONSTANTS
    Addresses, Ports,
    Files,         \* the capture files: sequences of records
    HostKey(_),    \* NetworkHostList::ToUInt64: for IPv6 a hash of the address
    NoPort, NoFile,
    MaxLoads,      \* bound: loads in all
    MaxRestarts    \* bound: how often the process ends

Layers == [kind : {"ip"}, from : Addresses, to : Addresses]
             \cup [kind : {"tcp", "udp"}, from : Ports, to : Ports]

ASSUME FilesAssumption == Files \subseteq Seq(Seq(Layers)) /\ NoFile \notin Files
ASSUME BoundAssumption == MaxLoads \in Nat /\ MaxRestarts \in Nat

VARIABLES
    step,          \* where the process is: "idle", "reading", "listing" or "storing"
    file,          \* the file being loaded
    next,          \* the record read next, then the session listed next
    frames,        \* m_frames.size()
    sessions,      \* the handler's sessions
    hosts,         \* the handler's hosts, by key
    sessionsTable, \* m_sessionsTable's rows
    hostsTree,     \* m_hostsTree's hosts
    database,      \* the rows of the table sessions
    listed,        \* history: every row any process ever listed
    lost,          \* history: how many of them did not get into the database
    loads, restarts

window == <<frames, sessionsTable, hostsTree>>
handler == <<sessions, hosts>>
history == <<listed, lost, loads, restarts>>
vars == <<step, file, next, window, handler, database, history>>

Init ==
    /\ step = "idle" /\ file = NoFile /\ next = 0
    /\ frames = 0 /\ sessionsTable = << >> /\ hostsTree = {}
    /\ sessions = << >> /\ hosts = << >>
    /\ database = << >>
    /\ listed = << >> /\ lost = 0 /\ loads = 0 /\ restarts = 0

----------------------------------------------------------------------------
\* loadPcap with a file that pcap_open_offline opens, and a new handler; with
\* any other file nothing changes.
LoadPcap(opened) ==
    /\ step = "idle" /\ loads < MaxLoads
    /\ step' = "reading" /\ file' = opened /\ next' = 1
    /\ sessions' = << >> /\ hosts' = << >>
    /\ loads' = loads + 1
    /\ UNCHANGED <<window, database, listed, lost, restarts>>

\* The last layer of these kinds; there is one.
LastLayer(layers, kinds) ==
    LET is == {i \in DOMAIN layers : layers[i].kind \in kinds}
    IN  layers[CHOOSE i \in is : \A j \in is : j <= i]

HasLayer(layers, kinds) == \E i \in DOMAIN layers : layers[i].kind \in kinds

\* Each kind of layer overwrites what an earlier one of its kind said.
SessionOf(layers) ==
    LET ip == LastLayer(layers, {"ip"})
        transport == IF HasLayer(layers, {"tcp", "udp"}) THEN LastLayer(layers, {"tcp", "udp"})
                     ELSE [kind |-> "", from |-> NoPort, to |-> NoPort]
    IN  [client |-> ip.from, server |-> ip.to, clientPort |-> transport.from,
         serverPort |-> transport.to, protocol |-> transport.kind]

\* Mutant: the host is added whether its key is there or not.
MutWithHostReplaces(known, address) ==
    [k \in DOMAIN known \cup {HostKey(address)} |->
        IF k = HostKey(address) THEN address ELSE known[k]]
\* GetNetworkHost, and Add when it finds none with the address's key.
WithHost(known, address) ==
    [k \in DOMAIN known \cup {HostKey(address)} |->
        IF k \in DOMAIN known THEN known[k] ELSE address]

\* One turn of the reading loop: pcap_next_ex, the Frame, ParseFrame, push_back.
ReadFrame ==
    /\ step = "reading" /\ next <= Len(file)
    /\ \/ /\ HasLayer(file[next], {"ip"})
          /\ LET session == SessionOf(file[next])
             IN  /\ hosts' = WithHost(WithHost(hosts, session.client), session.server)
                 /\ sessions' = Append(sessions, session)
       \/ /\ ~HasLayer(file[next], {"ip"})
          /\ UNCHANGED <<hosts, sessions>>
    /\ frames' = frames + 1
    /\ next' = next + 1
    /\ UNCHANGED <<step, file, sessionsTable, hostsTree, database, history>>

\* pcap_next_ex answers with the end of the file or, at any record, an error:
\* the loop ends in the same way.
EndReading ==
    /\ step = "reading"
    /\ step' = "listing" /\ next' = 1
    /\ UNCHANGED <<file, window, handler, database, history>>

\* A session becomes a row of the table ...
ListSession ==
    /\ step = "listing" /\ next <= Len(sessions)
    /\ sessionsTable' = Append(sessionsTable, sessions[next])
    /\ listed' = Append(listed, sessions[next])
    /\ step' = "storing"
    /\ UNCHANGED <<file, next, frames, hostsTree, handler, database,
                   lost, loads, restarts>>

\* Mutant: a refused row is taken off the table and listed again.
MutInsertSessionRetries ==
    /\ step = "storing"
    /\ \/ /\ database' = Append(database, sessions[next])
          /\ next' = next + 1
          /\ UNCHANGED <<sessionsTable, listed>>
       \/ /\ sessionsTable' = Front(sessionsTable) /\ listed' = Front(listed)
          /\ UNCHANGED <<database, next>>
    /\ step' = "listing"
    /\ UNCHANGED <<file, frames, hostsTree, handler, lost, loads, restarts>>
\* Mutant: the row is tried again although it was stored.
MutInsertSessionTwice ==
    /\ step = "storing"
    /\ \/ /\ database' = database \o <<sessions[next], sessions[next]>>
          /\ UNCHANGED lost
       \/ /\ lost' = lost + 1
          /\ UNCHANGED database
    /\ next' = next + 1
    /\ step' = "listing"
    /\ UNCHANGED <<file, window, handler, listed, loads, restarts>>
\* ... and insertSession gives it to the database, where preparing or executing
\* the statement may fail.  Either way the loop goes on.  (m_conn is there: without
\* it init would have ended the process.)
InsertSession ==
    /\ step = "storing"
    /\ \/ /\ database' = Append(database, sessions[next])
          /\ UNCHANGED lost
       \/ /\ lost' = lost + 1
          /\ UNCHANGED database
    /\ next' = next + 1
    /\ step' = "listing"
    /\ UNCHANGED <<file, window, handler, listed, loads, restarts>>

\* Mutant: the tree is not cleared before it is filled.
MutShowHostsKeepsOld ==
    /\ step = "listing" /\ next > Len(sessions)
    /\ hostsTree' = hostsTree \cup {hosts[k] : k \in DOMAIN hosts}
    /\ step' = "idle" /\ file' = NoFile /\ next' = 0
    /\ UNCHANGED <<frames, sessionsTable, handler, database, history>>
\* The tree is cleared and shows this load's hosts; loadPcap returns.
ShowHosts ==
    /\ step = "listing" /\ next > Len(sessions)
    /\ hostsTree' = {hosts[k] : k \in DOMAIN hosts}
    /\ step' = "idle" /\ file' = NoFile /\ next' = 0
    /\ UNCHANGED <<frames, sessionsTable, handler, database, history>>

\* onClear, from the event loop: not while a file is being loaded.
OnClear ==
    /\ step = "idle"
    /\ frames' = 0 /\ sessionsTable' = << >> /\ hostsTree' = {}
    /\ UNCHANGED <<step, file, next, handler, database, history>>

\* The process ends, wherever it is, and starts again: init creates the table
\* if it is not there.
Restart ==
    /\ restarts < MaxRestarts
    /\ restarts' = restarts + 1
    /\ step' = "idle"
    /\ file' = NoFile /\ next' = 0
    /\ frames' = 0 /\ sessionsTable' = << >> /\ hostsTree' = {}
    /\ sessions' = << >> /\ hosts' = << >>
    /\ lost' = lost + (IF step = "storing" THEN 1 ELSE 0)
    /\ UNCHANGED <<database, listed, loads>>

Next ==
    \/ \E opened \in Files : LoadPcap(opened)
    \/ ReadFrame \/ EndReading
    \/ ListSession \/ InsertSession \/ ShowHosts
    \/ OnClear
    \/ Restart

\* Loading runs on the one thread of the window: once begun it goes on.
Spec == Init /\ [][Next]_vars
             /\ WF_vars(ReadFrame \/ EndReading \/ ListSession \/ InsertSession \/ ShowHosts)

----------------------------------------------------------------------------
Sessions == [client : Addresses, server : Addresses, clientPort : Ports \cup {NoPort},
             serverPort : Ports \cup {NoPort}, protocol : {"", "tcp", "udp"}]

\* The type invariant; listing and storing have a session to work on or are done.
TypeOK ==
    /\ step \in {"idle", "reading", "listing", "storing"}
    /\ IF step = "idle" THEN file = NoFile ELSE file \in Files
    /\ next \in Nat /\ (step \in {"reading", "listing", "storing"} => next >= 1)
    /\ step = "storing" => next <= Len(sessions)
    /\ frames \in Nat
    /\ sessions \in Seq(Sessions) /\ sessionsTable \in Seq(Sessions)
    /\ database \in Seq(Sessions) /\ listed \in Seq(Sessions)
    /\ hostsTree \subseteq Addresses
    /\ \A k \in DOMAIN hosts : hosts[k] \in Addresses
    /\ lost \in Nat /\ loads \in 0..MaxLoads /\ restarts \in 0..MaxRestarts

IsSubsequence(s, t) ==
    \E at \in [DOMAIN s -> DOMAIN t] :
        /\ \A i, j \in DOMAIN s : i < j => at[i] < at[j]
        /\ \A i \in DOMAIN s : s[i] = t[at[i]]

\* Whatever the database refuses and wherever the process ends, the database
\* has the rows that were listed, in their order and at most once each, and
\* every other row is one that was refused or is about to be given to it.
DatabaseFollowsTable ==
    /\ IsSubsequence(database, listed)
    /\ Len(listed) = Len(database) + lost + (IF step = "storing" THEN 1 ELSE 0)

AddressesOf(rows) == {rows[i].client : i \in DOMAIN rows} \cup {rows[i].server : i \in DOMAIN rows}

\* Between loads the window is empty, or the table ends with the last load's
\* sessions and the tree has a host for each of their addresses, none from
\* another load and at most one for each key.
WindowShowsLastLoad ==
    step = "idle" =>
        \/ sessionsTable = << >> /\ hostsTree = {}
        \/ /\ IsSuffix(sessions, sessionsTable)
           /\ hostsTree \subseteq AddressesOf(sessions)
           /\ \A a \in AddressesOf(sessions) : \E h \in hostsTree : HostKey(h) = HostKey(a)
           /\ \A g, h \in hostsTree : HostKey(g) = HostKey(h) => g = h

\* An address that meets a host of its key is that host from then on: the host
\* of a key is the first address that had it, client before server.
FirstAddressStays ==
    \A k \in DOMAIN hosts :
        \E i \in DOMAIN sessions :
            /\ hosts[k] \in {sessions[i].client, sessions[i].server}
            /\ HostKey(hosts[k]) = k
            /\ hosts[k] = sessions[i].server /\ hosts[k] # sessions[i].client
                  => HostKey(sessions[i].client) # k
            /\ \A a \in AddressesOf(SubSeq(sessions, 1, i - 1)) : HostKey(a) # k

\* A load ends, also when the database refuses its rows.
LoadEnds == (step # "idle") ~> (step = "idle")
=============================================================================

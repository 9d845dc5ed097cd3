---------------------------- MODULE FtpTransfers ----------------------------
(***************************************************************************)
(* PacketHandlerFramework/PacketHandlers/FtpPacketHandler.cpp: which data  *)
(* connections of a capture carry which files of FTP sessions.  A session  *)
(* announces a listening port (PORT from the client, 227 from the server), *)
(* names a file (STOR, RETR) or asks for something else (LIST), and a      *)
(* connection to the port is made; only when all three were seen does the  *)
(* file get an assembler.  The client may abandon a transfer and announce  *)
(* the next; the capture misses some frames and repeats others.            *)
(*                                                                         *)
(* Sessions and pending transfers are objects that are referred to by      *)
(* their number.  GetValue is taken to be the list's TryGetValue.          *)
(***************************************************************************)
EXTENDS Integers, Sequences, FiniteSets, PopularityLists

CONSTANTS
    Captures,          \* sets of transfers [session, turn, passive, listener,
                       \* connector, command], where session is [client, port],
                       \* turn is the transfer's place in its session, listener
                       \* the announced port and connector the other one
    SessionPoolSize,   \* ftpSessionList(100)
    PendingPoolSize,   \* pendingFileTransferList(20)
    MaxFaults          \* bound: frames missed or repeated, and resets

VARIABLES
    ftp,         \* [sessionList, pendingList: the two lists, entries [key, object];
                 \*  sessions: the pending transfer of each session, 0 for none;
                 \*  pending: the transfers; assemblers: what was created]
    transfers,   \* the transfers of this capture
    turn,        \* of each session that began: its present transfer's turn
    shown,       \* of each transfer: which of its three frames were sent
    missed,      \* history: the frames not captured
    sure,        \* history: transfers to which nothing happened so far that
                 \* may keep them from being assembled
    newer,       \* history: the transfers announced or connected since this one was
    faults

vars == <<ftp, transfers, turn, shown, missed, sure, newer, faults>>

Frames == {"announce", "command", "connect"}
SessionsOf(ts) == {t.session : t \in ts}

Init ==
    /\ ftp = [sessionList |-> << >>, pendingList |-> << >>, sessions |-> << >>,
              pending |-> << >>, assemblers |-> << >>]
    /\ transfers \in Captures
    /\ turn = [s \in SessionsOf(transfers) |-> 0]
    /\ shown = [t \in transfers |-> {}] /\ missed = [t \in transfers |-> {}]
    /\ sure = {} /\ newer = [t \in transfers |-> {}]
    /\ faults = 0

----------------------------------------------------------------------------
\* The handler, as operators from its state to the one after.

Lookup(list, key) == list[Position(list, key)].object

\* PendingFileTransfer: the data connection goes from client to server.
NewPending(t, session) ==
    [client |-> IF t.passive THEN t.session.client ELSE "server", clientPort |-> -1,
     server |-> IF t.passive THEN "server" ELSE t.session.client, serverPort |-> t.listener,
     passive |-> t.passive, toClient |-> -1, established |-> FALSE,
     session |-> session, file |-> "none"]

Key(p) == <<p.client, p.clientPort, p.server, p.serverPort>>

\* The session of a control connection, found or created.
WithSession(h, t) ==
    IF t.session \in KeysOf(h.sessionList)
    THEN [h EXCEPT !.sessionList = Touch(@, t.session)]
    ELSE [h EXCEPT !.sessions = Append(@, 0),
                   !.sessionList = AddBounded(@, [key |-> t.session, object |-> Len(h.sessions) + 1],
                                              SessionPoolSize)]
SessionOf(h, t) == Lookup(h.sessionList, t.session)

\* PORT and 227.
Announced(h, t) ==
    LET p == NewPending(t, SessionOf(h, t))
        new == Len(h.pending) + 1
    IN  [h EXCEPT !.pending = Append(@, p), !.sessions[SessionOf(h, t)] = new,
                  !.pendingList = AddBounded(@, [key |-> Key(p), object |-> new], PendingPoolSize)]

\* Mutant: the direction does not depend on who listens.
MutDirection(p, command) == IF command = "RETR" THEN 1 ELSE 0
\* Whether the file goes to the connection's client: 1 or 0.
Direction(p, command) == IF p.passive = (command = "RETR") THEN 1 ELSE 0

\* STOR and RETR; without a pending transfer only an anomaly is reported.
Commanded(h, t) ==
    LET pending == h.sessions[SessionOf(h, t)]
    IN  IF t.command \in {"STOR", "RETR"} /\ pending # 0
        THEN [h EXCEPT !.pending[pending].file = t,
                       !.pending[pending].toClient = Direction(h.pending[pending], t.command)]
        ELSE h

\* A connection's handshake, with the two keys it is looked up by.
DataConnection(t) == [NewPending(t, 0) EXCEPT !.clientPort = t.connector]
Key1(t) == Key(DataConnection(t))
Key2(t) == Key(NewPending(t, 0))

\* The client's port is known now, and part of the key.
Rekeyed(h, t) ==
    LET i == Lookup(h.pendingList, Key2(t))
    IN  [h EXCEPT !.pending[i].clientPort = t.connector, !.pending[i].established = TRUE,
                  !.pendingList = AddBounded(WithoutKey(@, Key2(t)), [key |-> Key1(t), object |-> i],
                                             PendingPoolSize)]

Connected(h, t) ==
    IF Key1(t) \in KeysOf(h.pendingList)
    THEN [h EXCEPT !.pendingList = Touch(@, Key1(t)),
                   !.pending[Lookup(h.pendingList, Key1(t))].established = TRUE]
    ELSE IF Key2(t) \in KeysOf(h.pendingList) THEN Rekeyed(h, t)
    ELSE h

\* Mutant: a connection does not lead back to its session.
MutSessionConnected(h, t) == 0
\* The session that a connection belongs to, 0 for none.
SessionConnected(h, t) ==
    IF Key1(t) \in KeysOf(h.pendingList) THEN h.pending[Lookup(h.pendingList, Key1(t))].session ELSE 0

Assembler(p) ==
    LET client == <<p.client, p.clientPort>>
        server == <<p.server, p.serverPort>>
    IN  IF p.toClient = 1 THEN [source |-> server, destination |-> client, file |-> p.file]
        ELSE [source |-> client, destination |-> server, file |-> p.file]

Ready(p) == p.established /\ p.toClient # -1 /\ p.clientPort # -1

\* The end of TryExtractData, for the session found on the way.
Completed(h, session) ==
    IF session = 0 THEN h
    ELSE IF h.sessions[session] = 0 THEN h
    ELSE LET p == h.pending[h.sessions[session]]
         IN  IF ~Ready(p) THEN h
             ELSE [h EXCEPT !.assemblers = Append(@, Assembler(p)),
                            !.pendingList = WithoutKey(@, Key(p)),
                            !.sessions[session] = 0]

TryExtractData(t, frame) ==
    IF frame = "connect"
    THEN LET h == Connected(ftp, t) IN Completed(h, SessionConnected(h, t))
    ELSE LET known == WithSession(ftp, t)
             h == IF frame = "announce" THEN Announced(known, t) ELSE Commanded(known, t)
         IN  Completed(h, SessionOf(h, t))

----------------------------------------------------------------------------
Fault == faults < MaxFaults /\ faults' = faults + 1

\* The same connection, whatever it is used for, and the same listener.
SamePorts(t, u) == Key1(t) = Key1(u)
SameListener(t, u) == Key2(t) = Key2(u)

Listening(t) == shown[t] # {} /\ "connect" \notin shown[t] /\ t.turn = turn[t.session]

\* The announcements and connections that come after those of each transfer.
Newer(t, frame) ==
    [u \in transfers |-> IF frame = "command" THEN newer[u]
                         ELSE IF u = t THEN {} ELSE newer[u] \cup {t}]

\* The next frame of a session's transfer is sent, or the next transfer begins,
\* on a port that no one else listens on.
Sent(t, frame) ==
    /\ frame \notin shown[t]
    /\ IF frame = "announce"
       THEN /\ t.turn = turn[t.session] + 1
            /\ ~\E u \in transfers : SameListener(t, u) /\ Listening(u) /\ u.session # t.session
       ELSE t.turn = turn[t.session] /\ "announce" \in shown[t]
    /\ turn' = [turn EXCEPT ![t.session] = t.turn]
    /\ shown' = [shown EXCEPT ![t] = @ \cup {frame}]
    /\ newer' = Newer(t, frame)
    /\ UNCHANGED transfers

\* The places in the list that these transfers may take: two for one whose ports
\* another has, as its listener and as the other's connection.
Entries(us) ==
    Cardinality(us) + Cardinality({u \in us : \E v \in transfers \ {u} : SamePorts(u, v)})

\* The history of a captured frame.  A transfer is no longer sure when its
\* announcement is repeated.  Until it is complete, also when its session
\* announces again, when another announces its listener or connects to it, and
\* when the list may have dropped it, as after any repeated announcement, which
\* adds an entry.
Noted(t, frame) ==
    LET again == frame = "announce" /\ shown[t] # {}
        disturbs(u) == \/ frame = "announce" /\ (again \/ u.session = t.session)
                       \/ frame # "command" /\ u # t /\ SameListener(t, u)
                       \/ Entries(Newer(t, frame)[u]) >= PendingPoolSize
        unused == ~\E u \in transfers : u # t /\ shown[u] # {} /\ SamePorts(t, u)
    IN  sure' = {u \in sure : ~(IF shown[u] = Frames THEN again /\ u = t ELSE disturbs(u))}
                \cup {u \in {t} : frame = "announce" /\ ~again /\ unused}

Captured(t, frame) ==
    /\ Sent(t, frame)
    /\ ftp' = TryExtractData(t, frame)
    /\ Noted(t, frame)
    /\ UNCHANGED <<missed, faults>>

Missed(t, frame) ==
    /\ Fault /\ Sent(t, frame)
    /\ missed' = [missed EXCEPT ![t] = @ \cup {frame}]
    /\ sure' = sure \ {t}
    /\ UNCHANGED ftp

\* A frame of a session's present transfer is captured once more, an announcement
\* and a handshake before anyone else listens on the port: a connection's later
\* frames do not come here, as it is established.
Repeated(t, frame) ==
    /\ Fault
    /\ frame \in shown[t] /\ t.turn = turn[t.session]
    /\ frame # "command" => ~\E u \in newer[t] : SameListener(t, u)
    /\ ftp' = TryExtractData(t, frame)
    /\ newer' = Newer(t, frame)
    /\ Noted(t, frame)
    /\ UNCHANGED <<transfers, turn, shown, missed>>

\* Reset forgets the sessions and the transfers.
Reset ==
    /\ Fault
    /\ ftp' = [ftp EXCEPT !.sessionList = << >>, !.pendingList = << >>]
    /\ sure' = {t \in sure : shown[t] = Frames}
    /\ UNCHANGED <<transfers, turn, shown, missed, newer>>

Next ==
    \/ \E t \in transfers, frame \in Frames :
          Captured(t, frame) \/ Missed(t, frame) \/ Repeated(t, frame)
    \/ Reset

Spec == Init /\ [][Next]_vars

----------------------------------------------------------------------------
\* What a file's assembler should be: from the sender's to the receiver's port.
Expected(t) ==
    LET listener == IF t.passive THEN <<"server", t.listener>> ELSE <<t.session.client, t.listener>>
        connector == IF t.passive THEN <<t.session.client, t.connector>> ELSE <<"server", t.connector>>
    IN  IF t.passive = (t.command = "RETR")
        THEN [source |-> listener, destination |-> connector, file |-> t]
        ELSE [source |-> connector, destination |-> listener, file |-> t]

Assemblers(t) == {i \in DOMAIN ftp.assemblers : ftp.assemblers[i].file = t}
IsFile(t) == t.command \in {"STOR", "RETR"}

\* However connections and commands interleave, transfers are abandoned,
\* frames repeated and the lists reset or full: a file is never sought on the
\* wrong connection or in the wrong direction, unless an announcement was missed.
FileOnItsConnection ==
    (\A t \in transfers : "announce" \notin missed[t]) =>
        \A i \in DOMAIN ftp.assemblers : ftp.assemblers[i] = Expected(ftp.assemblers[i].file)

\* A transfer seen completely gets one assembler, whichever of command and
\* connection came first, as long as its ports were not in use and the lists
\* had room for it.
CompleteTransferIsAssembled ==
    Cardinality(SessionsOf(transfers)) <= SessionPoolSize =>
        \A t \in sure : shown[t] = Frames /\ IsFile(t) => Cardinality(Assemblers(t)) = 1
=============================================================================

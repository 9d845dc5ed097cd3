----------------------- MODULE CaptureSession_proofs -----------------------
(***************************************************************************)
(* The state of the loading process has its types, the database follows    *)
(* the table, and between loads the window shows the last one, for all     *)
(* capture files, host keys and bounds.                                    *)
(***************************************************************************)
EXTENDS CaptureSession, SequenceFacts

(* A row on its way to the database was listed after all that are there.    *)
OpenRowIsLast ==
    step = "storing" =>
        /\ Len(listed) > 0
        /\ listed[Len(listed)] = sessions[next]
        /\ IsSubsequence(database, SubSeq(listed, 1, Len(listed) - 1))

IInv == TypeOK /\ DatabaseFollowsTable /\ OpenRowIsLast

----------------------------------------------------------------------------
(* The last of the layers that are there is one of them.                    *)
LEMMA LastLayerFacts ==
    ASSUME NEW layers \in Seq(Layers), NEW kinds, HasLayer(layers, kinds)
    PROVE  LastLayer(layers, kinds) \in Layers /\ LastLayer(layers, kinds).kind \in kinds
  <1> DEFINE is == {i \in DOMAIN layers : layers[i].kind \in kinds}
  <1>1. Len(layers) \in Nat /\ is \in SUBSET (1..Len(layers)) /\ is # {}
    BY DEF HasLayer
  <1>2. \E i \in is : \A j \in is : j <= i
    <2> HIDE DEF is
    <2> QED BY <1>1, GreatestPosition
  <1>3. PICK i \in is : LastLayer(layers, kinds) = layers[i]
    BY <1>2 DEF LastLayer
  <1> QED BY <1>3

LEMMA MakesSession ==
    ASSUME NEW c \in Addresses, NEW s \in Addresses, NEW p \in Ports \cup {NoPort},
           NEW q \in Ports \cup {NoPort}, NEW kind \in {"", "tcp", "udp"}
    PROVE  [client |-> c, server |-> s, clientPort |-> p, serverPort |-> q,
            protocol |-> kind] \in Sessions
  BY DEF Sessions

(* A record with an IP layer makes a session.                               *)
LEMMA SessionOfFacts ==
    ASSUME NEW layers \in Seq(Layers), HasLayer(layers, {"ip"})
    PROVE  SessionOf(layers) \in Sessions
  <1> DEFINE ip == LastLayer(layers, {"ip"})
             last == LastLayer(layers, {"tcp", "udp"})
  <1>1. ip \in Layers /\ ip.kind = "ip"
    BY LastLayerFacts
  <1>2. ip.from \in Addresses /\ ip.to \in Addresses
    <2> HIDE DEF ip
    <2> QED BY <1>1 DEF Layers
  <1>3. CASE HasLayer(layers, {"tcp", "udp"})
    <2>1. last \in Layers /\ last.kind \in {"tcp", "udp"}
      BY <1>3, LastLayerFacts
    <2>2. last.from \in Ports /\ last.to \in Ports
      <3> HIDE DEF last
      <3> QED BY <2>1 DEF Layers
    <2> HIDE DEF ip, last
    <2>3. SessionOf(layers) = [client |-> ip.from, server |-> ip.to, clientPort |-> last.from,
                               serverPort |-> last.to, protocol |-> last.kind]
      BY <1>3 DEF SessionOf, ip, last
    <2> QED BY <1>2, <2>1, <2>2, <2>3, MakesSession
  <1>4. CASE ~HasLayer(layers, {"tcp", "udp"})
    <2> HIDE DEF ip
    <2>1. SessionOf(layers) = [client |-> ip.from, server |-> ip.to, clientPort |-> NoPort,
                               serverPort |-> NoPort, protocol |-> ""]
      BY <1>4 DEF SessionOf, ip
    <2> QED BY <1>2, <2>1, MakesSession
  <1> QED BY <1>3, <1>4

(* A host that is added is an address, and no other host changes.           *)
LEMMA WithHostFacts ==
    ASSUME NEW known, \A k \in DOMAIN known : known[k] \in Addresses, NEW a \in Addresses
    PROVE  \A k \in DOMAIN WithHost(known, a) : WithHost(known, a)[k] \in Addresses
  BY DEF WithHost

(* A subsequence stays one when both sequences get the same element, or the
   longer one alone gets one.                                               *)
LEMMA SubsequenceGrows ==
    ASSUME NEW S, NEW s \in Seq(S), NEW t \in Seq(S), NEW e \in S, IsSubsequence(s, t)
    PROVE  IsSubsequence(s, Append(t, e))
  <1>1. PICK at \in [DOMAIN s -> DOMAIN t] :
            /\ \A i, j \in DOMAIN s : i < j => at[i] < at[j]
            /\ \A i \in DOMAIN s : s[i] = t[at[i]]
    BY DEF IsSubsequence
  <1>2. DOMAIN t \subseteq DOMAIN Append(t, e) /\ \A i \in DOMAIN t : Append(t, e)[i] = t[i]
    OBVIOUS
  <1>3. at \in [DOMAIN s -> DOMAIN Append(t, e)]
    BY <1>1, <1>2
  <1> QED BY <1>1, <1>2, <1>3 DEF IsSubsequence

LEMMA SubsequenceExtends ==
    ASSUME NEW S, NEW s \in Seq(S), NEW t \in Seq(S), Len(t) > 0,
           IsSubsequence(s, SubSeq(t, 1, Len(t) - 1))
    PROVE  IsSubsequence(Append(s, t[Len(t)]), t)
  <1> DEFINE n == Len(t)
             m == Len(s)
             front == SubSeq(t, 1, n - 1)
             longer == Append(s, t[n])
  <1>1. n \in Nat \ {0} /\ m \in Nat /\ DOMAIN s = 1..m /\ DOMAIN t = 1..n
    OBVIOUS
  <1>2. DOMAIN front = 1..(n - 1) /\ \A i \in 1..(n - 1) : front[i] = t[i]
    BY <1>1
  <1>3. /\ DOMAIN longer = 1..(m + 1)
        /\ \A i \in 1..m : longer[i] = s[i]
        /\ longer[m + 1] = t[n]
    <2>1. t[n] \in S
      BY <1>1
    <2> QED BY <1>1, <2>1
  <1>4. PICK at \in [1..m -> 1..(n - 1)] :
            /\ \A i, j \in 1..m : i < j => at[i] < at[j]
            /\ \A i \in 1..m : s[i] = front[at[i]]
    BY <1>1, <1>2 DEF IsSubsequence
  <1> DEFINE upto == [i \in 1..(m + 1) |-> IF i <= m THEN at[i] ELSE n]
  <1>5. upto \in [1..(m + 1) -> 1..n]
    BY <1>1, <1>4
  <1>6. \A i, j \in 1..(m + 1) : i < j => upto[i] < upto[j]
    BY <1>1, <1>4
  <1>7. \A i \in 1..(m + 1) : longer[i] = t[upto[i]]
    <2> SUFFICES ASSUME NEW i \in 1..(m + 1) PROVE longer[i] = t[upto[i]]
      OBVIOUS
    <2>1. CASE i \in 1..m
      <3>1. at[i] \in 1..(n - 1) /\ upto[i] = at[i]
        BY <1>1, <1>4, <2>1
      <3> HIDE DEF upto, front, longer
      <3> QED BY <1>2, <1>3, <1>4, <2>1, <3>1
    <2>2. CASE i = m + 1
      <3>1. upto[i] = n
        BY <1>1, <2>2
      <3> HIDE DEF upto, longer
      <3> QED BY <1>3, <2>2, <3>1
    <2> QED BY <1>1, <2>1, <2>2
  <1> HIDE DEF longer, upto
  <1>8. IsSubsequence(longer, t)
    BY <1>1, <1>3, <1>5, <1>6, <1>7 DEF IsSubsequence
  <1> QED BY <1>8 DEF longer

----------------------------------------------------------------------------
LEMMA InitIInv == Init => IInv
  <1> SUFFICES ASSUME Init PROVE IInv
    OBVIOUS
  <1>1. TypeOK
    BY BoundAssumption DEF Init, TypeOK
  <1>2. IsSubsequence(<< >>, << >>)
    <2> DEFINE at == [i \in {} |-> 1]
    <2>1. DOMAIN << >> = {} /\ at \in [{} -> {}]
      OBVIOUS
    <2> QED BY <2>1 DEF IsSubsequence
  <1>3. Len(listed) = Len(database) + lost + 0
    BY DEF Init
  <1> QED BY <1>1, <1>2, <1>3 DEF Init, IInv, DatabaseFollowsTable, OpenRowIsLast

(* What an action leaves alone keeps its part of the invariant.             *)
LEMMA DatabaseUntouched ==
    ASSUME IInv, UNCHANGED <<database, listed, lost>>, step # "storing", step' # "storing"
    PROVE  DatabaseFollowsTable' /\ OpenRowIsLast'
  BY DEF IInv, DatabaseFollowsTable, OpenRowIsLast, IsSubsequence

LEMMA LoadPcapKeeps ==
    ASSUME IInv, NEW opened \in Files, LoadPcap(opened)
    PROVE  IInv'
  <1>1. TypeOK'
    BY BoundAssumption DEF IInv, TypeOK, LoadPcap, window
  <1>2. DatabaseFollowsTable' /\ OpenRowIsLast'
    BY DatabaseUntouched DEF LoadPcap
  <1> QED BY <1>1, <1>2 DEF IInv

LEMMA ReadFrameKeeps ==
    ASSUME IInv, ReadFrame
    PROVE  IInv'
  <1> USE DEF IInv
  <1>1. file \in Seq(Seq(Layers)) /\ next \in 1..Len(file) /\ Len(file) \in Nat
    BY FilesAssumption DEF TypeOK, ReadFrame
  <1>2. file[next] \in Seq(Layers)
    <2>1. \A S : \A q \in Seq(S) : \A i \in 1..Len(q) : q[i] \in S
      OBVIOUS
    <2> QED BY ONLY <1>1, <2>1
  <1>3. /\ sessions' \in Seq(Sessions)
        /\ \A k \in DOMAIN hosts' : hosts'[k] \in Addresses
    <2>1. CASE HasLayer(file[next], {"ip"})
      <3> DEFINE session == SessionOf(file[next])
      <3>1. session \in Sessions
        BY <1>2, <2>1, SessionOfFacts
      <3>2. session.client \in Addresses /\ session.server \in Addresses
        <4> HIDE DEF session
        <4> QED BY <3>1 DEF Sessions
      <3>3. /\ hosts' = WithHost(WithHost(hosts, session.client), session.server)
            /\ sessions' = Append(sessions, session)
        BY <2>1 DEF ReadFrame
      <3> HIDE DEF session
      <3>4. \A k \in DOMAIN WithHost(hosts, session.client) :
                WithHost(hosts, session.client)[k] \in Addresses
        BY <3>2, WithHostFacts DEF TypeOK
      <3>5. \A k \in DOMAIN hosts' : hosts'[k] \in Addresses
        BY <3>2, <3>3, <3>4, WithHostFacts
      <3> QED BY <3>1, <3>3, <3>5 DEF TypeOK
    <2>2. CASE ~HasLayer(file[next], {"ip"})
      BY <2>2 DEF ReadFrame, TypeOK
    <2> QED BY <2>1, <2>2
  <1>4. TypeOK'
    <2>1. /\ frames' \in Nat /\ next' \in Nat /\ next' >= 1
          /\ step = "reading" /\ step' = "reading" /\ file' \in Files
      BY DEF ReadFrame, TypeOK
    <2>2. /\ sessionsTable' \in Seq(Sessions) /\ database' \in Seq(Sessions)
          /\ listed' \in Seq(Sessions) /\ hostsTree' \subseteq Addresses
          /\ lost' \in Nat /\ loads' \in 0..MaxLoads /\ restarts' \in 0..MaxRestarts
      BY DEF ReadFrame, TypeOK, history
    <2> QED BY ONLY <1>3, <2>1, <2>2 DEF TypeOK
  <1>5. DatabaseFollowsTable' /\ OpenRowIsLast'
    BY DatabaseUntouched DEF ReadFrame, history
  <1> QED BY <1>4, <1>5

LEMMA EndReadingKeeps ==
    ASSUME IInv, EndReading
    PROVE  IInv'
  <1>1. TypeOK'
    BY DEF IInv, TypeOK, EndReading, window, handler, history
  <1>2. DatabaseFollowsTable' /\ OpenRowIsLast'
    BY DatabaseUntouched DEF EndReading, history
  <1> QED BY <1>1, <1>2 DEF IInv

(* The row that is listed is the last of listed, and open.                  *)
LEMMA ListSessionKeeps ==
    ASSUME IInv, ListSession
    PROVE  IInv'
  <1> USE DEF IInv
  <1>1. next \in 1..Len(sessions) /\ Len(sessions) \in Nat
    BY DEF TypeOK, ListSession
  <1>2. sessions[next] \in Sessions
    BY <1>1 DEF TypeOK
  <1>3. TypeOK'
    BY <1>1, <1>2 DEF ListSession, TypeOK, handler
  <1>4. IsSubsequence(database, Append(listed, sessions[next]))
    BY <1>2, SubsequenceGrows DEF TypeOK, DatabaseFollowsTable
  <1>5. IsSubsequence(database, listed)'
    BY <1>4 DEF ListSession, IsSubsequence
  <1>6. Len(listed') = Len(database') + lost' + 1
    <2>1. Len(Append(listed, sessions[next])) = Len(listed) + 1
      BY <1>2, AppendFacts DEF TypeOK
    <2>2. Len(listed) = Len(database) + lost /\ Len(database) \in Nat
      BY DEF DatabaseFollowsTable, ListSession, TypeOK
    <2> QED BY <2>1, <2>2 DEF ListSession, TypeOK
  <1>7. OpenRowIsLast'
    <2> DEFINE longer == Append(listed, sessions[next])
    <2>1. /\ Len(listed) \in Nat /\ Len(longer) = Len(listed) + 1
          /\ longer[Len(longer)] = sessions[next]
      BY <1>2, AppendFacts DEF TypeOK
    <2>2. SubSeq(longer, 1, Len(listed)) = listed
      BY <1>2, FrontOfAppend DEF TypeOK
    <2>3. IsSubsequence(database, listed)
      BY DEF DatabaseFollowsTable
    <2>4. listed' = longer /\ sessions' = sessions /\ next' = next /\ database' = database
      BY DEF ListSession, handler
    <2>5. Len(longer) - 1 = Len(listed)
      BY <2>1
    <2> HIDE DEF longer
    <2>6. IsSubsequence(database, SubSeq(longer, 1, Len(longer) - 1))
      BY <2>2, <2>3, <2>5
    <2> QED BY <2>1, <2>4, <2>6 DEF OpenRowIsLast, IsSubsequence
  <1> QED BY <1>3, <1>5, <1>6, <1>7 DEF DatabaseFollowsTable, ListSession

(* The open row is stored after the ones that are there, or counted as lost. *)
LEMMA InsertSessionKeeps ==
    ASSUME IInv, InsertSession
    PROVE  IInv'
  <1> USE DEF IInv
  <1>1. next \in 1..Len(sessions) /\ Len(sessions) \in Nat
    BY DEF TypeOK, InsertSession
  <1>2. sessions[next] \in Sessions
    BY <1>1 DEF TypeOK
  <1>3. TypeOK'
    <2>1. database' \in Seq(Sessions)
      <3>1. Append(database, sessions[next]) \in Seq(Sessions) /\ database \in Seq(Sessions)
        BY <1>2, AppendFacts DEF TypeOK
      <3> QED BY <3>1 DEF InsertSession
    <2>2. lost' \in Nat /\ next' \in Nat /\ next' >= 1
      BY <1>1 DEF InsertSession, TypeOK
    <2> QED BY <2>1, <2>2 DEF InsertSession, TypeOK, window, handler
  <1>4. /\ Len(listed) > 0 /\ listed[Len(listed)] = sessions[next]
        /\ IsSubsequence(database, SubSeq(listed, 1, Len(listed) - 1))
        /\ Len(listed) = Len(database) + lost + 1
        /\ IsSubsequence(database, listed)
    BY DEF OpenRowIsLast, DatabaseFollowsTable, InsertSession
  <1>5. Len(database) \in Nat /\ lost \in Nat /\ listed' = listed
    BY DEF TypeOK, InsertSession
  <1>6. CASE database' = Append(database, sessions[next]) /\ UNCHANGED lost
    <2> DEFINE longer == Append(database, listed[Len(listed)])
    <2>1. IsSubsequence(longer, listed)
      BY <1>4, SubsequenceExtends DEF TypeOK
    <2>2. IsSubsequence(database, listed)'
      <3>1. database' = longer
        BY <1>4, <1>6
      <3> HIDE DEF longer
      <3> QED BY <1>5, <2>1, <3>1 DEF IsSubsequence
    <2>3. Len(database') = Len(database) + 1
      BY <1>2, <1>6, AppendFacts DEF TypeOK
    <2> QED BY <1>3, <1>4, <1>5, <1>6, <2>2, <2>3 DEF DatabaseFollowsTable, OpenRowIsLast, InsertSession
  <1>7. CASE lost' = lost + 1 /\ UNCHANGED database
    <2>1. IsSubsequence(database, listed)'
      BY <1>4, <1>5, <1>7 DEF IsSubsequence
    <2> QED BY <1>3, <1>4, <1>5, <1>7, <2>1 DEF DatabaseFollowsTable, OpenRowIsLast, InsertSession
  <1> QED BY <1>6, <1>7 DEF InsertSession

LEMMA ShowHostsKeeps ==
    ASSUME IInv, ShowHosts
    PROVE  IInv'
  <1>1. TypeOK'
    BY DEF IInv, TypeOK, ShowHosts, handler, history
  <1>2. DatabaseFollowsTable' /\ OpenRowIsLast'
    BY DatabaseUntouched DEF ShowHosts, history
  <1> QED BY <1>1, <1>2 DEF IInv

LEMMA OnClearKeeps ==
    ASSUME IInv, OnClear
    PROVE  IInv'
  <1>1. TypeOK'
    BY DEF IInv, TypeOK, OnClear, handler, history
  <1>2. DatabaseFollowsTable' /\ OpenRowIsLast'
    BY DatabaseUntouched DEF OnClear, history
  <1> QED BY <1>1, <1>2 DEF IInv

(* A row that is open when the process ends is lost.                        *)
LEMMA RestartKeeps ==
    ASSUME IInv, Restart
    PROVE  IInv'
  <1>1. TypeOK'
    BY BoundAssumption DEF IInv, TypeOK, Restart
  <1>2. IsSubsequence(database, listed)'
    BY DEF IInv, DatabaseFollowsTable, Restart, IsSubsequence
  <1>3. Len(listed') = Len(database') + lost' + 0
    BY DEF IInv, TypeOK, DatabaseFollowsTable, Restart
  <1> QED BY <1>1, <1>2, <1>3 DEF IInv, DatabaseFollowsTable, OpenRowIsLast, Restart

LEMMA StutterKeeps ==
    ASSUME IInv, UNCHANGED vars
    PROVE  IInv'
  <1> USE DEF vars, window, handler, history
  <1>1. TypeOK'
    BY DEF IInv, TypeOK
  <1>2. IsSubsequence(database, listed)' /\ OpenRowIsLast'
    BY DEF IInv, DatabaseFollowsTable, OpenRowIsLast, IsSubsequence
  <1> QED BY <1>1, <1>2 DEF IInv, DatabaseFollowsTable

LEMMA Inductive == IInv /\ [Next]_vars => IInv'
  <1> SUFFICES ASSUME IInv, [Next]_vars PROVE IInv'
    OBVIOUS
  <1>1. CASE \E opened \in Files : LoadPcap(opened)
    BY <1>1, LoadPcapKeeps
  <1>2. CASE ReadFrame
    BY <1>2, ReadFrameKeeps
  <1>3. CASE EndReading
    BY <1>3, EndReadingKeeps
  <1>4. CASE ListSession
    BY <1>4, ListSessionKeeps
  <1>5. CASE InsertSession
    BY <1>5, InsertSessionKeeps
  <1>6. CASE ShowHosts
    BY <1>6, ShowHostsKeeps
  <1>7. CASE OnClear
    BY <1>7, OnClearKeeps
  <1>8. CASE Restart
    BY <1>8, RestartKeeps
  <1>9. CASE UNCHANGED vars
    BY <1>9, StutterKeeps
  <1> QED BY <1>1, <1>2, <1>3, <1>4, <1>5, <1>6, <1>7, <1>8, <1>9 DEF Next

LEMMA Invariance == Spec => []IInv
  <1>1. Init => IInv
    BY InitIInv
  <1>2. IInv /\ [Next]_vars => IInv'
    BY Inductive
  <1> QED BY <1>1, <1>2, PTL DEF Spec

(* The window, the handler and the database keep their types while files    *)
(* are loaded, cleared and loaded again, whatever the files hold.           *)
THEOREM CaptureTypeCorrect == Spec => []TypeOK
  <1>1. IInv => TypeOK
    BY DEF IInv
  <1> QED BY <1>1, Invariance, PTL

(* Whatever inserts fail and wherever the process ends, the database holds  *)
(* rows that the window listed, in their order and at most once each, and   *)
(* the others are accounted for.                                            *)
THEOREM DatabaseIsFaithful == Spec => []DatabaseFollowsTable
  <1>1. IInv => DatabaseFollowsTable
    BY DEF IInv
  <1> QED BY <1>1, Invariance, PTL
----------------------------------------------------------------------------
(* The host of a key is the first address that had it ...                   *)
KeyedByFirst(h, s) ==
    \A k \in DOMAIN h :
        \E i \in DOMAIN s :
            /\ h[k] \in {s[i].client, s[i].server}
            /\ HostKey(h[k]) = k
            /\ h[k] = s[i].server /\ h[k] # s[i].client => HostKey(s[i].client) # k
            /\ \A a \in AddressesOf(SubSeq(s, 1, i - 1)) : HostKey(a) # k

(* ... and every address has a host.                                        *)
AllHaveHosts(h, s) == \A a \in AddressesOf(s) : HostKey(a) \in DOMAIN h

(* The table ends with the first n sessions of the handler.                 *)
TableEndsWith(n) ==
    /\ n <= Len(sessionsTable)
    /\ \A i \in 1..n : sessions[i] = sessionsTable[Len(sessionsTable) - n + i]

ListingInv ==
    /\ step = "listing" => next <= Len(sessions) + 1 /\ TableEndsWith(next - 1)
    /\ step = "storing" => TableEndsWith(next)

WInv ==
    /\ KeyedByFirst(hosts, sessions) /\ AllHaveHosts(hosts, sessions)
    /\ ListingInv /\ WindowShowsLastLoad

----------------------------------------------------------------------------
(* The addresses of a longer sequence are the old ones and the last row's.  *)
LEMMA AddressesOfAppend ==
    ASSUME NEW s \in Seq(Sessions), NEW e \in Sessions
    PROVE  /\ AddressesOf(Append(s, e)) = AddressesOf(s) \cup {e.client, e.server}
           /\ \A i \in 1..(Len(s) + 1) :
                  AddressesOf(SubSeq(Append(s, e), 1, i - 1)) \subseteq AddressesOf(s)
           /\ \A i \in 1..Len(s) : SubSeq(Append(s, e), 1, i - 1) = SubSeq(s, 1, i - 1)
  <1> DEFINE longer == Append(s, e)
             n == Len(s)
  <1>1. /\ n \in Nat /\ DOMAIN s = 1..n /\ DOMAIN longer = 1..(n + 1)
        /\ \A i \in 1..n : longer[i] = s[i]
        /\ longer[n + 1] = e
    OBVIOUS
  <1>2. longer \in Seq(Sessions)
    OBVIOUS
  <1>3. \A i \in 1..(n + 1) :
            /\ DOMAIN SubSeq(longer, 1, i - 1) = 1..(i - 1)
            /\ \A j \in 1..(i - 1) : SubSeq(longer, 1, i - 1)[j] = longer[j]
    BY <1>1, <1>2
  <1>4. \A i \in 1..n : SubSeq(longer, 1, i - 1) = SubSeq(s, 1, i - 1)
    OBVIOUS
  <1> HIDE DEF longer, n
  <1>5. AddressesOf(longer) = AddressesOf(s) \cup {e.client, e.server}
    <2>1. DOMAIN longer = DOMAIN s \cup {n + 1}
      BY <1>1
    <2> QED BY <1>1, <2>1 DEF AddressesOf
  <1>6. ASSUME NEW i \in 1..(n + 1)
        PROVE  AddressesOf(SubSeq(longer, 1, i - 1)) \subseteq AddressesOf(s)
    <2> DEFINE front == SubSeq(longer, 1, i - 1)
    <2>1. /\ DOMAIN front = 1..(i - 1) /\ 1..(i - 1) \subseteq 1..n
          /\ \A j \in 1..(i - 1) : front[j] = s[j]
      BY <1>1, <1>3
    <2> HIDE DEF front
    <2>2. AddressesOf(front) \subseteq AddressesOf(s)
      BY <1>1, <2>1 DEF AddressesOf
    <2> QED BY <2>2 DEF front
  <1> QED BY <1>4, <1>5, <1>6 DEF longer, n

(* A session's hosts are added without replacing one that is there.         *)
LEMMA HostsKeepFirst ==
    ASSUME NEW s \in Seq(Sessions), NEW h, NEW e \in Sessions,
           KeyedByFirst(h, s), AllHaveHosts(h, s)
    PROVE  /\ KeyedByFirst(WithHost(WithHost(h, e.client), e.server), Append(s, e))
           /\ AllHaveHosts(WithHost(WithHost(h, e.client), e.server), Append(s, e))
  <1> DEFINE g == WithHost(WithHost(h, e.client), e.server)
             longer == Append(s, e)
             n == Len(s)
  <1>1. /\ DOMAIN g = DOMAIN h \cup {HostKey(e.client), HostKey(e.server)}
        /\ \A k \in DOMAIN h : g[k] = h[k]
        /\ HostKey(e.client) \notin DOMAIN h => g[HostKey(e.client)] = e.client
        /\ \/ HostKey(e.server) \in DOMAIN h
           \/ HostKey(e.server) = HostKey(e.client)
           \/ g[HostKey(e.server)] = e.server
    BY DEF WithHost
  <1>2. /\ n \in Nat /\ DOMAIN s = 1..n /\ DOMAIN longer = 1..(n + 1)
        /\ \A i \in 1..n : longer[i] = s[i]
        /\ longer[n + 1] = e
    OBVIOUS
  <1>3. /\ AddressesOf(longer) = AddressesOf(s) \cup {e.client, e.server}
        /\ \A i \in 1..(n + 1) : AddressesOf(SubSeq(longer, 1, i - 1)) \subseteq AddressesOf(s)
        /\ \A i \in 1..n : SubSeq(longer, 1, i - 1) = SubSeq(s, 1, i - 1)
    BY AddressesOfAppend
  <1> HIDE DEF g, longer, n
  <1>4. AllHaveHosts(g, longer)
    BY <1>1, <1>3 DEF AllHaveHosts
  <1>5. ASSUME NEW k \in DOMAIN g
        PROVE  \E i \in DOMAIN longer :
                   /\ g[k] \in {longer[i].client, longer[i].server}
                   /\ HostKey(g[k]) = k
                   /\ g[k] = longer[i].server /\ g[k] # longer[i].client
                         => HostKey(longer[i].client) # k
                   /\ \A a \in AddressesOf(SubSeq(longer, 1, i - 1)) : HostKey(a) # k
    <2>1. CASE k \in DOMAIN h
      <3>1. PICK i \in 1..n :
                /\ h[k] \in {s[i].client, s[i].server}
                /\ HostKey(h[k]) = k
                /\ h[k] = s[i].server /\ h[k] # s[i].client => HostKey(s[i].client) # k
                /\ \A a \in AddressesOf(SubSeq(s, 1, i - 1)) : HostKey(a) # k
        BY <1>2, <2>1 DEF KeyedByFirst
      <3>2. i \in DOMAIN longer
        BY <1>2
      <3> QED BY <1>1, <1>2, <1>3, <2>1, <3>1, <3>2
    <2>2. CASE k \notin DOMAIN h
      <3>1. n + 1 \in DOMAIN longer /\ n + 1 \in 1..(n + 1)
        BY <1>2
      <3>2. \A a \in AddressesOf(SubSeq(longer, 1, (n + 1) - 1)) : HostKey(a) # k
        BY <1>3, <2>2, <3>1 DEF AllHaveHosts
      <3>3. \/ k = HostKey(e.client) /\ g[k] = e.client
            \/ k = HostKey(e.server) /\ k # HostKey(e.client) /\ g[k] = e.server
        BY <1>1, <1>5, <2>2
      <3> QED BY <1>2, <3>1, <3>2, <3>3
    <2> QED BY <2>1, <2>2
  <1>6. KeyedByFirst(g, longer)
    BY <1>5 DEF KeyedByFirst
  <1> QED BY <1>4, <1>6 DEF g, longer

(* Sessions that the table ends with are a suffix of it.                    *)
LEMMA EndIsSuffix ==
    ASSUME NEW s \in Seq(Sessions), NEW t \in Seq(Sessions), Len(s) <= Len(t),
           \A i \in 1..Len(s) : s[i] = t[Len(t) - Len(s) + i]
    PROVE  IsSuffix(s, t)
  <1> DEFINE n == Len(s)
             m == Len(t)
             rs == Reverse(s)
             rt == Reverse(t)
  <1>1. n \in Nat /\ m \in Nat /\ n <= m /\ \A i \in 1..n : s[i] = t[m - n + i]
    OBVIOUS
  <1>2. /\ rs \in Seq(Sessions) /\ Len(rs) = n
        /\ \A i \in 1..n : rs[i] = s[(n - i) + 1]
    BY DEF Reverse
  <1>3. /\ rt \in Seq(Sessions) /\ Len(rt) = m
        /\ \A i \in 1..m : rt[i] = t[(m - i) + 1]
    BY DEF Reverse
  <1> HIDE DEF n, m, rs, rt
  <1>4. \A i \in 1..n : rs[i] = rt[i]
    <2> SUFFICES ASSUME NEW i \in 1..n PROVE rs[i] = rt[i]
      OBVIOUS
    <2> DEFINE j == (n - i) + 1
    <2>1. j \in 1..n /\ i \in 1..m /\ m - n + j = (m - i) + 1
      BY <1>1
    <2>2. rs[i] = s[j]
      BY <1>2
    <2> HIDE DEF j
    <2>3. s[j] = t[m - n + j]
      BY <1>1, <2>1
    <2>4. rt[i] = t[(m - i) + 1]
      BY <1>3, <2>1
    <2> QED BY <2>1, <2>2, <2>3, <2>4
  <1>5. SubSeq(rs, 1, Len(rs)) = SubSeq(rt, 1, Len(rs))
    BY <1>1, <1>2, <1>3, <1>4
  <1> QED BY <1>1, <1>2, <1>3, <1>5 DEF IsSuffix, IsPrefix, rs, rt

----------------------------------------------------------------------------
LEMMA InitWInv == Init => WInv
  <1> SUFFICES ASSUME Init PROVE WInv
    OBVIOUS
  <1>1. DOMAIN << >> = {} /\ DOMAIN sessions = {} /\ DOMAIN hosts = {}
    BY DEF Init
  <1>2. AddressesOf(sessions) = {}
    BY <1>1 DEF AddressesOf
  <1> QED BY <1>1, <1>2 DEF Init, WInv, KeyedByFirst, AllHaveHosts, ListingInv, WindowShowsLastLoad

(* What a step leaves alone of the handler keeps its hosts.                 *)
LEMMA HostsUntouched ==
    ASSUME WInv, UNCHANGED <<sessions, hosts>>
    PROVE  KeyedByFirst(hosts, sessions)' /\ AllHaveHosts(hosts, sessions)'
  <1>1. hosts' = hosts /\ sessions' = sessions
    OBVIOUS
  <1>2. KeyedByFirst(hosts', sessions') /\ AllHaveHosts(hosts', sessions')
    BY <1>1 DEF WInv
  <1> QED BY <1>2

(* A new handler has none.                                                  *)
LEMMA HostsStartEmpty ==
    ASSUME sessions' = << >>, hosts' = << >>
    PROVE  KeyedByFirst(hosts, sessions)' /\ AllHaveHosts(hosts, sessions)'
  <1>1. DOMAIN hosts' = {} /\ DOMAIN sessions' = {}
    OBVIOUS
  <1> QED BY <1>1 DEF KeyedByFirst, AllHaveHosts, AddressesOf

LEMMA LoadPcapShows ==
    ASSUME WInv, NEW opened \in Files, LoadPcap(opened)
    PROVE  WInv'
  <1>1. ListingInv' /\ WindowShowsLastLoad'
    BY DEF LoadPcap, ListingInv, WindowShowsLastLoad
  <1> QED BY <1>1, HostsStartEmpty DEF WInv, LoadPcap

LEMMA ReadFrameShows ==
    ASSUME IInv, WInv, ReadFrame
    PROVE  WInv'
  <1>1. ListingInv' /\ WindowShowsLastLoad'
    BY DEF ReadFrame, ListingInv, WindowShowsLastLoad
  <1>2. CASE HasLayer(file[next], {"ip"})
    <2>1. file \in Seq(Seq(Layers)) /\ next \in 1..Len(file) /\ Len(file) \in Nat
      BY FilesAssumption DEF IInv, TypeOK, ReadFrame
    <2>2. file[next] \in Seq(Layers)
      <3>1. \A S : \A q \in Seq(S) : \A i \in 1..Len(q) : q[i] \in S
        OBVIOUS
      <3> QED BY ONLY <2>1, <3>1
    <2> DEFINE session == SessionOf(file[next])
    <2>3. session \in Sessions
      BY <1>2, <2>2, SessionOfFacts
    <2>4. /\ hosts' = WithHost(WithHost(hosts, session.client), session.server)
          /\ sessions' = Append(sessions, session)
      BY <1>2 DEF ReadFrame
    <2>5. sessions \in Seq(Sessions) /\ KeyedByFirst(hosts, sessions) /\ AllHaveHosts(hosts, sessions)
      BY DEF IInv, TypeOK, WInv
    <2> HIDE DEF session
    <2>6. KeyedByFirst(hosts', sessions') /\ AllHaveHosts(hosts', sessions')
      BY <2>3, <2>4, <2>5, HostsKeepFirst
    <2> QED BY <1>1, <2>6 DEF WInv
  <1>3. CASE ~HasLayer(file[next], {"ip"})
    BY <1>1, <1>3, HostsUntouched DEF ReadFrame, WInv
  <1> QED BY <1>2, <1>3

(* Nothing of this load is in the table yet.                                *)
LEMMA EndReadingShows ==
    ASSUME IInv, WInv, EndReading
    PROVE  WInv'
  <1>1. /\ step' = "listing" /\ next' = 1 /\ sessions' = sessions /\ hosts' = hosts
        /\ sessionsTable' = sessionsTable
    BY DEF EndReading, handler, window
  <1>2. Len(sessions) \in Nat /\ Len(sessionsTable) \in Nat
    BY DEF IInv, TypeOK
  <1>3. ListingInv'
    BY <1>1, <1>2 DEF ListingInv, TableEndsWith
  <1> QED BY <1>1, <1>3, HostsUntouched DEF WInv, WindowShowsLastLoad

(* The table ends with one session more.                                    *)
LEMMA ListSessionShows ==
    ASSUME IInv, WInv, ListSession
    PROVE  WInv'
  <1>1. /\ step = "listing" /\ step' = "storing" /\ next' = next
        /\ sessions' = sessions /\ hosts' = hosts
        /\ sessionsTable' = Append(sessionsTable, sessions[next])
    BY DEF ListSession, handler
  <1>2. next \in 1..Len(sessions) /\ Len(sessions) \in Nat /\ sessions[next] \in Sessions
        /\ sessionsTable \in Seq(Sessions)
    BY DEF IInv, TypeOK, ListSession
  <1> DEFINE longer == Append(sessionsTable, sessions[next])
             m == Len(sessionsTable)
  <1>3. /\ m \in Nat /\ Len(longer) = m + 1 /\ longer[m + 1] = sessions[next]
        /\ \A i \in 1..m : longer[i] = sessionsTable[i]
    BY <1>2, AppendFacts
  <1>4. next - 1 <= m /\ \A i \in 1..(next - 1) : sessions[i] = sessionsTable[m - (next - 1) + i]
    BY <1>1 DEF WInv, ListingInv, TableEndsWith
  <1>5. sessionsTable' = longer
    BY <1>1
  <1> HIDE DEF longer, m
  <1>6. \A i \in 1..next : sessions[i] = longer[(m + 1) - next + i]
    <2> SUFFICES ASSUME NEW i \in 1..next PROVE sessions[i] = longer[(m + 1) - next + i]
      OBVIOUS
    <2>1. CASE i = next
      <3>1. (m + 1) - next + i = m + 1
        BY <1>2, <1>3, <2>1
      <3> QED BY <1>3, <2>1, <3>1
    <2>2. CASE i # next
      <3>1. i \in 1..(next - 1) /\ (m + 1) - next + i = m - (next - 1) + i
            /\ m - (next - 1) + i \in 1..m
        BY <1>2, <1>3, <1>4, <2>2
      <3> QED BY <1>3, <1>4, <3>1
    <2> QED BY <2>1, <2>2
  <1>7. TableEndsWith(next)'
    <2>1. next <= m + 1
      BY <1>2, <1>3, <1>4
    <2>2. next <= Len(longer) /\ \A i \in 1..next : sessions[i] = longer[Len(longer) - next + i]
      BY <1>3, <1>6, <2>1
    <2> QED BY <1>1, <1>5, <2>2 DEF TableEndsWith
  <1>8. ListingInv'
    BY <1>1, <1>7 DEF ListingInv
  <1> QED BY <1>1, <1>8, HostsUntouched DEF WInv, WindowShowsLastLoad

LEMMA InsertSessionShows ==
    ASSUME IInv, WInv, InsertSession
    PROVE  WInv'
  <1>1. /\ step = "storing" /\ step' = "listing" /\ next' = next + 1
        /\ sessions' = sessions /\ hosts' = hosts /\ sessionsTable' = sessionsTable
    BY DEF InsertSession, handler, window
  <1>2. next \in Nat /\ next <= Len(sessions) /\ Len(sessions) \in Nat /\ next' - 1 = next
    BY <1>1 DEF IInv, TypeOK
  <1>3. next' <= Len(sessions') + 1
    BY <1>1, <1>2
  <1>4. TableEndsWith(next)
    BY <1>1 DEF WInv, ListingInv
  <1>5. TableEndsWith(next - 1)'
    BY <1>1, <1>2, <1>4 DEF TableEndsWith
  <1>6. ListingInv'
    BY <1>1, <1>3, <1>5 DEF ListingInv
  <1> QED BY <1>1, <1>6, HostsUntouched DEF WInv, WindowShowsLastLoad

(* All sessions are in the table, and the tree gets the handler's hosts.    *)
LEMMA ShowHostsShows ==
    ASSUME IInv, WInv, ShowHosts
    PROVE  WInv'
  <1>1. /\ step = "listing" /\ step' = "idle"
        /\ sessions' = sessions /\ hosts' = hosts /\ sessionsTable' = sessionsTable
        /\ hostsTree' = {hosts[k] : k \in DOMAIN hosts}
    BY DEF ShowHosts, handler
  <1>2. next = Len(sessions) + 1 /\ next - 1 = Len(sessions)
        /\ sessions \in Seq(Sessions) /\ sessionsTable \in Seq(Sessions)
    BY <1>1 DEF IInv, TypeOK, WInv, ListingInv, ShowHosts
  <1>3. IsSuffix(sessions, sessionsTable)
    <2>1. TableEndsWith(Len(sessions))
      BY <1>1, <1>2 DEF WInv, ListingInv
    <2> QED BY <1>2, <2>1, EndIsSuffix DEF TableEndsWith
  <1>4. \A k \in DOMAIN hosts : hosts[k] \in AddressesOf(sessions) /\ HostKey(hosts[k]) = k
    BY DEF WInv, KeyedByFirst, AddressesOf
  <1>5. \A a \in AddressesOf(sessions) : HostKey(a) \in DOMAIN hosts
    BY DEF WInv, AllHaveHosts
  <1> DEFINE tree == {hosts[k] : k \in DOMAIN hosts}
  <1>6. /\ tree \subseteq AddressesOf(sessions)
        /\ \A a \in AddressesOf(sessions) : \E h \in tree : HostKey(h) = HostKey(a)
        /\ \A g, h \in tree : HostKey(g) = HostKey(h) => g = h
    BY <1>4, <1>5
  <1>7. hostsTree' = tree
    BY <1>1
  <1> HIDE DEF tree
  <1>8. WindowShowsLastLoad'
    <2>1. IsSuffix(sessions', sessionsTable') /\ AddressesOf(sessions') = AddressesOf(sessions)
      BY <1>1, <1>3
    <2> QED BY <1>6, <1>7, <2>1 DEF WindowShowsLastLoad
  <1> QED BY <1>1, <1>8, HostsUntouched DEF WInv, ListingInv

LEMMA OnClearShows ==
    ASSUME WInv, OnClear
    PROVE  WInv'
  <1>1. step' = "idle" /\ sessionsTable' = << >> /\ hostsTree' = {}
        /\ sessions' = sessions /\ hosts' = hosts
    BY DEF OnClear, handler
  <1> QED BY <1>1, HostsUntouched DEF WInv, ListingInv, WindowShowsLastLoad

LEMMA RestartShows ==
    ASSUME Restart
    PROVE  WInv'
  <1>1. step' = "idle" /\ sessionsTable' = << >> /\ hostsTree' = {}
        /\ sessions' = << >> /\ hosts' = << >>
    BY DEF Restart
  <1> QED BY <1>1, HostsStartEmpty DEF WInv, ListingInv, WindowShowsLastLoad

LEMMA StutterShows ==
    ASSUME WInv, UNCHANGED vars
    PROVE  WInv'
  <1>1. /\ step' = step /\ next' = next /\ sessions' = sessions /\ hosts' = hosts
        /\ sessionsTable' = sessionsTable /\ hostsTree' = hostsTree
    BY DEF vars, window, handler
  <1>2. ListingInv'
    BY <1>1 DEF WInv, ListingInv, TableEndsWith
  <1>3. WindowShowsLastLoad'
    BY <1>1 DEF WInv, WindowShowsLastLoad
  <1> QED BY <1>1, <1>2, <1>3, HostsUntouched DEF WInv

LEMMA WInvariance == Spec => []WInv
  <1>1. IInv /\ WInv /\ [Next]_vars => WInv'
    <2> SUFFICES ASSUME IInv, WInv, [Next]_vars PROVE WInv'
      OBVIOUS
    <2>1. CASE \E opened \in Files : LoadPcap(opened)
      BY <2>1, LoadPcapShows
    <2>2. CASE ReadFrame
      BY <2>2, ReadFrameShows
    <2>3. CASE EndReading
      BY <2>3, EndReadingShows
    <2>4. CASE ListSession
      BY <2>4, ListSessionShows
    <2>5. CASE InsertSession
      BY <2>5, InsertSessionShows
    <2>6. CASE ShowHosts
      BY <2>6, ShowHostsShows
    <2>7. CASE OnClear
      BY <2>7, OnClearShows
    <2>8. CASE Restart
      BY <2>8, RestartShows
    <2>9. CASE UNCHANGED vars
      BY <2>9, StutterShows
    <2> QED BY <2>1, <2>2, <2>3, <2>4, <2>5, <2>6, <2>7, <2>8, <2>9 DEF Next
  <1> QED BY <1>1, InitWInv, Invariance, PTL DEF Spec

(* Whatever the files hold and however addresses share keys, the host of a  *)
(* key is the first address of this load that had it.                       *)
THEOREM HostsStayFirst == Spec => []FirstAddressStays
  <1>1. WInv => FirstAddressStays
    BY DEF WInv, KeyedByFirst, FirstAddressStays
  <1> QED BY <1>1, WInvariance, PTL

(* Between loads the window shows the last load's sessions, at the end of   *)
(* the table, and its hosts alone; or nothing.                              *)
THEOREM WindowIsCurrent == Spec => []WindowShowsLastLoad
  <1>1. WInv => WindowShowsLastLoad
    BY DEF WInv
  <1> QED BY <1>1, WInvariance, PTL
=============================================================================

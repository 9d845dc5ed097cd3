------------------------ MODULE FileTransfers_proofs ------------------------
(***************************************************************************)
(* Proofs about the file assembler and two handlers that feed it: TFTP's,  *)
(* and FTP's, which FileSessions has as an instance.                       *)
(***************************************************************************)
EXTENDS TftpTransfer, FileSessions, SequenceFacts

----------------------------------------------------------------------------
(* Numbers and sequences.                                                   *)

LEMMA LeastOfSet ==
    ASSUME NEW S \in SUBSET Nat, S # {}
    PROVE  Min(S) \in S
  <1>1. \E i \in S : \A j \in S : i <= j
    BY LeastNumber
  <1> QED BY <1>1 DEF Min

(* A finite set of numbers has an i-th one.                                 *)
LEMMA RankedNumber ==
    ASSUME NEW S \in SUBSET Nat, IsFiniteSet(S), NEW i \in 1..Cardinality(S)
    PROVE  \E n \in S : Cardinality({m \in S : m < n}) = i - 1
  <1> DEFINE Below(n) == {m \in S : m < n}
             Ranked(j) == \E n \in S : Cardinality(Below(n)) = j - 1
             bad == {j \in 1..Cardinality(S) : ~Ranked(j)}
  <1>0. Cardinality(S) \in Nat
    BY FS_CardinalityType
  <1>1. SUFFICES ASSUME bad # {} PROVE FALSE
    OBVIOUS
  <1>2. PICK j \in bad : \A k \in bad : j <= k
    <2>1. bad \in SUBSET Nat
      OBVIOUS
    <2> HIDE DEF bad
    <2> QED BY <1>1, <2>1, LeastNumber
  <1>3. j \in 1..Cardinality(S) /\ ~Ranked(j) /\ j \in Nat
    OBVIOUS
  <1>4. CASE j = 1
    <2>1. S # {}
      BY <1>0, <1>3, FS_EmptySet
    <2>2. PICK n \in S : \A m \in S : n <= m
      BY <2>1, LeastNumber
    <2>3. Below(n) = {}
      <3>1. n \in Nat /\ \A m \in S : m \in Nat /\ n <= m
        BY <2>2
      <3>2. ASSUME NEW m \in S PROVE ~(m < n)
        BY <3>1
      <3> QED BY <3>2
    <2>4. Cardinality(Below(n)) = 0
      BY <2>3, FS_EmptySet
    <2> HIDE DEF Below
    <2> QED BY <1>3, <1>4, <2>4
  <1>5. CASE j > 1
    <2>1. j - 1 \in 1..Cardinality(S) /\ j - 1 < j
      BY <1>0, <1>3, <1>5
    <2>2. Ranked(j - 1)
      <3>1. j - 1 \notin bad
        <4> HIDE DEF bad
        <4> QED BY <1>2, <1>3, <2>1
      <3> HIDE DEF Ranked
      <3> QED BY <2>1, <3>1
    <2>3. PICK n \in S : Cardinality(Below(n)) = (j - 1) - 1
      BY <2>2
    <2> DEFINE Upper == S \ (Below(n) \cup {n})
    <2>4. /\ IsFiniteSet(Below(n)) /\ n \notin Below(n)
          /\ IsFiniteSet(Below(n) \cup {n}) /\ Below(n) \cup {n} \subseteq S
          /\ Cardinality(Below(n) \cup {n}) = j - 1
      <3>1. Below(n) \in SUBSET S /\ n \notin Below(n)
        OBVIOUS
      <3> HIDE DEF Below
      <3>2. IsFiniteSet(Below(n)) /\ Cardinality(Below(n)) \in Nat
        BY <3>1, FS_Subset, FS_CardinalityType
      <3>3. /\ IsFiniteSet(Below(n) \cup {n})
            /\ Cardinality(Below(n) \cup {n}) = Cardinality(Below(n)) + 1
        BY <3>1, <3>2, FS_AddElement
      <3> QED BY <1>3, <2>3, <3>1, <3>2, <3>3
    <2>5. Upper # {}
      <3> HIDE DEF Below
      <3> SUFFICES ASSUME Upper = {} PROVE FALSE
        OBVIOUS
      <3>1. S = Below(n) \cup {n}
        BY <2>4
      <3> QED BY <1>0, <1>3, <2>4, <3>1
    <2>6. PICK u \in Upper : \A m \in Upper : u <= m
      <3>1. Upper \in SUBSET Nat
        OBVIOUS
      <3> HIDE DEF Upper
      <3> QED BY <2>5, <3>1, LeastNumber
    <2>7. u \in S /\ Below(u) = Below(n) \cup {n}
      <3>1. u \in S /\ u \in Nat /\ n \in Nat /\ n < u
        OBVIOUS
      <3>2. ASSUME NEW m \in S PROVE m < u <=> m < n \/ m = n
        <4>1. m \in Nat
          OBVIOUS
        <4>2. m \in Upper <=> ~(m < n) /\ m # n
          OBVIOUS
        <4> HIDE DEF Upper
        <4> QED BY <2>6, <3>1, <4>1, <4>2
      <3> QED BY <3>1, <3>2
    <2>8. Cardinality(Below(u)) = j - 1
      BY <2>4, <2>7
    <2> HIDE DEF Below
    <2> QED BY <1>3, <2>7, <2>8
  <1> QED BY <1>3, <1>4, <1>5

(* The pieces of a window come out of it, each once and no other.           *)
IsWindow(window, P) ==
    /\ DOMAIN window \in SUBSET Nat /\ IsFiniteSet(DOMAIN window)
    /\ \A n \in DOMAIN window : window[n] \in P

LEMMA InOrderPieces ==
    ASSUME NEW P, NEW window, IsWindow(window, P)
    PROVE  /\ InOrder(window) \in Seq(P)
           /\ Len(InOrder(window)) = Cardinality(DOMAIN window)
           /\ \A i \in 1..Len(InOrder(window)) :
                 \E n \in DOMAIN window : InOrder(window)[i] = window[n]
  <1> DEFINE size == Cardinality(DOMAIN window)
  <1>1. size \in Nat
    BY FS_CardinalityType DEF IsWindow
  <1>2. ASSUME NEW i \in 1..size PROVE NumberAt(window, i) \in DOMAIN window
    <2>1. \E n \in DOMAIN window : Cardinality({m \in DOMAIN window : m < n}) = i - 1
      BY RankedNumber DEF IsWindow
    <2> QED BY <2>1 DEF NumberAt
  <1>3. InOrder(window) = [i \in 1..size |-> window[NumberAt(window, i)]]
    BY DEF InOrder
  <1> HIDE DEF size
  <1>4. \A i \in 1..size : window[NumberAt(window, i)] \in P
    BY <1>2 DEF IsWindow
  <1>5. InOrder(window) \in Seq(P) /\ Len(InOrder(window)) = size
    BY <1>1, <1>3, <1>4
  <1> QED BY <1>1, <1>2, <1>3, <1>5 DEF size

(* What is written over a file from a position inside it.                   *)
LEMMA OverwrittenFacts ==
    ASSUME NEW P, NEW old \in Seq(P), NEW pieces \in Seq(P), NEW position \in 0..Len(old)
    PROVE  /\ Overwritten(old, position, pieces) \in Seq(P)
           /\ Len(Overwritten(old, position, pieces)) \in Nat
           /\ Len(old) <= Len(Overwritten(old, position, pieces))
           /\ position + Len(pieces) <= Len(Overwritten(old, position, pieces))
           /\ \A i \in 1..Len(Overwritten(old, position, pieces)) :
                 \/ \E j \in 1..Len(pieces) : Overwritten(old, position, pieces)[i] = pieces[j]
                 \/ \E j \in 1..Len(old) : Overwritten(old, position, pieces)[i] = old[j]
  <1> DEFINE l == Max({Len(old), position + Len(pieces)})
             new(i) == IF i \in position + 1 .. position + Len(pieces)
                       THEN pieces[i - position] ELSE old[i]
  <1>1. Len(old) \in Nat /\ Len(pieces) \in Nat /\ position \in Nat
    OBVIOUS
  <1>2. /\ l \in Nat /\ Len(old) <= l /\ position + Len(pieces) <= l
        /\ l = Len(old) \/ l = position + Len(pieces)
    <2>1. position + Len(pieces) \in Nat
      BY <1>1
    <2> QED BY <1>1, <2>1, GreaterOfTwo
  <1>3. Overwritten(old, position, pieces) = [i \in 1..l |-> new(i)]
    BY DEF Overwritten
  <1> HIDE DEF l
  <1>4. ASSUME NEW i \in 1..l
        PROVE  \/ \E j \in 1..Len(pieces) : new(i) = pieces[j]
               \/ \E j \in 1..Len(old) : new(i) = old[j]
    <2>1. CASE i \in position + 1 .. position + Len(pieces)
      <3>1. i - position \in 1..Len(pieces)
        BY <1>1, <2>1
      <3> QED BY <2>1, <3>1
    <2>2. CASE ~(i \in position + 1 .. position + Len(pieces))
      <3>1. i \in 1..Len(old)
        BY <1>1, <1>2, <2>2
      <3> QED BY <2>2, <3>1
    <2> QED BY <2>1, <2>2
  <1>5. \A i \in 1..l : new(i) \in P
    BY <1>4
  <1> HIDE DEF new
  <1>6. [i \in 1..l |-> new(i)] \in Seq(P) /\ Len([i \in 1..l |-> new(i)]) = l
    BY <1>2, <1>5
  <1> QED BY <1>2, <1>3, <1>4, <1>6

----------------------------------------------------------------------------
(* An assembler and the disk.                                               *)

Sizes == {t.parsed : t \in Transfers} \cup {DefaultBlksize}
Pieces ==
    {piece \in {Piece(t, n, b) : t \in Transfers, n \in Nat, b \in Sizes} :
        piece.number \in 1..piece.transfer.blocks /\ piece.size > 0}

IsAssembler(a) ==
    /\ DOMAIN a = {"tuple", "type", "name", "active", "stream", "open", "position", "window",
                   "content", "remaining", "assembled"}
    /\ a.type = "TFTP" /\ a.name \in Transfers
    /\ a.active \in BOOLEAN /\ a.open \in BOOLEAN
    /\ a.stream \in Nat /\ a.position \in Nat
    /\ a.stream = 0 => ~a.open /\ a.position = 0
    /\ IsWindow(a.window, Pieces)

\* Each temporary file has one name and was not published, and each published
\* file was published once.
IsDisk(d) ==
    /\ DOMAIN d = {"files", "cache", "output"}
    /\ d.files \in Seq(Seq(Pieces))
    /\ d.output \in Seq([name : Transfers, file : Nat])
    /\ \A k \in DOMAIN d.cache : d.cache[k] \in 1..Len(d.files)
    /\ \A j, k \in DOMAIN d.cache : d.cache[j] = d.cache[k] => j = k
    /\ \A i \in 1..Len(d.output) : d.output[i].file \in 1..Len(d.files)
    /\ \A i, j \in 1..Len(d.output) : d.output[i].file = d.output[j].file => i = j
    /\ \A i \in 1..Len(d.output), k \in DOMAIN d.cache : d.output[i].file # d.cache[k]

\* An open stream is that of the temporary file, and stands inside it.
Backed(a, d) ==
    a.open => /\ a.tuple \in DOMAIN d.cache /\ a.stream = d.cache[a.tuple]
              /\ a.position <= Len(d.files[a.stream])

\* What was published stays, and other tuples' temporary files do.
Published(d, e) ==
    /\ Len(d.output) <= Len(e.output)
    /\ \A i \in 1..Len(d.output) :
          e.output[i] = d.output[i] /\ e.files[d.output[i].file] = d.files[d.output[i].file]
Elsewhere(d, e, tuple) ==
    /\ DOMAIN d.cache \ {tuple} = DOMAIN e.cache \ {tuple}
    /\ \A k \in DOMAIN d.cache \ {tuple} :
          e.cache[k] = d.cache[k] /\ e.files[d.cache[k]] = d.files[d.cache[k]]

\* The files with a piece of a transfer, and the transfers of a window's pieces.
FilesWith(d, t) ==
    {f \in DOMAIN d.files : \E j \in DOMAIN d.files[f] : d.files[f][j].transfer = t}
TransfersIn(window) == {window[n].transfer : n \in DOMAIN window}

\* From an assembler and the disk to what a call makes of them, when all pieces
\* at hand are of these transfers: an assembler keeps its stream, and pieces go
\* to no other one.
Onward(a, d, b, e, ts) ==
    /\ IsAssembler(b) /\ IsDisk(e) /\ Backed(b, e)
    /\ b.tuple = a.tuple /\ (a.stream # 0 => b.stream = a.stream)
    /\ TransfersIn(b.window) \subseteq ts
    /\ Published(d, e) /\ Elsewhere(d, e, a.tuple)
    /\ \A t \in Transfers : \A f \in FilesWith(e, t) \ FilesWith(d, t) : f = b.stream /\ t \in ts

LEMMA PublishedAgain ==
    ASSUME NEW d, NEW e, NEW f, IsDisk(d), IsDisk(e), IsDisk(f), Published(d, e), Published(e, f)
    PROVE  Published(d, f)
  <1>1. Len(d.output) \in Nat /\ Len(e.output) \in Nat /\ Len(f.output) \in Nat
    BY DEF IsDisk
  <1>2. Len(d.output) <= Len(f.output)
    BY <1>1 DEF Published
  <1>3. ASSUME NEW i \in 1..Len(d.output)
        PROVE  /\ f.output[i] = d.output[i]
               /\ f.files[d.output[i].file] = d.files[d.output[i].file]
    <2>1. i \in 1..Len(e.output)
      BY <1>1 DEF Published
    <2> QED BY <1>1, <2>1 DEF Published
  <1> QED BY <1>2, <1>3 DEF Published

LEMMA OnwardAgain ==
    ASSUME NEW a, NEW b, NEW c, NEW d, NEW e, NEW f, NEW ts, IsDisk(d),
           Onward(a, d, b, e, ts), Onward(b, e, c, f, ts)
    PROVE  Onward(a, d, c, f, ts)
  <1>1. /\ IsAssembler(c) /\ IsDisk(f) /\ Backed(c, f)
        /\ c.tuple = a.tuple /\ (a.stream # 0 => c.stream = a.stream)
        /\ TransfersIn(c.window) \subseteq ts
    BY DEF Onward
  <1>2. Published(d, f)
    <2>1. IsDisk(d) /\ IsDisk(e) /\ IsDisk(f) /\ Published(d, e) /\ Published(e, f)
      BY DEF Onward
    <2> QED BY <2>1, PublishedAgain
  <1>3. Elsewhere(d, f, a.tuple)
    BY DEF Onward, Elsewhere
  <1>4. ASSUME NEW t \in Transfers, NEW g \in FilesWith(f, t) \ FilesWith(d, t)
        PROVE  g = c.stream /\ t \in ts
    <2>1. CASE g \in FilesWith(e, t)
      <3>1. g = b.stream /\ t \in ts
        BY <2>1 DEF Onward
      <3>2. g # 0
        <4>1. g \in DOMAIN e.files /\ e.files \in Seq(Seq(Pieces))
          BY <2>1 DEF FilesWith, Onward, IsDisk
        <4> QED BY <4>1
      <3> QED BY <3>1, <3>2 DEF Onward
    <2>2. CASE g \notin FilesWith(e, t)
      BY <2>2 DEF Onward
    <2> QED BY <2>1, <2>2
  <1> QED BY <1>1, <1>2, <1>3, <1>4 DEF Onward

LEMMA OnwardNothing ==
    ASSUME NEW a, NEW d, NEW ts, IsAssembler(a), IsDisk(d), Backed(a, d),
           TransfersIn(a.window) \subseteq ts
    PROVE  Onward(a, d, a, d, ts)
  <1>1. Len(d.output) \in Nat
    BY DEF IsDisk
  <1> QED BY <1>1 DEF Onward, Published, Elsewhere

\* The assembler changes, but neither its stream nor the disk does.
LEMMA OnwardMarked ==
    ASSUME NEW a, NEW d, NEW b, NEW ts, IsAssembler(a), IsDisk(d), Backed(a, d), IsAssembler(b),
           b.tuple = a.tuple, b.stream = a.stream, b.position = a.position,
           b.open => a.open, TransfersIn(b.window) \subseteq ts
    PROVE  Onward(a, d, b, d, ts)
  <1>1. Len(d.output) \in Nat
    BY DEF IsDisk
  <1>2. Backed(b, d)
    BY DEF Backed
  <1> QED BY <1>1, <1>2 DEF Onward, Published, Elsewhere

PiecesOf(pieces, ts) ==
    pieces \in Seq(Pieces) /\ \A i \in 1..Len(pieces) : pieces[i].transfer \in ts

LEMMA WriteOnward ==
    ASSUME NEW a, NEW d, NEW ts, IsAssembler(a), IsDisk(d), Backed(a, d),
           TransfersIn(a.window) \subseteq ts, NEW pieces, PiecesOf(pieces, ts)
    PROVE  LET r == Write(a, d, pieces)
           IN  /\ Onward(a, d, r.assembler, r.disk, ts)
               /\ r.assembler.window = a.window /\ r.assembler.type = a.type
               /\ r.assembler.active = a.active /\ r.assembler.open = a.open
               /\ r.disk.cache = d.cache /\ r.disk.output = d.output
  <1>1. CASE ~a.open
    <2>1. Write(a, d, pieces) = [assembler |-> a, disk |-> d]
      BY <1>1 DEF Write, Result
    <2>2. Onward(a, d, a, d, ts)
      BY OnwardNothing
    <2> QED BY <2>1, <2>2
  <1>2. CASE a.open
    <2> DEFINE s == a.stream
               old == d.files[s]
               new == Overwritten(old, a.position, pieces)
               b == [a EXCEPT !.position = a.position + Len(pieces)]
               files == [d.files EXCEPT ![s] = new]
               e == [d EXCEPT !.files = files]
    <2>1. Write(a, d, pieces) = [assembler |-> b, disk |-> e]
      BY <1>2 DEF Write, Result
    <2>2. /\ a.tuple \in DOMAIN d.cache /\ s = d.cache[a.tuple] /\ s \in 1..Len(d.files)
          /\ a.position <= Len(old) /\ a.position \in Nat
      BY <1>2 DEF Backed, IsDisk, IsAssembler
    <2>3. d.files \in Seq(Seq(Pieces)) /\ old \in Seq(Pieces) /\ Len(old) \in Nat /\ Len(d.files) \in Nat
      BY <2>2 DEF IsDisk
    <2>4. /\ new \in Seq(Pieces) /\ Len(new) \in Nat /\ Len(old) <= Len(new)
          /\ a.position + Len(pieces) <= Len(new)
          /\ \A i \in 1..Len(new) : \/ \E j \in 1..Len(pieces) : new[i] = pieces[j]
                                    \/ \E j \in 1..Len(old) : new[i] = old[j]
      <3>1. a.position \in 0..Len(old)
        BY <2>2, <2>3
      <3>2. pieces \in Seq(Pieces) /\ old \in Seq(Pieces)
        BY <2>3 DEF PiecesOf
      <3> DEFINE p == a.position
      <3>3. p \in 0..Len(old) /\ new = Overwritten(old, p, pieces)
        BY <3>1 DEF new
      <3> HIDE DEF old, p, new
      <3>4. /\ Overwritten(old, p, pieces) \in Seq(Pieces)
            /\ Len(Overwritten(old, p, pieces)) \in Nat
            /\ Len(old) <= Len(Overwritten(old, p, pieces))
            /\ p + Len(pieces) <= Len(Overwritten(old, p, pieces))
            /\ \A i \in 1..Len(Overwritten(old, p, pieces)) :
                 \/ \E j \in 1..Len(pieces) : Overwritten(old, p, pieces)[i] = pieces[j]
                 \/ \E j \in 1..Len(old) : Overwritten(old, p, pieces)[i] = old[j]
        BY ONLY <3>2, <3>3, OverwrittenFacts
      <3> QED BY ONLY <3>3, <3>4 DEF p
    <2> HIDE DEF new, old
    <2>5. /\ files \in Seq(Seq(Pieces)) /\ Len(files) = Len(d.files) /\ DOMAIN files = 1..Len(d.files)
          /\ files[s] = new /\ \A f \in 1..Len(d.files) : f # s => files[f] = d.files[f]
      BY <2>2, <2>3, <2>4
    <2> HIDE DEF files
    <2>6. /\ DOMAIN e = {"files", "cache", "output"} /\ e.files = files
          /\ e.cache = d.cache /\ e.output = d.output
      BY DEF IsDisk
    <2>7. /\ IsAssembler(b) /\ b.tuple = a.tuple /\ b.stream = s /\ b.open = a.open
          /\ b.position = a.position + Len(pieces) /\ b.window = a.window /\ b.type = a.type
          /\ b.active = a.active
      BY <2>2 DEF IsAssembler
    <2> HIDE DEF e, b
    <2>8. IsDisk(e)
      BY <2>5, <2>6 DEF IsDisk
    <2>9. Backed(b, e)
      BY <2>2, <2>4, <2>5, <2>6, <2>7 DEF Backed
    <2>10. Published(d, e)
      <3>1. Len(d.output) \in Nat
        BY DEF IsDisk
      <3>2. \A i \in 1..Len(d.output) : d.output[i].file # s /\ d.output[i].file \in 1..Len(d.files)
        BY <2>2 DEF IsDisk
      <3> QED BY <2>5, <2>6, <3>1, <3>2 DEF Published
    <2>11. Elsewhere(d, e, a.tuple)
      <3>1. \A k \in DOMAIN d.cache \ {a.tuple} : d.cache[k] # s /\ d.cache[k] \in 1..Len(d.files)
        BY <2>2 DEF IsDisk
      <3> QED BY <2>5, <2>6, <3>1 DEF Elsewhere
    <2>12. ASSUME NEW t \in Transfers, NEW f \in FilesWith(e, t) \ FilesWith(d, t)
           PROVE  f = s /\ t \in ts
      <3>1. f \in 1..Len(d.files) /\ \E j \in DOMAIN files[f] : files[f][j].transfer = t
        BY <2>5, <2>6 DEF FilesWith
      <3>2. DOMAIN d.files = 1..Len(d.files)
        BY <2>3
      <3>3. f = s
        BY <2>5, <3>1, <3>2 DEF FilesWith
      <3>4. PICK i \in 1..Len(new) : new[i].transfer = t
        BY <2>4, <2>5, <3>1, <3>3
      <3>5. CASE \E j \in 1..Len(pieces) : new[i] = pieces[j]
        BY <3>3, <3>4, <3>5 DEF PiecesOf
      <3>6. CASE \E j \in 1..Len(old) : new[i] = old[j]
        <4>1. PICK j \in DOMAIN old : old[j].transfer = t
          BY <2>3, <3>4, <3>6
        <4>2. f \in FilesWith(d, t)
          BY <2>2, <3>2, <3>3, <4>1 DEF FilesWith, old
        <4> QED BY <4>2
      <3> QED BY <2>4, <3>5, <3>6
    <2>13. Onward(a, d, b, e, ts)
      BY <2>7, <2>8, <2>9, <2>10, <2>11, <2>12 DEF Onward
    <2> QED BY <2>1, <2>6, <2>7, <2>13
  <1> QED BY <1>1, <1>2 DEF IsAssembler

LEMMA TryActivateOnward ==
    ASSUME NEW a, NEW d, NEW ts, IsAssembler(a), IsDisk(d), Backed(a, d),
           TransfersIn(a.window) \subseteq ts
    PROVE  LET r == TryActivate(a, d)
           IN  Onward(a, d, r.assembler, r.disk, ts) /\ r.assembler.window = a.window
  <1>1. CASE a.stream # 0
    <2> DEFINE b == [a EXCEPT !.active = TRUE]
    <2>1. TryActivate(a, d) = [assembler |-> b, disk |-> d]
      BY <1>1 DEF TryActivate, Result
    <2>2. /\ IsAssembler(b) /\ b.tuple = a.tuple /\ b.stream = a.stream /\ b.open = a.open
          /\ b.position = a.position /\ b.window = a.window
      BY DEF IsAssembler
    <2> HIDE DEF b
    <2>3. Onward(a, d, b, d, ts)
      BY <2>2, OnwardMarked
    <2> QED BY <2>1, <2>2, <2>3
  <1>2. CASE a.stream = 0 /\ a.tuple \in DOMAIN d.cache
    <2> DEFINE b == [a EXCEPT !.active = TRUE, !.stream = d.cache[a.tuple], !.open = TRUE]
    <2>1. TryActivate(a, d) = [assembler |-> b, disk |-> d]
      BY <1>2 DEF TryActivate, Opened, Result
    <2>2. d.cache[a.tuple] \in 1..Len(d.files) /\ d.files[d.cache[a.tuple]] \in Seq(Pieces)
      BY <1>2 DEF IsDisk
    <2>3. /\ IsAssembler(b) /\ b.tuple = a.tuple /\ b.stream = d.cache[a.tuple]
          /\ b.position = 0 /\ b.window = a.window
      BY <1>2, <2>2 DEF IsAssembler
    <2> HIDE DEF b
    <2>4. Backed(b, d)
      <3>1. Len(d.files[d.cache[a.tuple]]) >= 0
        BY <2>2
      <3> QED BY <1>2, <2>3, <3>1 DEF Backed
    <2>5. Len(d.output) \in Nat
      BY DEF IsDisk
    <2>6. Onward(a, d, b, d, ts)
      BY <1>2, <2>3, <2>4, <2>5 DEF Onward, Published, Elsewhere
    <2> QED BY <2>1, <2>3, <2>6
  <1>3. CASE a.stream = 0 /\ a.tuple \notin DOMAIN d.cache
    <2> DEFINE n == Len(d.files) + 1
               b == [a EXCEPT !.active = TRUE, !.stream = n, !.open = TRUE]
               files == Append(d.files, << >>)
               cache == Put(d.cache, a.tuple, n)
               e == [d EXCEPT !.files = files, !.cache = cache]
    <2>1. TryActivate(a, d) = [assembler |-> b, disk |-> e]
      BY <1>3 DEF TryActivate, Opened, Result
    <2>2. d.files \in Seq(Seq(Pieces)) /\ Len(d.files) \in Nat /\ << >> \in Seq(Pieces)
      BY DEF IsDisk
    <2>3. /\ files \in Seq(Seq(Pieces)) /\ Len(files) = n /\ files[n] = << >>
          /\ \A f \in 1..Len(d.files) : files[f] = d.files[f]
      BY <2>2, AppendFacts
    <2>4. /\ DOMAIN cache = DOMAIN d.cache \cup {a.tuple} /\ cache[a.tuple] = n
          /\ \A k \in DOMAIN d.cache : cache[k] = d.cache[k]
      BY <1>3 DEF Put
    <2>5. /\ IsAssembler(b) /\ b.tuple = a.tuple /\ b.stream = n
          /\ b.position = 0 /\ b.window = a.window
      BY <1>3, <2>2 DEF IsAssembler
    <2>6. /\ DOMAIN e = {"files", "cache", "output"} /\ e.files = files
          /\ e.cache = cache /\ e.output = d.output
      BY DEF IsDisk
    <2> HIDE DEF b, files, cache, e
    <2>7. IsDisk(e)
      <3>1. \A k \in DOMAIN cache : cache[k] \in 1..n
        BY <2>2, <2>4 DEF IsDisk
      <3>2. \A k \in DOMAIN d.cache : cache[k] # n
        BY <2>2, <2>4 DEF IsDisk
      <3>3. \A j, k \in DOMAIN cache : cache[j] = cache[k] => j = k
        BY <2>4, <3>2 DEF IsDisk
      <3>4. \A i \in 1..Len(d.output) : d.output[i].file \in 1..n /\ d.output[i].file # n
        BY <2>2 DEF IsDisk
      <3>5. \A i \in 1..Len(d.output), k \in DOMAIN cache : d.output[i].file # cache[k]
        BY <2>4, <3>4 DEF IsDisk
      <3> HIDE DEF n
      <3> QED BY <2>3, <2>6, <3>1, <3>3, <3>4, <3>5 DEF IsDisk
    <2>8. Backed(b, e)
      BY <2>3, <2>4, <2>5, <2>6 DEF Backed
    <2>9. Published(d, e)
      <3>1. Len(d.output) \in Nat /\ \A i \in 1..Len(d.output) : d.output[i].file \in 1..Len(d.files)
        BY DEF IsDisk
      <3> QED BY <2>3, <2>6, <3>1 DEF Published
    <2>10. Elsewhere(d, e, a.tuple)
      <3>1. \A k \in DOMAIN d.cache : d.cache[k] \in 1..Len(d.files)
        BY DEF IsDisk
      <3> QED BY <1>3, <2>3, <2>4, <2>6, <3>1 DEF Elsewhere
    <2>11. \A t \in Transfers : FilesWith(e, t) \subseteq FilesWith(d, t)
      <3> SUFFICES ASSUME NEW t \in Transfers, NEW f \in FilesWith(e, t) PROVE f \in FilesWith(d, t)
        OBVIOUS
      <3>1. f \in 1..n /\ \E j \in DOMAIN files[f] : files[f][j].transfer = t
        BY <2>3, <2>6 DEF FilesWith
      <3>2. DOMAIN << >> = {} /\ DOMAIN d.files = 1..Len(d.files)
        BY <2>2
      <3>3. f \in 1..Len(d.files)
        BY <2>2, <2>3, <3>1, <3>2
      <3> QED BY <2>3, <3>1, <3>2, <3>3 DEF FilesWith
    <2>12. Onward(a, d, b, e, ts)
      BY <1>3, <2>5, <2>7, <2>8, <2>9, <2>10, <2>11 DEF Onward
    <2> QED BY <2>1, <2>5, <2>12
  <1> QED BY <1>1, <1>2, <1>3

\* A temporary file that loses its name, to be published or not.
LEMMA WithoutCache ==
    ASSUME NEW d, IsDisk(d), NEW tuple
    PROVE  LET e == [d EXCEPT !.cache = Without(d.cache, tuple)]
           IN  /\ IsDisk(e) /\ Published(d, e) /\ Elsewhere(d, e, tuple)
               /\ e.files = d.files /\ tuple \notin DOMAIN e.cache
               /\ DOMAIN e.cache \subseteq DOMAIN d.cache
  <1> DEFINE cache == Without(d.cache, tuple)
             e == [d EXCEPT !.cache = cache]
  <1>1. DOMAIN cache = DOMAIN d.cache \ {tuple} /\ \A k \in DOMAIN cache : cache[k] = d.cache[k]
    BY DEF Without
  <1>2. /\ DOMAIN e = {"files", "cache", "output"} /\ e.files = d.files
        /\ e.cache = cache /\ e.output = d.output
    BY DEF IsDisk
  <1>3. Len(d.output) \in Nat
    BY DEF IsDisk
  <1> HIDE DEF cache, e
  <1>4. IsDisk(e)
    BY <1>1, <1>2 DEF IsDisk
  <1>5. Published(d, e) /\ Elsewhere(d, e, tuple)
    BY <1>1, <1>2, <1>3 DEF Published, Elsewhere
  <1>6. /\ e.files = d.files /\ tuple \notin DOMAIN e.cache
        /\ DOMAIN e.cache \subseteq DOMAIN d.cache
    BY <1>1, <1>2
  <1> QED BY <1>4, <1>5, <1>6 DEF e, cache

LEMMA Renamed ==
    ASSUME NEW d, IsDisk(d), NEW tuple \in DOMAIN d.cache, NEW name \in Transfers
    PROVE  LET e == [d EXCEPT !.cache = Without(d.cache, tuple),
                              !.output = Append(d.output, [name |-> name, file |-> d.cache[tuple]])]
           IN  IsDisk(e) /\ Published(d, e) /\ Elsewhere(d, e, tuple) /\ e.files = d.files
  <1> DEFINE cache == Without(d.cache, tuple)
             entry == [name |-> name, file |-> d.cache[tuple]]
             output == Append(d.output, entry)
             e == [d EXCEPT !.cache = cache, !.output = output]
  <1>1. DOMAIN cache = DOMAIN d.cache \ {tuple} /\ \A k \in DOMAIN cache : cache[k] = d.cache[k]
    BY DEF Without
  <1>2. /\ DOMAIN e = {"files", "cache", "output"} /\ e.files = d.files
        /\ e.cache = cache /\ e.output = output
    BY DEF IsDisk
  <1>3. d.cache[tuple] \in 1..Len(d.files) /\ Len(d.files) \in Nat /\ Len(d.output) \in Nat
    BY DEF IsDisk
  <1>4. /\ entry \in [name : Transfers, file : Nat] /\ entry.file = d.cache[tuple]
        /\ d.output \in Seq([name : Transfers, file : Nat])
    BY <1>3 DEF IsDisk
  <1> HIDE DEF entry
  <1>5. /\ output \in Seq([name : Transfers, file : Nat]) /\ Len(output) = Len(d.output) + 1
        /\ output[Len(d.output) + 1] = entry /\ \A i \in 1..Len(d.output) : output[i] = d.output[i]
    BY <1>4, AppendFacts
  <1> HIDE DEF cache, output, e
  <1>6. IsDisk(e)
    <2>1. \A i \in 1..Len(output) : i \in 1..Len(d.output) \/ i = Len(d.output) + 1
      BY <1>3, <1>5
    <2>2. \A i \in 1..Len(output) : output[i].file \in 1..Len(d.files)
      BY <1>3, <1>4, <1>5, <2>1 DEF IsDisk
    <2>3. \A i \in 1..Len(d.output) : output[i].file # entry.file
      BY <1>4, <1>5 DEF IsDisk
    <2>4. \A i, j \in 1..Len(output) : output[i].file = output[j].file => i = j
      BY <1>5, <2>1, <2>3 DEF IsDisk
    <2>5. \A k \in DOMAIN cache : cache[k] # entry.file
      BY <1>1, <1>4 DEF IsDisk
    <2>6. \A i \in 1..Len(output), k \in DOMAIN cache : output[i].file # cache[k]
      <3>1. \A i \in 1..Len(d.output), k \in DOMAIN cache : output[i].file # cache[k]
        <4>1. \A i \in 1..Len(d.output), k \in DOMAIN d.cache : d.output[i].file # d.cache[k]
          BY DEF IsDisk
        <4> QED BY <1>1, <1>5, <4>1
      <3>2. \A k \in DOMAIN cache : output[Len(d.output) + 1].file # cache[k]
        BY <1>5, <2>5
      <3> QED BY <2>1, <3>1, <3>2
    <2>7. /\ \A k \in DOMAIN cache : cache[k] \in 1..Len(d.files)
          /\ \A j, k \in DOMAIN cache : cache[j] = cache[k] => j = k
      BY <1>1 DEF IsDisk
    <2>8. d.files \in Seq(Seq(Pieces))
      BY DEF IsDisk
    <2> QED BY <1>2, <1>5, <2>2, <2>4, <2>6, <2>7, <2>8 DEF IsDisk
  <1>7. Published(d, e) /\ Elsewhere(d, e, tuple)
    BY <1>1, <1>2, <1>3, <1>5 DEF Published, Elsewhere
  <1> QED BY <1>2, <1>6, <1>7 DEF e, output, cache, entry

LEMMA FinishAssemblingOnward ==
    ASSUME NEW a, NEW d, NEW ts, IsAssembler(a), IsDisk(d), Backed(a, d),
           TransfersIn(a.window) \subseteq ts
    PROVE  LET r == FinishAssembling(a, d)
           IN  Onward(a, d, r.assembler, r.disk, ts)
  <1> DEFINE w == Write(a, d, InOrder(a.window))
             b == w.assembler
             e == w.disk
             c == [b EXCEPT !.active = FALSE, !.open = FALSE, !.window = << >>]
             entry == [name |-> a.name, file |-> d.cache[a.tuple]]
             f == [e EXCEPT !.cache = Without(e.cache, a.tuple), !.output = Append(e.output, entry)]
  <1>1. /\ Onward(a, d, b, e, ts) /\ b.window = a.window
        /\ e.cache = d.cache /\ e.output = d.output
    <2>1. /\ InOrder(a.window) \in Seq(Pieces)
          /\ \A i \in 1..Len(InOrder(a.window)) :
                \E n \in DOMAIN a.window : InOrder(a.window)[i] = a.window[n]
      BY InOrderPieces DEF IsAssembler
    <2>2. \A i \in 1..Len(InOrder(a.window)) : InOrder(a.window)[i].transfer \in ts
      BY <2>1 DEF TransfersIn
    <2> DEFINE pieces == InOrder(a.window)
    <2>3. PiecesOf(pieces, ts)
      BY <2>1, <2>2 DEF PiecesOf
    <2>4. w = Write(a, d, pieces)
      OBVIOUS
    <2> HIDE DEF pieces, w
    <2> QED BY <2>3, <2>4, WriteOnward
  <1>2. /\ IsAssembler(b) /\ IsDisk(e) /\ Backed(b, e) /\ b.tuple = a.tuple
        /\ TransfersIn(b.window) \subseteq ts
    BY <1>1 DEF Onward
  <1> HIDE DEF w, b, e
  <1>3. /\ IsAssembler(c) /\ c.tuple = a.tuple /\ c.stream = b.stream /\ c.position = b.position
        /\ c.open = FALSE /\ TransfersIn(c.window) = {}
    <2>1. IsWindow(<< >>, Pieces)
      <3>1. DOMAIN << >> = {}
        OBVIOUS
      <3> QED BY <3>1, FS_EmptySet DEF IsWindow
    <2>2. c.window = << >>
      BY <1>2 DEF IsAssembler
    <2> QED BY <1>2, <2>1, <2>2 DEF IsAssembler, TransfersIn
  <1> HIDE DEF c
  <1>4. CASE a.tuple \notin DOMAIN d.cache
    <2>1. FinishAssembling(a, d) = [assembler |-> c, disk |-> e]
      BY <1>4 DEF FinishAssembling, Result, c, b, e, w
    <2>2. Onward(b, e, c, e, ts)
      BY <1>2, <1>3, OnwardMarked
    <2>3. Onward(a, d, c, e, ts)
      BY <1>1, <2>2, OnwardAgain
    <2> QED BY <2>1, <2>3
  <1>5. CASE a.tuple \in DOMAIN d.cache
    <2>1. FinishAssembling(a, d) = [assembler |-> c, disk |-> f]
      <3>1. e.cache = w.disk.cache /\ e.output = w.disk.output
        BY DEF e
      <3> QED BY <1>5 DEF FinishAssembling, Result, Named, c, b, e, w
    <2>2. IsDisk(f) /\ Published(e, f) /\ Elsewhere(e, f, a.tuple) /\ f.files = e.files
      <3>1. a.tuple \in DOMAIN e.cache /\ a.name \in Transfers /\ e.cache[a.tuple] = d.cache[a.tuple]
        BY <1>1, <1>5 DEF IsAssembler
      <3>2. IsDisk(e)
        BY <1>2
      <3>3. f = [e EXCEPT !.cache = Without(e.cache, a.tuple),
                          !.output = Append(e.output, [name |-> a.name, file |-> e.cache[a.tuple]])]
        BY <3>1
      <3> HIDE DEF f
      <3> QED BY <3>1, <3>2, <3>3, Renamed
    <2> HIDE DEF f
    <2>3. Onward(b, e, c, f, ts)
      <3>1. \A t \in Transfers : FilesWith(f, t) = FilesWith(e, t)
        BY <2>2 DEF FilesWith
      <3>2. Backed(c, f)
        BY <1>3 DEF Backed
      <3> QED BY <1>2, <1>3, <2>2, <3>1, <3>2 DEF Onward
    <2>4. Onward(a, d, c, f, ts)
      BY <1>1, <2>3, OnwardAgain
    <2> QED BY <2>1, <2>4
  <1> QED BY <1>4, <1>5

LEMMA WindowFacts ==
    ASSUME NEW window, IsWindow(window, Pieces), NEW n \in Nat, NEW piece \in Pieces
    PROVE  /\ IsWindow(Put(window, n, piece), Pieces)
           /\ TransfersIn(Put(window, n, piece)) \subseteq TransfersIn(window) \cup {piece.transfer}
           /\ IsWindow(Without(window, n), Pieces)
           /\ TransfersIn(Without(window, n)) \subseteq TransfersIn(window)
  <1>1. /\ IsFiniteSet(DOMAIN window \cup {n}) /\ DOMAIN window \cup {n} \in SUBSET Nat
        /\ IsFiniteSet(DOMAIN window \ {n}) /\ DOMAIN window \ {n} \in SUBSET Nat
    <2>1. IsFiniteSet(DOMAIN window) /\ DOMAIN window \in SUBSET Nat
          /\ DOMAIN window \ {n} \in SUBSET DOMAIN window
      BY DEF IsWindow
    <2> QED BY <2>1, FS_AddElement, FS_Subset
  <1>2. /\ DOMAIN Put(window, n, piece) = DOMAIN window \cup {n}
        /\ \A m \in DOMAIN window \cup {n} :
              Put(window, n, piece)[m] = IF m = n THEN piece ELSE window[m]
    BY DEF Put
  <1>3. /\ DOMAIN Without(window, n) = DOMAIN window \ {n}
        /\ \A m \in DOMAIN window \ {n} : Without(window, n)[m] = window[m]
    BY DEF Without
  <1> QED BY <1>1, <1>2, <1>3 DEF IsWindow, TransfersIn

LEMMA AddDataOnward ==
    ASSUME NEW a, NEW d, NEW ts, IsAssembler(a), IsDisk(d), Backed(a, d),
           TransfersIn(a.window) \subseteq ts,
           NEW piece, piece.size > 0 => piece \in Pieces, piece.transfer \in ts, NEW number \in Nat
    PROVE  LET r == AddData(a, d, piece, number)
           IN  Onward(a, d, r.assembler, r.disk, ts)
  <1> DEFINE b == Inserted(a, piece, number)
             r == Spilled(b, d)
  <1>1. CASE ~Accepts(a, piece, number)
    <2>1. AddData(a, d, piece, number) = [assembler |-> a, disk |-> d]
      BY <1>1 DEF AddData, Result
    <2>2. Onward(a, d, a, d, ts)
      BY OnwardNothing
    <2> QED BY <2>1, <2>2
  <1>2. CASE Accepts(a, piece, number)
    <2>0. piece \in Pieces
      BY <1>2 DEF Accepts
    <2>1. /\ IsAssembler(b) /\ b.tuple = a.tuple /\ b.stream = a.stream /\ b.open = a.open
          /\ b.position = a.position /\ b.window = Put(a.window, number, piece)
      BY <2>0, WindowFacts DEF IsAssembler, Inserted
    <2>2. TransfersIn(b.window) \subseteq ts
      BY <2>0, <2>1, WindowFacts DEF IsAssembler
    <2> HIDE DEF b
    <2>3. Onward(a, d, b, d, ts)
      BY <2>1, <2>2, OnwardMarked
    <2>4. Backed(b, d)
      BY <2>3 DEF Onward
    <2>5. CASE Cardinality(DOMAIN b.window) <= WindowSize
      <3>1. r = [assembler |-> b, disk |-> d]
        BY <2>5 DEF Spilled, Result
      <3>2. AddData(a, d, piece, number) = r
        BY <1>2, <2>1, <3>1 DEF AddData, EndsByLength, IsAssembler, b
      <3> QED BY <2>3, <3>1, <3>2
    <2>6. CASE ~(Cardinality(DOMAIN b.window) <= WindowSize)
      <3> DEFINE n == Min(DOMAIN b.window)
                 c == [b EXCEPT !.window = Without(b.window, n)]
      <3>1. n \in DOMAIN b.window /\ n \in Nat
        <4>1. DOMAIN b.window \in SUBSET Nat /\ DOMAIN b.window # {}
          BY <2>1, <2>6, WindowAssumption, FS_EmptySet DEF IsAssembler, IsWindow
        <4> HIDE DEF n
        <4>2. Min(DOMAIN b.window) \in DOMAIN b.window
          BY <4>1, LeastOfSet
        <4> QED BY <4>1, <4>2 DEF n
      <3> HIDE DEF n
      <3>2. b.window[n] \in Pieces /\ b.window[n].transfer \in ts
        BY <2>1, <2>2, <3>1 DEF IsAssembler, IsWindow, TransfersIn
      <3>3. /\ IsAssembler(c) /\ c.tuple = b.tuple /\ c.stream = b.stream /\ c.open = b.open
            /\ c.position = b.position /\ TransfersIn(c.window) \subseteq ts /\ c.type = "TFTP"
        <4>1. /\ IsWindow(Without(b.window, n), Pieces)
              /\ TransfersIn(Without(b.window, n)) \subseteq TransfersIn(b.window)
          BY <2>1, <3>1, <3>2, WindowFacts DEF IsAssembler
        <4>2. c.window = Without(b.window, n)
          BY <2>1 DEF IsAssembler
        <4> QED BY <2>1, <2>2, <4>1, <4>2 DEF IsAssembler
      <3>4. Spilled(b, d) = Write(c, d, <<b.window[n]>>)
        BY <2>6 DEF Spilled, n
      <3> HIDE DEF c
      <3>5. Onward(b, d, c, d, ts) /\ Backed(c, d)
        BY <2>1, <2>4, <3>3, OnwardMarked DEF Onward
      <3>6. Onward(c, d, r.assembler, r.disk, ts) /\ r.assembler.type = "TFTP"
        <4> DEFINE pieces == <<b.window[n]>>
        <4>1. PiecesOf(pieces, ts)
          BY <3>2 DEF PiecesOf
        <4>2. r = Write(c, d, pieces)
          BY <3>4
        <4> HIDE DEF pieces, r
        <4> QED BY <3>3, <3>5, <4>1, <4>2, WriteOnward
      <3>7. AddData(a, d, piece, number) = r
        BY <1>2, <3>6 DEF AddData, EndsByLength, b
      <3>8. Onward(a, d, c, d, ts)
        BY <2>3, <3>5, OnwardAgain
      <3>9. Onward(a, d, r.assembler, r.disk, ts)
        BY <3>6, <3>8, OnwardAgain
      <3> QED BY <3>7, <3>9
    <2> QED BY <2>5, <2>6
  <1> QED BY <1>1, <1>2

LEMMA ClearAssemblerDisk ==
    ASSUME NEW a, NEW d, IsAssembler(a), IsDisk(d)
    PROVE  LET e == ClearAssembler(a, d).disk
           IN  /\ IsDisk(e) /\ Published(d, e) /\ Elsewhere(d, e, a.tuple) /\ e.files = d.files
               /\ DOMAIN e.cache \subseteq DOMAIN d.cache
  <1>1. CASE a.stream = 0
    <2>1. ClearAssembler(a, d).disk = d /\ Len(d.output) \in Nat
      BY <1>1 DEF ClearAssembler, Result, IsDisk
    <2> QED BY <2>1 DEF Published, Elsewhere
  <1>2. CASE a.stream # 0
    <2>1. ClearAssembler(a, d).disk = [d EXCEPT !.cache = Without(d.cache, a.tuple)]
      BY <1>2 DEF ClearAssembler, Result
    <2> QED BY <2>1, WithoutCache
  <1> QED BY <1>1, <1>2

----------------------------------------------------------------------------
(* TFTP: the list of assemblers and the disk.                               *)

\* The transfers whose blocks go to the assembler of a tuple.
Sharing(tuple) == {t \in Transfers : DataTuple(t) = tuple}

Listed(a, tuple, d) ==
    /\ IsAssembler(a) /\ a.tuple = tuple /\ Backed(a, d)
    /\ TransfersIn(a.window) \subseteq Sharing(tuple)

TInv ==
    /\ IsDisk(disk)
    /\ \A s \in DOMAIN blksizes : blksizes[s] \in Sizes
    /\ \A k \in DOMAIN list : Listed(list[k], k, disk)

\* What DataBlock does with the assembler and the disk it has after the
\* replacement.
Block(a, d, piece, number, last) ==
    LET active == IF a.active THEN Result(a, d) ELSE TryActivate(a, d)
        added == AddData(active.assembler, active.disk, piece, number)
    IN  IF last THEN FinishAssembling(added.assembler, added.disk) ELSE added

LEMMA BlockOnward ==
    ASSUME NEW a, NEW d, NEW ts, IsAssembler(a), IsDisk(d), Backed(a, d),
           TransfersIn(a.window) \subseteq ts,
           NEW piece, piece.size > 0 => piece \in Pieces, piece.transfer \in ts,
           NEW number \in Nat, NEW last
    PROVE  LET r == Block(a, d, piece, number, last)
           IN  Onward(a, d, r.assembler, r.disk, ts)
  <1> DEFINE p == IF a.active THEN Result(a, d) ELSE TryActivate(a, d)
             q == AddData(p.assembler, p.disk, piece, number)
             r == FinishAssembling(q.assembler, q.disk)
  <1>1. Onward(a, d, p.assembler, p.disk, ts)
    <2>1. CASE a.active
      <3>1. p.assembler = a /\ p.disk = d
        BY <2>1 DEF Result
      <3> QED BY <3>1, OnwardNothing
    <2>2. CASE ~a.active
      <3>1. p = TryActivate(a, d)
        BY <2>2
      <3> QED BY <3>1, TryActivateOnward
    <2> QED BY <2>1, <2>2
  <1> HIDE DEF p
  <1>2. Onward(p.assembler, p.disk, q.assembler, q.disk, ts)
    <2>1. /\ IsAssembler(p.assembler) /\ IsDisk(p.disk) /\ Backed(p.assembler, p.disk)
          /\ TransfersIn(p.assembler.window) \subseteq ts
      BY <1>1 DEF Onward
    <2> QED BY <2>1, AddDataOnward
  <1> HIDE DEF q
  <1>3. Onward(q.assembler, q.disk, r.assembler, r.disk, ts)
    <2>1. /\ IsAssembler(q.assembler) /\ IsDisk(q.disk) /\ Backed(q.assembler, q.disk)
          /\ TransfersIn(q.assembler.window) \subseteq ts
      BY <1>2 DEF Onward
    <2> QED BY <2>1, FinishAssemblingOnward
  <1> HIDE DEF r
  <1>4. Onward(a, d, q.assembler, q.disk, ts)
    BY <1>1, <1>2, OnwardAgain
  <1>5. Onward(a, d, r.assembler, r.disk, ts)
    BY <1>3, <1>4, OnwardAgain
  <1>6. Block(a, d, piece, number, last) = IF last THEN r ELSE q
    BY DEF Block, p, q, r
  <1> QED BY <1>4, <1>5, <1>6

LEMMA FoundFacts ==
    ASSUME NEW tuple, Found(tuple)
    PROVE  /\ FoundTuple(tuple) \in DOMAIN list
           /\ tuple \in DOMAIN list => FoundTuple(tuple) = tuple
           /\ \/ FoundTuple(tuple) = tuple
              \/ FoundTuple(tuple) = <<WithPort(tuple[1], DefaultPort), tuple[2]>>
              \/ FoundTuple(tuple) = <<tuple[1], WithPort(tuple[2], DefaultPort)>>
  <1> DEFINE c == Candidates(tuple)
             is == {i \in 1..3 : c[i] \in DOMAIN list}
             i == CHOOSE i \in is : \A j \in is : i <= j
  <1>1. /\ c[1] = tuple /\ c[2] = <<WithPort(tuple[1], DefaultPort), tuple[2]>>
        /\ c[3] = <<tuple[1], WithPort(tuple[2], DefaultPort)>>
    BY DEF Candidates
  <1> HIDE DEF c
  <1>2. is \in SUBSET Nat /\ is # {} /\ is \subseteq 1..3
    BY DEF Found, c
  <1>3. (1 \in is <=> tuple \in DOMAIN list) /\ \A j \in is : c[j] \in DOMAIN list
    BY <1>1
  <1> HIDE DEF is
  <1>4. i \in is /\ \A j \in is : i <= j
    <2>1. \E m \in is : \A j \in is : m <= j
      BY <1>2, LeastNumber
    <2> QED BY <2>1
  <1>5. FoundTuple(tuple) = c[i]
    BY DEF FoundTuple, c, is
  <1> HIDE DEF i
  <1>6. i = 1 \/ i = 2 \/ i = 3
    BY <1>2, <1>4
  <1>7. tuple \in DOMAIN list => i = 1
    BY <1>2, <1>3, <1>4
  <1> QED BY <1>1, <1>3, <1>4, <1>5, <1>6, <1>7

\* The temporary files but two are as they were, and but one there are no new.
OthersFiles(at, tuple) ==
    /\ DOMAIN disk'.cache \subseteq DOMAIN disk.cache \cup {tuple}
    /\ \A k \in DOMAIN disk.cache \ {at, tuple} :
          /\ k \in DOMAIN disk'.cache /\ disk'.cache[k] = disk.cache[k]
          /\ disk'.files[disk.cache[k]] = disk.files[disk.cache[k]]

\* What a data block of t does to the list and the disk.
BlockTaken(t, at) ==
    LET tuple == DataTuple(t)
    IN  /\ IsDisk(disk') /\ Published(disk, disk')
        /\ DOMAIN list' = (DOMAIN list \ {at}) \cup {tuple}
        /\ at \in DOMAIN list /\ at = FoundTuple(tuple)
        /\ Listed(list'[tuple], tuple, disk')
        /\ at = tuple /\ list[tuple].stream # 0 => list'[tuple].stream = list[tuple].stream
        /\ \A k \in DOMAIN list \ {at, tuple} : list'[k] = list[k] /\ Backed(list[k], disk')
        /\ \A u \in Transfers : \A f \in FilesWith(disk', u) \ FilesWith(disk, u) :
              f = list'[tuple].stream /\ DataTuple(u) = tuple
        /\ OthersFiles(at, tuple)

LEMMA BackedElsewhere ==
    ASSUME NEW d, NEW e, IsDisk(d), NEW tuple, Elsewhere(d, e, tuple),
           NEW a, Backed(a, d), a.tuple # tuple
    PROVE  Backed(a, e)
  BY DEF Backed, Elsewhere

LEMMA DataBlockTakes ==
    ASSUME TInv, NEW t \in Transfers, NEW number \in 1..t.blocks, DataBlock(t, number)
    PROVE  \/ UNCHANGED <<list, disk>>
           \/ Found(DataTuple(t)) /\ BlockTaken(t, FoundTuple(DataTuple(t)))
  <1> DEFINE tuple == DataTuple(t)
             at == FoundTuple(tuple)
             blksize == BlksizeOf(tuple)
             piece == Piece(t, number, blksize)
             moved == Replaced(tuple, at)
             last == IsLast(piece.size, blksize)
             mod == number % BlockModulus
             r == Block(moved.list[tuple], moved.disk, piece, mod, last)
  <1>1. IF Found(tuple) /\ tuple \in DOMAIN moved.list
        THEN list' = Put(moved.list, tuple, r.assembler) /\ disk' = r.disk
        ELSE UNCHANGED <<list, disk>>
    BY DEF DataBlock, Block
  <1>2. SUFFICES ASSUME Found(tuple), tuple \in DOMAIN moved.list PROVE BlockTaken(t, at)
    BY <1>1
  <1>3. (piece.size > 0 => piece \in Pieces) /\ piece.transfer = t /\ t \in Sharing(tuple) /\ mod \in Nat
    <2>1. blksize \in Sizes
      BY DEF BlksizeOf, Sizes, TInv
    <2>2. t.blocks \in Nat /\ number \in Nat
      BY TransfersAssumption
    <2>3. mod \in Nat
      BY <2>2, TftpBoundAssumption
    <2> HIDE DEF blksize
    <2>5. piece.transfer = t /\ piece.number = number
      BY DEF Piece
    <2>4. piece.size > 0 => piece \in Pieces
      BY <2>1, <2>2, <2>5 DEF Pieces
    <2> QED BY <2>3, <2>4, <2>5 DEF Sharing
  <1>4. /\ at \in DOMAIN list /\ (tuple \in DOMAIN list => at = tuple)
    BY <1>2, FoundFacts
  <1>5. Listed(list[at], at, disk) /\ IsDisk(disk)
    BY <1>4 DEF TInv
  <1> HIDE DEF piece, last, mod, blksize
  <1>6. /\ Listed(moved.list[tuple], tuple, moved.disk)
        /\ IsDisk(moved.disk) /\ Published(disk, moved.disk) /\ Elsewhere(disk, moved.disk, at)
        /\ DOMAIN moved.disk.cache \subseteq DOMAIN disk.cache
        /\ at = tuple => moved.list[tuple] = list[tuple]
        /\ DOMAIN moved.list = (DOMAIN list \ {at}) \cup {tuple}
        /\ \A k \in DOMAIN list \ {at, tuple} : moved.list[k] = list[k]
        /\ \A u \in Transfers : FilesWith(moved.disk, u) = FilesWith(disk, u)
    <2>1. CASE at = tuple
      <3>1. moved.list = list /\ moved.disk = disk
        BY <2>1 DEF Replaced
      <3>2. Published(disk, disk) /\ Elsewhere(disk, disk, at)
        <4>1. Len(disk.output) \in Nat
          BY <1>5 DEF IsDisk
        <4> QED BY <4>1 DEF Published, Elsewhere
      <3>3. DOMAIN list = (DOMAIN list \ {at}) \cup {tuple}
        BY <1>4, <2>1
      <3> HIDE DEF moved, at, tuple
      <3> QED BY <1>5, <2>1, <3>1, <3>2, <3>3
    <2>2. CASE at # tuple /\ list[at].active
      <3>1. moved.list = list
        BY <2>2 DEF Replaced
      <3> QED BY <1>2, <1>4, <2>2, <3>1
    <2>3. CASE at # tuple /\ ~list[at].active
      <3> DEFINE new == NewAssembler(tuple, "TFTP", list[at].name)
      <3>1. /\ moved.list = Put(Without(list, at), tuple, new)
            /\ moved.disk = ClearAssembler(list[at], disk).disk
        BY <2>3 DEF Replaced
      <3>2. IsAssembler(list[at]) /\ list[at].tuple = at
        BY <1>5 DEF Listed
      <3>3. Listed(new, tuple, moved.disk)
        <4>1. IsWindow(<< >>, Pieces) /\ TransfersIn(<< >>) = {}
          <5>1. DOMAIN << >> = {}
            OBVIOUS
          <5> QED BY <5>1, FS_EmptySet DEF IsWindow, TransfersIn
        <4> HIDE DEF moved
        <4> QED BY <3>2, <4>1 DEF Listed, NewAssembler, IsAssembler, Backed
      <3>4. /\ DOMAIN moved.list = (DOMAIN list \ {at}) \cup {tuple}
            /\ moved.list[tuple] = new
            /\ \A k \in DOMAIN list \ {at, tuple} : moved.list[k] = list[k]
        BY <3>1 DEF Put, Without
      <3>5. /\ IsDisk(moved.disk) /\ Published(disk, moved.disk)
            /\ Elsewhere(disk, moved.disk, at) /\ moved.disk.files = disk.files
            /\ DOMAIN moved.disk.cache \subseteq DOMAIN disk.cache
        BY <1>5, <3>1, <3>2, ClearAssemblerDisk
      <3> HIDE DEF moved, new
      <3> QED BY <2>3, <3>3, <3>4, <3>5 DEF FilesWith
    <2> QED BY <2>1, <2>2, <2>3
  <1>7. /\ list' = Put(moved.list, tuple, r.assembler) /\ disk' = r.disk
    BY <1>1, <1>2
  <1> HIDE DEF moved
  <1> DEFINE a == moved.list[tuple]
             d == moved.disk
             b == r.assembler
             e == r.disk
  <1>8. Onward(a, d, b, e, Sharing(tuple))
    BY <1>3, <1>6, BlockOnward DEF Listed
  <1> HIDE DEF r
  <1>9. /\ DOMAIN list' = (DOMAIN list \ {at}) \cup {tuple} /\ list'[tuple] = b
        /\ \A k \in DOMAIN list \ {at, tuple} : list'[k] = list[k]
    BY <1>6, <1>7 DEF Put
  <1>10. Listed(list'[tuple], tuple, disk')
    BY <1>6, <1>7, <1>8, <1>9 DEF Listed, Onward
  <1>11. Published(disk, disk')
    <2>1. Published(disk, d) /\ Published(d, e) /\ disk' = e
      BY <1>6, <1>7, <1>8 DEF Onward
    <2>2. IsDisk(disk) /\ IsDisk(d) /\ IsDisk(e)
      BY <1>5, <1>6, <1>8 DEF Onward
    <2> HIDE DEF d, e
    <2>3. Published(disk, e)
      BY <2>1, <2>2, PublishedAgain
    <2> QED BY <2>1, <2>3
  <1>12. \A k \in DOMAIN list \ {at, tuple} : Backed(list[k], disk')
    <2> SUFFICES ASSUME NEW k \in DOMAIN list \ {at, tuple} PROVE Backed(list[k], disk')
      OBVIOUS
    <2>1. Backed(list[k], disk) /\ list[k].tuple = k
      BY DEF TInv, Listed
    <2>2. Backed(list[k], d)
      BY <1>5, <1>6, <2>1, BackedElsewhere
    <2>3. Elsewhere(d, e, tuple)
      BY <1>6, <1>8 DEF Onward, Listed
    <2> QED BY <1>6, <1>7, <2>1, <2>2, <2>3, BackedElsewhere
  <1>13. at = tuple /\ list[tuple].stream # 0 => list'[tuple].stream = list[tuple].stream
    BY <1>6, <1>8, <1>9 DEF Onward
  <1>14. \A u \in Transfers : \A f \in FilesWith(disk', u) \ FilesWith(disk, u) :
              f = list'[tuple].stream /\ DataTuple(u) = tuple
    BY <1>6, <1>7, <1>8, <1>9 DEF Onward, Sharing
  <1>15. IsDisk(disk')
    BY <1>7, <1>8 DEF Onward
  <1>16. OthersFiles(at, tuple)
    <2>1. Elsewhere(d, e, tuple) /\ disk' = e
      BY <1>6, <1>7, <1>8 DEF Onward, Listed
    <2> QED BY <1>6, <2>1 DEF OthersFiles, Elsewhere
  <1> QED BY <1>4, <1>9, <1>10, <1>11, <1>12, <1>13, <1>14, <1>15, <1>16 DEF BlockTaken

LEMMA NewIsListed ==
    ASSUME NEW tuple, NEW name \in Transfers, NEW d
    PROVE  Listed(NewAssembler(tuple, "TFTP", name), tuple, d)
  <1>1. IsWindow(<< >>, Pieces) /\ TransfersIn(<< >>) = {}
    <2>1. DOMAIN << >> = {}
      OBVIOUS
    <2> QED BY <2>1, FS_EmptySet DEF IsWindow, TransfersIn
  <1> QED BY <1>1 DEF Listed, NewAssembler, IsAssembler, Backed

\* What a request of t does to the list.
RequestTaken(t) ==
    /\ disk' = disk
    /\ \/ list' = list
       \/ /\ ~Found(RequestTuple(t))
          /\ DOMAIN list' = DOMAIN list \cup {NewTuple(t)}
          /\ Listed(list'[NewTuple(t)], NewTuple(t), disk)
          /\ \A k \in DOMAIN list \ {NewTuple(t)} : list'[k] = list[k]

LEMMA RequestTakes ==
    ASSUME TInv, NEW t \in Transfers, Request(t)
    PROVE  RequestTaken(t) /\ \A s \in DOMAIN blksizes' : blksizes'[s] \in Sizes
  <1> DEFINE new == NewAssembler(NewTuple(t), "TFTP", t)
  <1>1. disk' = disk
    BY DEF Request
  <1>2. CASE Found(RequestTuple(t))
    <2>1. list' = list /\ blksizes' = blksizes
      BY <1>2 DEF Request
    <2> QED BY <1>1, <2>1 DEF TInv, RequestTaken
  <1>3. CASE ~Found(RequestTuple(t))
    <2>1. /\ list' = Put(list, NewTuple(t), new)
          /\ blksizes' = IF t.parsed = DefaultBlksize THEN blksizes
                         ELSE Put(blksizes, SessionId(RequestTuple(t)), t.parsed)
      BY <1>3 DEF Request
    <2>2. Listed(new, NewTuple(t), disk)
      BY NewIsListed
    <2> HIDE DEF new
    <2>3. /\ DOMAIN list' = DOMAIN list \cup {NewTuple(t)} /\ list'[NewTuple(t)] = new
          /\ \A k \in DOMAIN list \ {NewTuple(t)} : list'[k] = list[k]
      BY <2>1 DEF Put
    <2>4. \A s \in DOMAIN blksizes' : blksizes'[s] \in Sizes
      <3>1. t.parsed \in Sizes
        BY DEF Sizes
      <3> QED BY <2>1, <3>1 DEF TInv, Put
    <2> QED BY <1>1, <1>3, <2>2, <2>3, <2>4 DEF RequestTaken
  <1> QED BY <1>2, <1>3

LEMMA InitTInv == Init => TInv
  <1> SUFFICES ASSUME Init PROVE TInv
    OBVIOUS
  <1>1. list = << >> /\ blksizes = << >> /\ disk = EmptyDisk /\ DOMAIN << >> = {}
    BY DEF Init
  <1>2. /\ << >> \in Seq(Seq(Pieces)) /\ << >> \in Seq([name : Transfers, file : Nat])
        /\ Len(<< >>) = 0
    OBVIOUS
  <1>3. IsDisk(disk)
    BY <1>1, <1>2 DEF EmptyDisk, IsDisk
  <1> QED BY <1>1, <1>3 DEF TInv

\* The three kinds of steps, for whatever is to be shown of them.
LEMMA TftpStep ==
    ASSUME TInv, [Next]_vars
    PROVE  \/ /\ UNCHANGED <<list, disk>>
              /\ \A s \in DOMAIN blksizes' : blksizes'[s] \in Sizes
           \/ \E t \in Transfers : /\ Request(t) /\ RequestTaken(t)
                                   /\ \A s \in DOMAIN blksizes' : blksizes'[s] \in Sizes
           \/ \E t \in Transfers : \E number \in 1..t.blocks :
                 /\ DataBlock(t, number) /\ blksizes' = blksizes
                 /\ Found(DataTuple(t)) /\ BlockTaken(t, FoundTuple(DataTuple(t)))
  <1>0. \A s \in DOMAIN blksizes : blksizes[s] \in Sizes
    BY DEF TInv
  <1>1. ASSUME NEW t \in Transfers, Request(t)
        PROVE  RequestTaken(t) /\ \A s \in DOMAIN blksizes' : blksizes'[s] \in Sizes
    BY <1>1, RequestTakes
  <1>2. ASSUME NEW t \in Transfers, NEW number \in 1..t.blocks, DataBlock(t, number)
        PROVE  /\ blksizes' = blksizes
               /\ \/ UNCHANGED <<list, disk>>
                  \/ Found(DataTuple(t)) /\ BlockTaken(t, FoundTuple(DataTuple(t)))
    <2>1. blksizes' = blksizes
      BY <1>2 DEF DataBlock
    <2> QED BY <1>2, <2>1, DataBlockTakes
  <1>3. CASE Reset
    <2>1. UNCHANGED <<list, disk>> /\ blksizes' = << >> /\ DOMAIN << >> = {}
      BY <1>3 DEF Reset
    <2> QED BY <2>1
  <1>4. CASE UNCHANGED vars
    BY <1>0, <1>4 DEF vars
  <1> QED BY <1>0, <1>1, <1>2, <1>3, <1>4 DEF Next

LEMMA TInvStep ==
    ASSUME TInv, [Next]_vars
    PROVE  TInv'
  <1>1. CASE UNCHANGED <<list, disk>> /\ \A s \in DOMAIN blksizes' : blksizes'[s] \in Sizes
    BY <1>1 DEF TInv
  <1>2. ASSUME NEW t \in Transfers, RequestTaken(t), \A s \in DOMAIN blksizes' : blksizes'[s] \in Sizes
        PROVE  TInv'
    <2>1. \A k \in DOMAIN list' : Listed(list'[k], k, disk')
      BY <1>2 DEF RequestTaken, TInv
    <2> QED BY <1>2, <2>1 DEF RequestTaken, TInv
  <1>3. ASSUME NEW t \in Transfers, blksizes' = blksizes, BlockTaken(t, FoundTuple(DataTuple(t)))
        PROVE  TInv'
    <2>1. \A k \in DOMAIN list' : Listed(list'[k], k, disk')
      <3> SUFFICES ASSUME NEW k \in DOMAIN list' PROVE Listed(list'[k], k, disk')
        OBVIOUS
      <3>1. CASE k = DataTuple(t)
        BY <1>3, <3>1 DEF BlockTaken
      <3>2. CASE k # DataTuple(t)
        <4>1. k \in DOMAIN list /\ list'[k] = list[k] /\ Backed(list[k], disk')
          BY <1>3, <3>2 DEF BlockTaken
        <4> QED BY <4>1 DEF TInv, Listed
      <3> QED BY <3>1, <3>2
    <2> QED BY <1>3, <2>1 DEF BlockTaken, TInv
  <1> QED BY <1>1, <1>2, <1>3, TftpStep

LEMMA TInvariance == Spec => []TInv
  BY InitTInv, TInvStep, PTL DEF Spec

LEMMA OutputGrows ==
    ASSUME NEW d, NEW e, IsDisk(d), IsDisk(e), Published(d, e)
    PROVE  IsPrefix(Output(d), Output(e))
  <1> DEFINE Entries == [name : Transfers, data : Seq(Pieces)]
             o(c) == [i \in DOMAIN c.output |->
                         [name |-> c.output[i].name, data |-> c.files[c.output[i].file]]]
  <1>1. ASSUME NEW c, IsDisk(c)
        PROVE  /\ Output(c) = [i \in 1..Len(c.output) |->
                     [name |-> c.output[i].name, data |-> c.files[c.output[i].file]]]
               /\ Output(c) \in Seq(Entries) /\ Len(Output(c)) = Len(c.output)
               /\ Len(c.output) \in Nat
    <2>1. /\ c.output \in Seq([name : Transfers, file : Nat]) /\ c.files \in Seq(Seq(Pieces))
          /\ \A i \in 1..Len(c.output) : c.output[i].file \in 1..Len(c.files)
      BY <1>1 DEF IsDisk
    <2>2. DOMAIN c.output = 1..Len(c.output) /\ Len(c.output) \in Nat
      BY <2>1
    <2>3. \A i \in 1..Len(c.output) :
             [name |-> c.output[i].name, data |-> c.files[c.output[i].file]] \in Entries
      <3> SUFFICES ASSUME NEW i \in 1..Len(c.output)
                   PROVE  c.output[i].name \in Transfers /\ c.files[c.output[i].file] \in Seq(Pieces)
        OBVIOUS
      <3>1. c.output[i] \in [name : Transfers, file : Nat]
        BY <2>1, ElementOfSeq
      <3>2. c.files[c.output[i].file] \in Seq(Pieces)
        BY <2>1, ElementOfSeq
      <3> QED BY <3>1, <3>2
    <2>4. Output(c) = [i \in 1..Len(c.output) |->
                     [name |-> c.output[i].name, data |-> c.files[c.output[i].file]]]
      BY <2>2 DEF Output
    <2> HIDE DEF Entries
    <2> QED BY <2>2, <2>3, <2>4
  <1> HIDE DEF Entries
  <1>2. \A i \in 1..Len(d.output) : Output(e)[i] = Output(d)[i]
    <2>1. Len(d.output) <= Len(e.output) /\ Len(d.output) \in Nat /\ Len(e.output) \in Nat
      BY <1>1 DEF Published
    <2>2. \A i \in 1..Len(d.output) :
             i \in 1..Len(e.output) /\ e.output[i] = d.output[i]
             /\ e.files[d.output[i].file] = d.files[d.output[i].file]
      BY <2>1 DEF Published
    <2> QED BY <1>1, <2>2
  <1>3. /\ Output(d) \in Seq(Entries) /\ Output(e) \in Seq(Entries)
        /\ Len(Output(d)) <= Len(Output(e)) /\ Len(Output(d)) = Len(d.output)
    BY <1>1 DEF Published
  <1>4. SubSeq(Output(d), 1, Len(Output(d))) = SubSeq(Output(e), 1, Len(Output(d)))
    BY <1>2, <1>3
  <1> QED BY <1>3, <1>4 DEF IsPrefix

(* A published file is never written to again, renamed or taken back:       *)
(* whatever is lost, repeated or late, and although closed assemblers go on *)
(* getting pieces and a new one may open the temporary file of an old one,  *)
(* no open stream is that of a published file.                              *)
THEOREM PublishedIsFinal == Spec => PublishedFilesStay
  <1>1. TInv /\ TInv' /\ [Next]_vars => [IsPrefix(Output(disk), Output(disk'))]_vars
    <2> SUFFICES ASSUME TInv, TInv', [Next]_vars, ~UNCHANGED vars
                 PROVE  IsPrefix(Output(disk), Output(disk'))
      OBVIOUS
    <2>1. IsDisk(disk) /\ IsDisk(disk')
      BY DEF TInv
    <2>2. Published(disk, disk)
      <3>1. Len(disk.output) \in Nat
        BY <2>1 DEF IsDisk
      <3> QED BY <3>1 DEF Published
    <2>3. Published(disk, disk')
      <3>1. \/ disk' = disk
            \/ \E t \in Transfers : BlockTaken(t, FoundTuple(DataTuple(t)))
        BY TftpStep DEF RequestTaken
      <3> QED BY <2>2, <3>1 DEF BlockTaken
    <2> QED BY <2>1, <2>3, OutputGrows
  <1> QED BY <1>1, TInvariance, PTL DEF Spec, PublishedFilesStay

----------------------------------------------------------------------------
(* TFTP: one file for each transfer.                                        *)

\* A transfer whose ports no other one used, and that was not requested again,
\* has its pieces in one file at most: that of the assembler of its tuple.  The
\* assembler stays, except when the client's port is the one servers are asked
\* at; then no other can take its place.
OneLife(t) ==
    /\ seen[t] \subseteq {0} =>
          FilesWith(disk, t) = {} /\ (DataTuple(t) \in DOMAIN list => NewTuple(t) = DataTuple(t))
    /\ DataTuple(t) \in DOMAIN list => FilesWith(disk, t) \subseteq {list[DataTuple(t)].stream}
    /\ \A f, g \in FilesWith(disk, t) : f = g
    /\ t.clientPort # DefaultPort /\ FilesWith(disk, t) # {} => DataTuple(t) \in DOMAIN list
    /\ t.clientPort = DefaultPort /\ (FilesWith(disk, t) # {} \/ DataTuple(t) \in DOMAIN list) =>
          NewTuple(t) = DataTuple(t) \/ NewTuple(t) \notin DOMAIN list

OInv ==
    /\ DOMAIN seen = Transfers
    /\ \A t \in Transfers \ retried : Separate(t) => OneLife(t)

LEMMA TuplesApart ==
    ASSUME NEW t \in Transfers, NEW u \in Transfers, t.clientPort # u.clientPort
    PROVE  /\ DataTuple(u) # DataTuple(t) /\ DataTuple(u) # NewTuple(t)
           /\ NewTuple(u) # DataTuple(t) /\ NewTuple(u) # NewTuple(t)
  <1>1. t.kind \in {"read", "write"} /\ u.kind \in {"read", "write"}
    BY TransfersAssumption
  <1> QED BY <1>1 DEF DataTuple, NewTuple, RequestTuple, Client, Server

LEMMA CandidatesOfOther ==
    ASSUME NEW t \in Transfers, NEW u \in Transfers, t.clientPort # u.clientPort,
           Found(DataTuple(u)), FoundTuple(DataTuple(u)) = DataTuple(t)
    PROVE  t.clientPort = DefaultPort
  <1>1. t.kind \in {"read", "write"} /\ u.kind \in {"read", "write"}
    BY TransfersAssumption
  <1> DEFINE d == DataTuple(u)
  <1>2. \/ DataTuple(t) = d
        \/ DataTuple(t) = <<WithPort(d[1], DefaultPort), d[2]>>
        \/ DataTuple(t) = <<d[1], WithPort(d[2], DefaultPort)>>
    BY FoundFacts
  <1> QED BY <1>1, <1>2 DEF DataTuple, Client, Server, WithPort

LEMMA CandidatesOfOwn ==
    ASSUME NEW t \in Transfers, t.clientPort = DefaultPort, Found(DataTuple(t))
    PROVE  FoundTuple(DataTuple(t)) \in {DataTuple(t), NewTuple(t)}
  <1>1. t.kind \in {"read", "write"}
    BY TransfersAssumption
  <1> DEFINE d == DataTuple(t)
  <1>2. \/ FoundTuple(d) = d
        \/ FoundTuple(d) = <<WithPort(d[1], DefaultPort), d[2]>>
        \/ FoundTuple(d) = <<d[1], WithPort(d[2], DefaultPort)>>
    BY FoundFacts
  <1> QED BY <1>1, <1>2 DEF DataTuple, NewTuple, RequestTuple, Client, Server, WithPort

LEMMA HistoryGrows ==
    ASSUME DOMAIN seen = Transfers, [Next]_vars
    PROVE  /\ DOMAIN seen' = Transfers /\ retried \subseteq retried'
           /\ \A t \in Transfers : seen[t] \subseteq seen'[t]
           /\ \A t \in Transfers : Separate(t)' => Separate(t)
  <1>1. /\ DOMAIN seen' = Transfers /\ retried \subseteq retried'
        /\ \A t \in Transfers : seen[t] \subseteq seen'[t]
    <2>1. ASSUME NEW t \in Transfers, NEW number, Arrived(t, number)
          PROVE  /\ DOMAIN seen' = Transfers /\ retried \subseteq retried'
                 /\ \A u \in Transfers : seen[u] \subseteq seen'[u]
      BY <2>1 DEF Arrived
    <2>2. CASE \E t \in Transfers : Request(t) \/ \E number \in 1..t.blocks : DataBlock(t, number)
      BY <2>1, <2>2 DEF Request, DataBlock
    <2>3. CASE UNCHANGED <<seen, retried>>
      BY <2>3
    <2> QED BY <2>2, <2>3 DEF Next, Reset, vars
  <1>2. ASSUME NEW t \in Transfers, Separate(t)' PROVE Separate(t)
    BY <1>1, <1>2 DEF Separate
  <1> QED BY <1>1, <1>2

(* Nothing happens to the list, the disk changes by what t's pieces do not. *)
LEMMA OneLifeKept ==
    ASSUME NEW t \in Transfers, OneLife(t), seen[t] \subseteq seen'[t],
           FilesWith(disk', t) \subseteq FilesWith(disk, t),
           DataTuple(t) \in DOMAIN list' <=> DataTuple(t) \in DOMAIN list,
           DataTuple(t) \in DOMAIN list => list'[DataTuple(t)] = list[DataTuple(t)],
           NewTuple(t) \in DOMAIN list' => NewTuple(t) \in DOMAIN list
    PROVE  OneLife(t)'
  <1>1. DataTuple(t)' = DataTuple(t) /\ NewTuple(t)' = NewTuple(t)
    BY DEF DataTuple, NewTuple, RequestTuple, Client, Server
  <1> QED BY <1>1 DEF OneLife

LEMMA RequestOneLife ==
    ASSUME OInv, [Next]_vars, NEW u \in Transfers, Request(u), RequestTaken(u),
           NEW t \in Transfers \ retried', Separate(t)'
    PROVE  OneLife(t)'
  <1>1. /\ OneLife(t) /\ seen[t] \subseteq seen'[t]
        /\ disk' = disk /\ FilesWith(disk', t) = FilesWith(disk, t)
    BY HistoryGrows DEF OInv, RequestTaken
  <1>2. CASE list' = list
    BY <1>1, <1>2, OneLifeKept
  <1>3. CASE /\ DOMAIN list' = DOMAIN list \cup {NewTuple(u)}
             /\ \A k \in DOMAIN list \ {NewTuple(u)} : list'[k] = list[k]
    <2>1. CASE u = t
      <3>1. seen[t] \subseteq {0}
        BY <2>1 DEF Request, Arrived
      <3>2. FilesWith(disk, t) = {} /\ (DataTuple(t) \in DOMAIN list => NewTuple(t) = DataTuple(t))
        BY <1>1, <3>1 DEF OneLife
      <3>3. DataTuple(t) \in DOMAIN list' => NewTuple(t) = DataTuple(t)
        BY <1>3, <2>1, <3>2
      <3> QED BY <1>1, <3>2, <3>3 DEF OneLife
    <2>2. CASE u # t
      <3>1. u.clientPort # t.clientPort
        <4>1. 0 \in seen'[u]
          BY DEF Request, Arrived, OInv
        <4> QED BY <2>2, <4>1 DEF Separate
      <3>2. NewTuple(u) # DataTuple(t) /\ NewTuple(u) # NewTuple(t)
        BY <3>1, TuplesApart
      <3> QED BY <1>1, <1>3, <3>2, OneLifeKept
    <2> QED BY <2>1, <2>2
  <1> QED BY <1>2, <1>3 DEF RequestTaken

LEMMA DataBlockOneLife ==
    ASSUME TInv, OInv, [Next]_vars, NEW u \in Transfers, NEW number \in 1..u.blocks,
           DataBlock(u, number), Found(DataTuple(u)), BlockTaken(u, FoundTuple(DataTuple(u))),
           NEW t \in Transfers \ retried', Separate(t)'
    PROVE  OneLife(t)'
  <1> DEFINE tuple == DataTuple(u)
             at == FoundTuple(tuple)
  <1>1. OneLife(t) /\ seen[t] \subseteq seen'[t]
    BY HistoryGrows DEF OInv
  <1>2. number \in seen'[u] /\ number # 0
    <2>1. u.blocks \in Nat
      BY TransfersAssumption
    <2>2. number # 0
      BY <2>1
    <2>3. Arrived(u, number)
      BY DEF DataBlock
    <2>4. number \in seen'[u]
      BY <2>3 DEF Arrived, OInv
    <2> QED BY <2>2, <2>4
  <1>3. /\ at \in DOMAIN list /\ (tuple \in DOMAIN list => at = tuple)
        /\ DOMAIN list' = (DOMAIN list \ {at}) \cup {tuple}
        /\ at = tuple /\ list[tuple].stream # 0 => list'[tuple].stream = list[tuple].stream
        /\ \A k \in DOMAIN list \ {at, tuple} : list'[k] = list[k]
        /\ \A f \in FilesWith(disk', t) \ FilesWith(disk, t) :
              f = list'[tuple].stream /\ DataTuple(t) = tuple
    BY FoundFacts DEF BlockTaken
  <1>4. 0 \notin FilesWith(disk, t)
    <2>1. disk.files \in Seq(Seq(Pieces))
      BY DEF TInv, IsDisk
    <2>2. 0 \notin DOMAIN disk.files
      BY <2>1
    <2> QED BY <2>2 DEF FilesWith
  <1>5. CASE u = t
    <2>1. ~(seen'[t] \subseteq {0}) /\ tuple = DataTuple(t) /\ tuple \in DOMAIN list'
      BY <1>2, <1>3, <1>5
    <2>2. CASE at = tuple
      <3>1. FilesWith(disk, t) \subseteq {list'[tuple].stream}
        BY <1>1, <1>3, <1>4, <2>1, <2>2 DEF OneLife
      <3>2. FilesWith(disk', t) \subseteq {list'[tuple].stream}
        BY <1>3, <3>1
      <3>3. t.clientPort = DefaultPort => NewTuple(t) = tuple \/ NewTuple(t) \notin DOMAIN list'
        BY <1>1, <1>3, <2>1, <2>2 DEF OneLife
      <3> HIDE DEF tuple, at
      <3> QED BY <2>1, <3>2, <3>3 DEF OneLife
    <2>3. CASE at # tuple
      <3>1. t.clientPort = DefaultPort => at = NewTuple(t)
        BY <1>5, <2>3, CandidatesOfOwn
      <3>2. FilesWith(disk, t) = {}
        BY <1>1, <1>3, <2>1, <2>3, <3>1 DEF OneLife
      <3>3. FilesWith(disk', t) \subseteq {list'[tuple].stream}
        BY <1>3, <3>2
      <3>4. t.clientPort = DefaultPort => NewTuple(t) \notin DOMAIN list'
        BY <1>3, <2>3, <3>1
      <3> HIDE DEF tuple, at
      <3> QED BY <2>1, <3>3, <3>4 DEF OneLife
    <2> QED BY <2>2, <2>3
  <1>6. CASE u # t
    <2>1. u.clientPort # t.clientPort
      BY <1>2, <1>6 DEF Separate
    <2>2. tuple # DataTuple(t) /\ tuple # NewTuple(t)
      BY <2>1, TuplesApart
    <2>3. FilesWith(disk', t) \subseteq FilesWith(disk, t)
      BY <1>3, <2>2
    <2>4. CASE at # DataTuple(t)
      BY <1>1, <1>3, <2>2, <2>3, <2>4, OneLifeKept
    <2>5. CASE at = DataTuple(t)
      <3>1. t.clientPort = DefaultPort
        BY <2>1, <2>5, CandidatesOfOther
      <3>2. DataTuple(t) \notin DOMAIN list'
        BY <1>3, <2>2, <2>5
      <3>3. NewTuple(t) = DataTuple(t) \/ NewTuple(t) \notin DOMAIN list'
        BY <1>1, <1>3, <2>2, <2>5, <3>1 DEF OneLife
      <3>4. \A f, g \in FilesWith(disk', t) : f = g
        BY <1>1, <2>3 DEF OneLife
      <3>5. seen'[t] \subseteq {0} => FilesWith(disk', t) = {}
        BY <1>1, <2>3 DEF OneLife
      <3> HIDE DEF tuple, at
      <3> QED BY <3>1, <3>2, <3>3, <3>4, <3>5 DEF OneLife
    <2> QED BY <2>4, <2>5
  <1> QED BY <1>5, <1>6

LEMMA OInvariance == Spec => [](TInv /\ OInv)
  <1>1. Init => OInv
    <2> SUFFICES ASSUME Init PROVE OInv
      OBVIOUS
    <2>1. /\ DOMAIN seen = Transfers /\ DOMAIN list = {} /\ disk.files = << >>
          /\ DOMAIN << >> = {}
      BY DEF Init, EmptyDisk
    <2>2. \A t \in Transfers : FilesWith(disk, t) = {}
      BY <2>1 DEF FilesWith
    <2> QED BY <2>1, <2>2 DEF OInv, OneLife
  <1>2. TInv /\ OInv /\ [Next]_vars => OInv'
    <2> SUFFICES ASSUME TInv, OInv, [Next]_vars PROVE OInv'
      OBVIOUS
    <2>1. DOMAIN seen' = Transfers
      BY HistoryGrows DEF OInv
    <2>2. ASSUME NEW t \in Transfers \ retried', Separate(t)' PROVE OneLife(t)'
      <3>1. CASE UNCHANGED <<list, disk>>
        <4>1. OneLife(t) /\ seen[t] \subseteq seen'[t]
          BY <2>2, HistoryGrows DEF OInv
        <4> QED BY <3>1, <4>1, OneLifeKept DEF FilesWith
      <3>2. CASE \E u \in Transfers : Request(u) /\ RequestTaken(u)
        BY <2>2, <3>2, RequestOneLife
      <3>3. CASE \E u \in Transfers : \E number \in 1..u.blocks :
                    /\ DataBlock(u, number) /\ Found(DataTuple(u))
                    /\ BlockTaken(u, FoundTuple(DataTuple(u)))
        BY <2>2, <3>3, DataBlockOneLife
      <3> QED BY <3>1, <3>2, <3>3, TftpStep
    <2> QED BY <2>1, <2>2 DEF OInv
  <1> QED BY <1>1, <1>2, InitTInv, TInvStep, PTL DEF Spec

(* The published files with a piece of a transfer.                          *)
LEMMA FilesOfFacts ==
    ASSUME IsDisk(disk), NEW t, NEW i \in FilesOf(t)
    PROVE  i \in 1..Len(disk.output) /\ disk.output[i].file \in FilesWith(disk, t)
  <1>1. i \in DOMAIN disk.output /\ \E j \in DOMAIN Output(disk)[i].data : Output(disk)[i].data[j].transfer = t
    BY DEF FilesOf
  <1>2. /\ disk.output \in Seq([name : Transfers, file : Nat])
        /\ disk.files \in Seq(Seq(Pieces))
    BY DEF IsDisk
  <1>3. i \in 1..Len(disk.output) /\ DOMAIN disk.files = 1..Len(disk.files)
    BY <1>1, <1>2
  <1>4. Output(disk)[i].data = disk.files[disk.output[i].file]
    BY <1>1 DEF Output
  <1>5. disk.output[i].file \in DOMAIN disk.files
    BY <1>3 DEF IsDisk
  <1> QED BY <1>1, <1>3, <1>4, <1>5 DEF FilesWith

(* No transfer has two files: however much is lost, repeated or late, an    *)
(* assembler that finished its file never opens another one, and no other   *)
(* assembler takes its place, unless the request came again or the client's *)
(* port was used again.                                                     *)
THEOREM OneFileEach == Spec => []OneFileForEachTransfer
  <1>1. TInv /\ OInv => OneFileForEachTransfer
    <2> SUFFICES ASSUME TInv, OInv, NEW t \in Transfers \ retried, Separate(t)
                 PROVE  Cardinality(FilesOf(t)) <= 1
      BY DEF OneFileForEachTransfer
    <2>1. IsDisk(disk) /\ \A f, g \in FilesWith(disk, t) : f = g
      BY DEF TInv, OInv, OneLife
    <2>2. ASSUME NEW i \in FilesOf(t)
          PROVE  i \in 1..Len(disk.output) /\ disk.output[i].file \in FilesWith(disk, t)
      BY <2>1, FilesOfFacts
    <2>3. \A i, j \in FilesOf(t) : i = j
      BY <2>1, <2>2 DEF IsDisk
    <2>4. FilesOf(t) = {} \/ \E i : FilesOf(t) = {i}
      BY <2>3
    <2>5. Cardinality({}) = 0 /\ \A i : Cardinality({i}) = 1
      BY FS_EmptySet, FS_Singleton
    <2>6. Cardinality(FilesOf(t)) = 0 \/ Cardinality(FilesOf(t)) = 1
      BY <2>4, <2>5
    <2> QED BY <2>6
  <1> QED BY <1>1, OInvariance, PTL

----------------------------------------------------------------------------
(* TFTP: a complete transfer is published.                                  *)

\* A block with all of its data, and a sequence of such blocks in the order of
\* their numbers, which are those of a set.
WholePiece(t, n) == [transfer |-> t, number |-> n, size |-> Length(t, n)]
Ascending(t, f, S) ==
    /\ \A i \in 1..Len(f) : f[i].number \in S /\ f[i] = WholePiece(t, f[i].number)
    /\ \A n \in S : \E i \in 1..Len(f) : f[i].number = n
    /\ \A i, j \in 1..Len(f) : i < j => f[i].number < f[j].number

Before(A, B) == \A m \in A, n \in B : m < n

LEMMA WrittenAtEnd ==
    ASSUME NEW P, NEW old \in Seq(P), NEW pieces \in Seq(P), NEW t,
           NEW A \in SUBSET Nat, NEW B \in SUBSET Nat,
           Ascending(t, old, A), Ascending(t, pieces, B), Before(A, B)
    PROVE  /\ Len(Overwritten(old, Len(old), pieces)) = Len(old) + Len(pieces)
           /\ Ascending(t, Overwritten(old, Len(old), pieces), A \cup B)
  <1> DEFINE o == Len(old)
             l == Len(pieces)
             new == Overwritten(old, Len(old), pieces)
  <1>1. o \in Nat /\ l \in Nat
    OBVIOUS
  <1>2. /\ Len(new) = o + l
        /\ \A i \in 1..o : new[i] = old[i]
        /\ \A i \in o + 1 .. o + l : new[i] = pieces[i - o]
    <2>1. Max({o, o + l}) = o + l
      <3>1. o + l \in Nat
        BY <1>1
      <3> HIDE DEF o, l
      <3>2. o + l <= Max({o, o + l}) /\ Max({o, o + l}) \in {o, o + l}
        BY <1>1, <3>1, GreaterOfTwo
      <3> QED BY <1>1, <3>2
    <2>2. new = [i \in 1..(o + l) |-> IF i \in o + 1 .. o + l THEN pieces[i - o] ELSE old[i]]
      BY <2>1 DEF Overwritten
    <2> HIDE DEF new, o, l
    <2>3. Len(new) = o + l
      BY <1>1, <2>2
    <2>4. \A i \in 1..o : i \in 1..(o + l) /\ ~(i \in o + 1 .. o + l)
      BY <1>1
    <2>5. \A i \in o + 1 .. o + l : i \in 1..(o + l)
      BY <1>1
    <2> QED BY <2>2, <2>3, <2>4, <2>5
  <1>3. /\ \A i \in 1..o : old[i].number \in A /\ old[i] = WholePiece(t, old[i].number)
        /\ \A n \in A : \E i \in 1..o : old[i].number = n
        /\ \A i, j \in 1..o : i < j => old[i].number < old[j].number
    BY DEF Ascending
  <1>4. /\ \A i \in 1..l : pieces[i].number \in B /\ pieces[i] = WholePiece(t, pieces[i].number)
        /\ \A n \in B : \E i \in 1..l : pieces[i].number = n
        /\ \A i, j \in 1..l : i < j => pieces[i].number < pieces[j].number
    BY DEF Ascending
  <1> HIDE DEF new, o, l
  <1>5. ASSUME NEW i \in 1..(o + l)
        PROVE  i \in 1..o \/ (i \in o + 1 .. o + l /\ i - o \in 1..l)
    BY <1>1
  <1>6. ASSUME NEW i \in 1..(o + l)
        PROVE  new[i].number \in A \cup B /\ new[i] = WholePiece(t, new[i].number)
    <2>1. CASE i \in 1..o
      BY <1>2, <1>3, <2>1
    <2>2. CASE i \in o + 1 .. o + l /\ i - o \in 1..l
      <3>1. new[i] = pieces[i - o]
        BY <1>2, <2>2
      <3> QED BY <1>4, <2>2, <3>1
    <2> QED BY <1>5, <2>1, <2>2
  <1>7. ASSUME NEW n \in A \cup B PROVE \E i \in 1..(o + l) : new[i].number = n
    <2>1. CASE n \in A
      <3>1. PICK i \in 1..o : old[i].number = n
        BY <1>3, <2>1
      <3>2. i \in 1..(o + l) /\ new[i] = old[i]
        BY <1>1, <1>2
      <3> QED BY <3>1, <3>2
    <2>2. CASE n \in B
      <3>1. PICK i \in 1..l : pieces[i].number = n
        BY <1>4, <2>2
      <3>2. o + i \in 1..(o + l) /\ o + i \in o + 1 .. o + l /\ (o + i) - o = i
        BY <1>1
      <3>3. new[o + i] = pieces[i]
        BY <1>2, <3>2
      <3> QED BY <3>1, <3>2, <3>3
    <2> QED BY <2>1, <2>2
  <1>8. ASSUME NEW i \in 1..(o + l), NEW j \in 1..(o + l), i < j
        PROVE  new[i].number < new[j].number
    <2>1. CASE j \in 1..o
      <3>1. i \in 1..o
        BY <1>1, <1>8, <2>1
      <3> QED BY <1>2, <1>3, <1>8, <2>1, <3>1
    <2>2. CASE i \in 1..o /\ j \in o + 1 .. o + l /\ j - o \in 1..l
      <3>1. new[i].number \in A
        BY <1>2, <1>3, <2>2
      <3>2. new[j].number \in B
        BY <1>2, <1>4, <2>2
      <3> QED BY <3>1, <3>2 DEF Before
    <2>3. CASE /\ i \in o + 1 .. o + l /\ i - o \in 1..l
               /\ j \in o + 1 .. o + l /\ j - o \in 1..l
      <3>1. i - o < j - o
        BY <1>1, <1>8, <2>3
      <3> QED BY <1>2, <1>4, <2>3, <3>1
    <2> QED BY <1>5, <2>1, <2>2, <2>3
  <1>9. Ascending(t, new, A \cup B)
    BY <1>2, <1>6, <1>7, <1>8 DEF Ascending
  <1> QED BY <1>2, <1>9 DEF new, o, l

(* Blocks of all numbers up to one, in order, are the file.                 *)
LEMMA AscendingIsFile ==
    ASSUME NEW P, NEW f \in Seq(P), NEW t, NEW b \in Nat, Ascending(t, f, 1..b)
    PROVE  f = [i \in 1..b |-> WholePiece(t, i)]
  <1> DEFINE l == Len(f)
             N(i) == f[i].number
  <1>1. /\ l \in Nat /\ \A i \in 1..l : N(i) \in 1..b /\ f[i] = WholePiece(t, N(i))
        /\ \A n \in 1..b : \E i \in 1..l : N(i) = n
        /\ \A i, j \in 1..l : i < j => N(i) < N(j)
    BY DEF Ascending
  <1>2. f = [i \in 1..l |-> f[i]]
    OBVIOUS
  <1> HIDE DEF N, l
  <1>3. \A i \in 1..l : N(i) >= i
    <2> DEFINE bad == {i \in 1..l : ~(N(i) >= i)}
    <2>1. SUFFICES ASSUME bad # {} PROVE FALSE
      OBVIOUS
    <2>2. PICK i \in bad : \A j \in bad : i <= j
      <3>1. bad \in SUBSET Nat
        OBVIOUS
      <3> HIDE DEF bad
      <3> QED BY <2>1, <3>1, LeastNumber
    <2>3. i \in 1..l /\ N(i) \in Nat /\ N(i) < i /\ N(i) >= 1
      BY <1>1
    <2>4. i - 1 \in 1..l /\ i - 1 < i
      BY <1>1, <2>3
    <2>5. i - 1 \notin bad
      <3> HIDE DEF bad
      <3> QED BY <2>2, <2>3, <2>4
    <2>6. N(i - 1) \in Nat /\ N(i - 1) >= i - 1 /\ N(i - 1) < N(i)
      <3>1. N(i - 1) \in 1..b
        BY <1>1, <2>4
      <3>2. N(i - 1) >= i - 1
        BY <2>4, <2>5
      <3>3. N(i - 1) < N(i)
        BY <1>1, <2>3, <2>4
      <3> QED BY <3>1, <3>2, <3>3
    <2> QED BY <2>3, <2>6
  <1>4. \A i \in 1..l : N(i) = i
    <2> DEFINE bad == {i \in 1..l : N(i) # i}
    <2>1. SUFFICES ASSUME bad # {} PROVE FALSE
      OBVIOUS
    <2>2. PICK i \in bad : \A j \in bad : i <= j
      <3>1. bad \in SUBSET Nat
        OBVIOUS
      <3> HIDE DEF bad
      <3> QED BY <2>1, <3>1, LeastNumber
    <2>3. i \in 1..l /\ N(i) \in 1..b /\ N(i) > i
      BY <1>1, <1>3
    <2>4. i \in 1..b
      BY <2>3
    <2>5. PICK j \in 1..l : N(j) = i
      BY <1>1, <2>4
    <2>6. ~(j < i)
      <3>1. j < i => j \notin bad
        <4> HIDE DEF bad
        <4> QED BY <2>2, <2>3
      <3>2. j \notin bad => N(j) = j
        OBVIOUS
      <3> QED BY <2>3, <2>5, <3>1, <3>2
    <2>7. j = i \/ i < j
      BY <2>3, <2>6
    <2>8. N(i) <= N(j)
      <3>1. N(i) \in Nat /\ N(j) \in Nat
        BY <1>1, <2>3
      <3> QED BY <1>1, <2>3, <2>7, <3>1
    <2> QED BY <2>3, <2>5, <2>8
  <1>5. l = b
    <2>1. l <= b
      <3>1. l > 0 => l \in 1..l
        BY <1>1
      <3>2. l > 0 => l \in 1..b
        BY <1>1, <1>4, <3>1
      <3> QED BY <1>1, <3>2
    <2>2. b <= l
      <3>1. b > 0 => b \in 1..b
        OBVIOUS
      <3>2. b > 0 => b \in 1..l
        BY <1>1, <1>4, <3>1
      <3> QED BY <1>1, <3>2
    <2> QED BY <1>1, <2>1, <2>2
  <1> QED BY <1>1, <1>2, <1>4, <1>5

(* A smaller number has fewer below it.                                     *)
LEMMA FewerBelow ==
    ASSUME NEW S \in SUBSET Nat, IsFiniteSet(S), NEW m \in S, NEW n \in S, m < n
    PROVE  Cardinality({k \in S : k < m}) < Cardinality({k \in S : k < n})
  <1> DEFINE A == {k \in S : k < m}
             B == {k \in S : k < n}
  <1>1. A \cup {m} \subseteq B /\ m \notin A /\ A \subseteq S /\ B \subseteq S /\ A \subseteq B
    <2>1. m \in Nat /\ n \in Nat
      OBVIOUS
    <2>2. \A k \in S : k < m => k < n
      BY <2>1
    <2>3. A \subseteq B /\ m \in B
      BY <2>2
    <2>4. m \notin A
      BY <2>1
    <2>5. A \subseteq S /\ B \subseteq S
      OBVIOUS
    <2> QED BY <2>3, <2>4, <2>5
  <1> HIDE DEF A, B
  <1>2. IsFiniteSet(A) /\ IsFiniteSet(B) /\ Cardinality(A) \in Nat /\ Cardinality(B) \in Nat
    BY <1>1, FS_Subset, FS_CardinalityType
  <1>3. Cardinality(A \cup {m}) = Cardinality(A) + 1
    BY <1>1, <1>2, FS_AddElement
  <1>4. Cardinality(A \cup {m}) <= Cardinality(B)
    BY <1>1, <1>2, FS_Subset
  <1> QED BY <1>2, <1>3, <1>4 DEF A, B

(* A window comes out in the order of its numbers.                          *)
LEMMA WindowAscends ==
    ASSUME NEW P, NEW window, IsWindow(window, P), NEW t,
           \A n \in DOMAIN window : window[n] = WholePiece(t, n)
    PROVE  /\ InOrder(window) \in Seq(P)
           /\ Ascending(t, InOrder(window), DOMAIN window)
  <1> DEFINE S == DOMAIN window
             size == Cardinality(S)
             Below(n) == Cardinality({m \in S : m < n})
             At(i) == NumberAt(window, i)
             q == InOrder(window)
  <1>1. S \in SUBSET Nat /\ IsFiniteSet(S) /\ size \in Nat
    BY FS_CardinalityType DEF IsWindow
  <1>2. q \in Seq(P) /\ Len(q) = size
    BY InOrderPieces
  <1>3. ASSUME NEW i \in 1..size PROVE At(i) \in S /\ Below(At(i)) = i - 1
    <2>1. \E n \in S : Below(n) = i - 1
      BY <1>1, RankedNumber
    <2> QED BY <2>1 DEF NumberAt
  <1>4. ASSUME NEW i \in 1..size PROVE q[i] = window[At(i)]
    BY DEF InOrder
  <1>5. ASSUME NEW m \in S, NEW n \in S, m < n PROVE Below(m) < Below(n)
    BY <1>1, <1>5, FewerBelow
  <1>6. ASSUME NEW n \in S PROVE Below(n) \in Nat /\ Below(n) < size
    <2> DEFINE L == {m \in S : m < n}
    <2>1. L \subseteq S /\ n \notin L
      BY <1>1
    <2>2. Below(n) = Cardinality(L)
      OBVIOUS
    <2> HIDE DEF L, S, Below
    <2>3. IsFiniteSet(L) /\ Cardinality(L) \in Nat
      BY <1>1, <2>1, FS_Subset, FS_CardinalityType
    <2>4. Cardinality(L \cup {n}) = Cardinality(L) + 1
      BY <2>1, <2>3, FS_AddElement
    <2>5. Cardinality(L \cup {n}) <= Cardinality(S)
      <3>1. L \cup {n} \subseteq S
        BY <2>1
      <3> QED BY <1>1, <3>1, FS_Subset
    <2> QED BY <1>1, <2>2, <2>3, <2>4, <2>5
  <1>7. \A i \in 1..size : q[i].number = At(i) /\ q[i] = WholePiece(t, At(i))
    <2> SUFFICES ASSUME NEW i \in 1..size
                 PROVE  q[i].number = At(i) /\ q[i] = WholePiece(t, At(i))
      OBVIOUS
    <2> DEFINE n == At(i)
    <2>1. n \in DOMAIN window /\ q[i] = window[n]
      BY <1>3, <1>4
    <2> HIDE DEF n, q
    <2>2. q[i] = WholePiece(t, n)
      BY <2>1
    <2> QED BY <2>2 DEF WholePiece, n
  <1> HIDE DEF S, size, Below, At, q
  <1>8. ASSUME NEW n \in S PROVE \E i \in 1..size : At(i) = n
    <2> DEFINE i == Below(n) + 1
    <2>1. i \in 1..size /\ Below(n) = i - 1
      BY <1>1, <1>6
    <2> HIDE DEF i
    <2>2. At(i) \in S /\ Below(At(i)) = Below(n) /\ Below(n) \in Nat
      BY <1>3, <1>6, <2>1
    <2>3. ~(At(i) < n) /\ ~(n < At(i))
      BY <1>5, <2>2
    <2>4. At(i) \in Nat /\ n \in Nat
      BY <1>1, <2>2
    <2>5. At(i) = n
      BY <2>3, <2>4
    <2> QED BY <2>1, <2>5
  <1>9. ASSUME NEW i \in 1..size, NEW j \in 1..size, i < j PROVE At(i) < At(j)
    <2>1. At(i) \in S /\ At(j) \in S /\ Below(At(i)) = i - 1 /\ Below(At(j)) = j - 1
      BY <1>3
    <2>2. ~(At(j) < At(i)) /\ At(i) # At(j)
      <3>1. At(j) < At(i) => j - 1 < i - 1
        BY <1>5, <2>1
      <3>2. At(i) = At(j) => i - 1 = j - 1
        BY <2>1
      <3> QED BY <1>1, <1>9, <3>1, <3>2
    <2>3. At(i) \in Nat /\ At(j) \in Nat
      BY <1>1, <2>1
    <2> QED BY <2>2, <2>3
  <1>10. \A i, j \in 1..size : i < j => q[i].number < q[j].number
    BY <1>7, <1>9
  <1>11. Ascending(t, q, S)
    BY <1>2, <1>3, <1>7, <1>8, <1>10 DEF Ascending
  <1> QED BY <1>2, <1>11 DEF q, S

\* An assembler with the blocks of a set: those that left its window are in the
\* file, in order, and come before those in the window, which is full by then.
Assembling(t, a, d, S) ==
    /\ a.active /\ a.open /\ a.name = t
    /\ DOMAIN a.window \subseteq S
    /\ \A n \in DOMAIN a.window : a.window[n] = WholePiece(t, n)
    /\ \A m \in S \ DOMAIN a.window, n \in DOMAIN a.window : m < n
    /\ Cardinality(DOMAIN a.window) <= WindowSize
    /\ S \ DOMAIN a.window # {} => Cardinality(DOMAIN a.window) = WindowSize
    /\ a.position = Len(d.files[a.stream])
    /\ Ascending(t, d.files[a.stream], S \ DOMAIN a.window)

LEMMA WriteAppends ==
    ASSUME NEW a, NEW d, IsAssembler(a), IsDisk(d), Backed(a, d), a.open,
           NEW pieces \in Seq(Pieces), a.position = Len(d.files[a.stream])
    PROVE  LET r == Write(a, d, pieces)
               file == d.files[a.stream]
           IN  /\ file \in Seq(Pieces)
               /\ r.disk.files[a.stream] = Overwritten(file, Len(file), pieces)
               /\ r.assembler.position = Len(file) + Len(pieces)
               /\ r.assembler.active = a.active /\ r.assembler.open = a.open
               /\ r.assembler.name = a.name /\ r.assembler.window = a.window
               /\ r.assembler.stream = a.stream /\ r.assembler.tuple = a.tuple
               /\ r.disk.cache = d.cache /\ r.disk.output = d.output
  <1> DEFINE s == a.stream
             old == d.files[s]
             new == Overwritten(old, a.position, pieces)
             b == [a EXCEPT !.position = a.position + Len(pieces)]
             files == [d.files EXCEPT ![s] = new]
             e == [d EXCEPT !.files = files]
             r == Write(a, d, pieces)
  <1>1. r.assembler = b /\ r.disk = e
    BY DEF Write, Result
  <1>2. /\ b.position = a.position + Len(pieces) /\ b.active = a.active /\ b.open = a.open
        /\ b.name = a.name /\ b.window = a.window /\ b.stream = s /\ b.tuple = a.tuple
    BY DEF IsAssembler
  <1>3. e.files = files /\ e.cache = d.cache /\ e.output = d.output
    BY DEF IsDisk
  <1>4. s \in DOMAIN d.files /\ old \in Seq(Pieces)
    <2>1. s \in 1..Len(d.files) /\ d.files \in Seq(Seq(Pieces))
      BY DEF Backed, IsDisk
    <2> QED BY <2>1
  <1>5. files[s] = new
    BY <1>4
  <1>6. new = Overwritten(old, Len(old), pieces) /\ a.position = Len(old)
    OBVIOUS
  <1> HIDE DEF b, e, new, files, r
  <1> QED BY <1>1, <1>2, <1>3, <1>4, <1>5, <1>6 DEF r

(* The first block of a transfer makes an assembler that begins a file.     *)
LEMMA FirstActivates ==
    ASSUME NEW t \in Transfers, NEW tuple, NEW d, IsDisk(d), tuple \notin DOMAIN d.cache
    PROVE  LET r == TryActivate(NewAssembler(tuple, "TFTP", t), d)
           IN  Assembling(t, r.assembler, r.disk, {})
  <1> DEFINE a == NewAssembler(tuple, "TFTP", t)
             n == Len(d.files) + 1
             files == Append(d.files, << >>)
             b == [a EXCEPT !.active = TRUE, !.stream = n, !.open = TRUE]
             e == [d EXCEPT !.files = files, !.cache = Put(d.cache, tuple, n)]
  <1>1. TryActivate(a, d) = [assembler |-> b, disk |-> e]
    <2>1. a.stream = 0 /\ a.tuple = tuple
      BY DEF NewAssembler
    <2> HIDE DEF a
    <2> QED BY <2>1 DEF TryActivate, Opened, Result
  <1>2. /\ b.active = TRUE /\ b.open = TRUE /\ b.name = t /\ b.window = << >>
        /\ b.stream = n /\ b.position = 0
    BY DEF NewAssembler
  <1>3. e.files = files
    BY DEF IsDisk
  <1>4. files[n] = << >>
    <2>1. d.files \in Seq(Seq(Pieces)) /\ << >> \in Seq(Pieces)
      BY DEF IsDisk
    <2> QED BY <2>1, AppendFacts
  <1>5. DOMAIN << >> = {} /\ Len(<< >>) = 0 /\ Cardinality({}) = 0
    BY FS_EmptySet
  <1> HIDE DEF b, e, files, n, a
  <1>6. Ascending(t, << >>, {})
    BY <1>5 DEF Ascending
  <1>7. Assembling(t, b, e, {})
    BY <1>2, <1>3, <1>4, <1>5, <1>6, WindowAssumption DEF Assembling
  <1> QED BY <1>1, <1>7 DEF a

(* A block that is in the window already, or comes behind all that left it. *)
LEMMA AddDataAssembles ==
    ASSUME NEW t, NEW a, NEW d, IsAssembler(a), IsDisk(d), Backed(a, d),
           NEW S \in SUBSET Nat, Assembling(t, a, d, S),
           NEW n \in Nat, n \in DOMAIN a.window \/ \A m \in S \ DOMAIN a.window : m < n,
           n \in S => n \in DOMAIN a.window,
           WholePiece(t, n) \in Pieces
    PROVE  LET r == AddData(a, d, WholePiece(t, n), n)
           IN  Assembling(t, r.assembler, r.disk, S \cup {n})
  <1> DEFINE piece == WholePiece(t, n)
             W == DOMAIN a.window
             b == Inserted(a, piece, n)
             V == W \cup {n}
  <1>0. piece \in Pieces /\ piece.size > 0
    BY DEF Pieces
  <1>1. /\ W \in SUBSET Nat /\ IsFiniteSet(W) /\ Cardinality(W) \in Nat
        /\ WindowSize \in Nat \ {0} /\ Cardinality(W) <= WindowSize /\ W \subseteq S
    BY FS_CardinalityType, WindowAssumption DEF IsAssembler, IsWindow, Assembling
  <1>2. CASE n \in W
    <2>1. AddData(a, d, piece, n) = [assembler |-> a, disk |-> d]
      BY <1>2 DEF AddData, Accepts, Result
    <2>2. S \cup {n} = S
      BY <1>1, <1>2
    <2> QED BY <2>1, <2>2
  <1>3. CASE n \notin W
    <2>1. /\ b.active = a.active /\ b.open = a.open /\ b.name = a.name /\ b.type = "TFTP"
          /\ b.stream = a.stream /\ b.position = a.position /\ b.tuple = a.tuple
          /\ b.window = Put(a.window, n, piece) /\ IsAssembler(b)
      BY <1>0, WindowFacts DEF IsAssembler, Inserted
    <2>2. /\ DOMAIN b.window = V
          /\ \A m \in V : b.window[m] = WholePiece(t, m)
      BY <2>1 DEF Put, Assembling
    <2>3. AddData(a, d, piece, n) = Spilled(b, d) \/ Spilled(b, d).assembler.type # "TFTP"
      <3>1. Accepts(a, piece, n)
        BY <1>0, <1>3 DEF Accepts, Counted, IsAssembler, Assembling
      <3> HIDE DEF b, piece
      <3>2. b = Inserted(a, piece, n)
        BY DEF b
      <3> QED BY <3>1, <3>2 DEF AddData, EndsByLength
    <2>4. n \notin S /\ \A m \in S \ W : m < n
      BY <1>3
    <2>5. IsFiniteSet(V) /\ Cardinality(V) = Cardinality(W) + 1 /\ V \in SUBSET Nat
      BY <1>1, <1>3, FS_AddElement
    <2>6. /\ a.active /\ a.open /\ a.name = t /\ a.position = Len(d.files[a.stream])
          /\ Ascending(t, d.files[a.stream], S \ W)
          /\ \A m \in S \ W, k \in W : m < k
          /\ S \ W # {} => Cardinality(W) = WindowSize
      BY DEF Assembling
    <2> HIDE DEF b, V, W, piece
    <2>7. CASE Cardinality(V) <= WindowSize
      <3>1. Spilled(b, d) = [assembler |-> b, disk |-> d]
        BY <2>2, <2>7 DEF Spilled, Result
      <3>2. AddData(a, d, piece, n) = [assembler |-> b, disk |-> d]
        BY <2>1, <2>3, <3>1
      <3>3. S \ W = {}
        BY <1>1, <2>5, <2>6, <2>7
      <3>4. (S \cup {n}) \ V = {} /\ V \subseteq S \cup {n}
        BY <1>1, <3>3 DEF V
      <3>5. Assembling(t, b, d, S \cup {n})
        BY <2>1, <2>2, <2>6, <2>7, <3>3, <3>4 DEF Assembling
      <3> QED BY <3>2, <3>5 DEF piece
    <2>8. CASE ~(Cardinality(V) <= WindowSize)
      <3> DEFINE f == Min(V)
                 c == [b EXCEPT !.window = Without(b.window, f)]
                 one == <<b.window[f]>>
                 r == Write(c, d, one)
                 X == V \ {f}
      <3>1. f \in V /\ f \in Nat /\ \A m \in V : f <= m
        <4>1. V # {}
          BY DEF V
        <4>2. \E i \in V : \A j \in V : i <= j
          BY <2>5, <4>1, LeastNumber
        <4>3. f \in V /\ \A m \in V : f <= m
          BY <4>2 DEF Min
        <4> HIDE DEF f
        <4> QED BY <2>5, <4>3
      <3>2. Cardinality(W) = WindowSize
        BY <1>1, <2>5, <2>8
      <3>3. Spilled(b, d) = r
        BY <2>2, <2>8 DEF Spilled
      <3> HIDE DEF f
      <3>4. b.window[f] = WholePiece(t, f) /\ b.window[f] \in Pieces
        <4>1. b.window[f] = WholePiece(t, f)
          BY <2>2, <3>1
        <4>2. \A m \in DOMAIN b.window : b.window[m] \in Pieces
          BY <2>1 DEF IsAssembler, IsWindow
        <4> QED BY <2>2, <3>1, <4>1, <4>2
      <3>5. /\ c.active = a.active /\ c.open = a.open /\ c.name = a.name /\ c.type = "TFTP"
            /\ c.stream = a.stream /\ c.position = a.position /\ c.tuple = a.tuple
            /\ c.window = Without(b.window, f) /\ IsAssembler(c)
        <4>1. IsWindow(Without(b.window, f), Pieces)
          BY <2>1, <3>1, <3>4, WindowFacts DEF IsAssembler
        <4> QED BY <2>1, <4>1 DEF IsAssembler
      <3>6. DOMAIN c.window = X /\ \A m \in X : c.window[m] = WholePiece(t, m)
        BY <2>2, <3>5 DEF Without
      <3>7. one \in Seq(Pieces) /\ Ascending(t, one, {f})
        <4> DEFINE p == b.window[f]
        <4>1. p \in Pieces /\ p.number = f /\ p = WholePiece(t, p.number)
          BY <3>4 DEF WholePiece
        <4> HIDE DEF p
        <4>2. one = <<p>>
          BY DEF p
        <4>3. /\ one \in Seq(Pieces) /\ Len(one) = 1 /\ \A i \in 1..1 : one[i] = p
          BY <4>1, <4>2
        <4> HIDE DEF one
        <4>4. \A i, j \in 1..1 : ~(i < j)
          OBVIOUS
        <4>5. 1 \in 1..1
          OBVIOUS
        <4> QED BY <4>1, <4>3, <4>4, <4>5 DEF Ascending
      <3>8. \A m \in S \ W, k \in {f} : m < k
        BY <1>3, <2>4, <2>6, <3>1 DEF V
      <3>9. Backed(c, d)
        BY <3>5 DEF Backed
      <3>10. c.position = Len(d.files[c.stream]) /\ c.open /\ Ascending(t, d.files[c.stream], S \ W)
        BY <2>6, <3>5
      <3> HIDE DEF c, one
      <3>11. /\ r.assembler.position = Len(r.disk.files[c.stream])
             /\ Ascending(t, r.disk.files[c.stream], (S \ W) \cup {f})
             /\ r.assembler.active = c.active /\ r.assembler.open = c.open
             /\ r.assembler.name = c.name /\ r.assembler.window = c.window
             /\ r.assembler.stream = c.stream
        <4> DEFINE A == S \ W
                   B == {f}
        <4>1. /\ A \in SUBSET Nat /\ B \in SUBSET Nat /\ Before(A, B)
              /\ IsAssembler(c) /\ IsDisk(d) /\ Backed(c, d) /\ c.open
              /\ one \in Seq(Pieces) /\ Ascending(t, one, B)
              /\ c.position = Len(d.files[c.stream]) /\ Ascending(t, d.files[c.stream], A)
          BY <3>1, <3>5, <3>7, <3>8, <3>9, <3>10 DEF Before
        <4> DEFINE file == d.files[c.stream]
        <4>2. /\ file \in Seq(Pieces) /\ r.disk.files[c.stream] = Overwritten(file, Len(file), one)
              /\ r.assembler.position = Len(file) + Len(one)
              /\ r.assembler.active = c.active /\ r.assembler.open = c.open
              /\ r.assembler.name = c.name /\ r.assembler.window = c.window
              /\ r.assembler.stream = c.stream
          <5>1. /\ IsAssembler(c) /\ IsDisk(d) /\ Backed(c, d) /\ c.open
                /\ one \in Seq(Pieces) /\ c.position = Len(d.files[c.stream])
            BY <4>1
          <5>2. r = Write(c, d, one)
            OBVIOUS
          <5> HIDE DEF r, A, B
          <5>3. file \in Seq(Pieces) /\ r.disk.files[c.stream] = Overwritten(file, Len(file), one)
            BY ONLY <5>1, <5>2, WriteAppends
          <5>4. r.assembler.position = Len(file) + Len(one)
            BY ONLY <5>1, <5>2, WriteAppends
          <5>5. r.assembler.name = c.name
            BY ONLY <5>1, <5>2, WriteAppends
          <5>7. r.assembler.active = c.active
            BY ONLY <5>1, <5>2, WriteAppends
          <5>8. r.assembler.open = c.open
            BY ONLY <5>1, <5>2, WriteAppends
          <5>6. r.assembler.window = c.window /\ r.assembler.stream = c.stream
            BY ONLY <5>1, <5>2, WriteAppends
          <5> QED BY <5>3, <5>4, <5>5, <5>6, <5>7, <5>8
        <4> HIDE DEF r, A, B, file
        <4>4. Ascending(t, file, A)
          BY <4>1 DEF file
        <4>5. /\ Len(Overwritten(file, Len(file), one)) = Len(file) + Len(one)
              /\ Ascending(t, Overwritten(file, Len(file), one), A \cup B)
          BY ONLY <4>1, <4>2, <4>4, WrittenAtEnd
        <4>3. /\ r.assembler.position = Len(r.disk.files[c.stream])
              /\ Ascending(t, r.disk.files[c.stream], A \cup B)
              /\ r.assembler.active = c.active /\ r.assembler.open = c.open
              /\ r.assembler.name = c.name /\ r.assembler.window = c.window
              /\ r.assembler.stream = c.stream
          BY ONLY <4>2, <4>5
        <4> QED BY ONLY <4>3 DEF A, B
      <3>12. r.assembler.type = "TFTP"
        <4>1. r.assembler.type = c.type
          BY DEF Write, Result
        <4> QED BY <3>5, <4>1
      <3> HIDE DEF r
      <3>13. AddData(a, d, piece, n) = r
        BY <2>3, <3>3, <3>12
      <3>14. (S \cup {n}) \ X = (S \ W) \cup {f} /\ X \subseteq S \cup {n}
        BY <1>1, <1>3, <2>4, <3>1 DEF V
      <3>15. Cardinality(X) = WindowSize
        <4>1. IsFiniteSet(V) /\ f \in V
          BY <2>5, <3>1
        <4>2. Cardinality(V \ {f}) = Cardinality(V) - 1
          BY ONLY <4>1, FS_RemoveElement
        <4> QED BY <1>1, <2>5, <3>2, <4>2
      <3>16. \A m \in (S \ W) \cup {f}, k \in X : m < k
        <4>1. ASSUME NEW k \in X PROVE f < k /\ k \in Nat
          BY <2>5, <3>1
        <4>2. ASSUME NEW m \in S \ W, NEW k \in X PROVE m < k
          BY <2>4, <2>6 DEF V
        <4> QED BY <4>1, <4>2
      <3>17. Assembling(t, r.assembler, r.disk, S \cup {n})
        <4>1. /\ r.assembler.active /\ r.assembler.open /\ r.assembler.name = t
              /\ DOMAIN r.assembler.window = X
              /\ \A m \in X : r.assembler.window[m] = WholePiece(t, m)
              /\ r.assembler.position = Len(r.disk.files[r.assembler.stream])
              /\ Ascending(t, r.disk.files[r.assembler.stream], (S \ W) \cup {f})
          BY <2>6, <3>5, <3>6, <3>11
        <4>2. WindowSize <= WindowSize
          BY <1>1
        <4> HIDE DEF X
        <4> QED BY <3>14, <3>15, <3>16, <4>1, <4>2 DEF Assembling
      <3> QED BY <3>13, <3>17 DEF piece
    <2> QED BY <2>7, <2>8
  <1> QED BY <1>2, <1>3

(* The file of a transfer is on the disk, finished.                         *)
IsPublished(t, d) ==
    \E i \in 1..Len(d.output) :
        d.output[i].name = t /\ d.files[d.output[i].file] = FileOf(t)

LEMMA StaysPublished ==
    ASSUME NEW t, NEW d, NEW e, IsDisk(d), IsDisk(e), IsPublished(t, d), Published(d, e)
    PROVE  IsPublished(t, e)
  <1>1. Len(d.output) \in Nat /\ Len(e.output) \in Nat /\ Len(d.output) <= Len(e.output)
    BY DEF IsDisk, Published
  <1>2. PICK i \in 1..Len(d.output) :
            d.output[i].name = t /\ d.files[d.output[i].file] = FileOf(t)
    BY DEF IsPublished
  <1>3. i \in 1..Len(e.output)
    BY <1>1
  <1>4. e.output[i] = d.output[i] /\ e.files[d.output[i].file] = d.files[d.output[i].file]
    BY DEF Published
  <1> QED BY <1>2, <1>3, <1>4 DEF IsPublished

\* The numbers of the blocks that have data.
FileBlocks(t) == IF t.last = 0 THEN t.blocks - 1 ELSE t.blocks

(* An assembler with all blocks publishes the file.                         *)
LEMMA FinishPublishes ==
    ASSUME NEW t \in Transfers, NEW a, NEW d, IsAssembler(a), IsDisk(d), Backed(a, d),
           Assembling(t, a, d, 1..FileBlocks(t))
    PROVE  IsPublished(t, FinishAssembling(a, d).disk)
  <1> DEFINE B == FileBlocks(t)
             W == DOMAIN a.window
             w == Write(a, d, InOrder(a.window))
             e == w.disk
             entry == [name |-> a.name, file |-> d.cache[a.tuple]]
             f == [e EXCEPT !.cache = Without(e.cache, a.tuple), !.output = Append(e.output, entry)]
  <1>0. B \in Nat
    BY TransfersAssumption DEF FileBlocks
  <1>1. /\ InOrder(a.window) \in Seq(Pieces) /\ Ascending(t, InOrder(a.window), W)
        /\ W \in SUBSET Nat /\ W \subseteq 1..B
    BY WindowAscends DEF IsAssembler, IsWindow, Assembling
  <1>2. /\ a.open /\ a.name = t /\ a.position = Len(d.files[a.stream])
        /\ Ascending(t, d.files[a.stream], (1..B) \ W)
        /\ \A m \in (1..B) \ W, n \in W : m < n
    BY DEF Assembling
  <1>3. /\ Ascending(t, e.files[a.stream], 1..B)
        /\ w.assembler.window = a.window /\ e.cache = d.cache /\ e.output = d.output
    <2>1. (1..B) \ W \in SUBSET Nat /\ ((1..B) \ W) \cup W = 1..B
      BY <1>0, <1>1
    <2> DEFINE A == (1..B) \ W
               pieces == InOrder(a.window)
    <2>2. /\ A \in SUBSET Nat /\ W \in SUBSET Nat /\ pieces \in Seq(Pieces)
          /\ Ascending(t, pieces, W) /\ Ascending(t, d.files[a.stream], A)
          /\ Before(A, W)
          /\ A \cup W = 1..B /\ w = Write(a, d, pieces)
      BY <1>1, <1>2, <2>1 DEF Before
    <2>3. IsAssembler(a) /\ IsDisk(d) /\ Backed(a, d) /\ a.open /\ a.position = Len(d.files[a.stream])
      BY <1>2
    <2> DEFINE file == d.files[a.stream]
    <2>4. /\ file \in Seq(Pieces) /\ w.disk.files[a.stream] = Overwritten(file, Len(file), pieces)
          /\ w.assembler.window = a.window /\ w.disk.cache = d.cache /\ w.disk.output = d.output
      BY ONLY <2>2, <2>3, WriteAppends
    <2> HIDE DEF A, W, pieces, w, B, file
    <2>5. Ascending(t, file, A)
      BY <2>2 DEF file
    <2>6. Ascending(t, Overwritten(file, Len(file), pieces), A \cup W)
      BY ONLY <2>2, <2>4, <2>5, WrittenAtEnd
    <2> QED BY <2>2, <2>4, <2>6
  <1>4. IsDisk(e)
    <2>0. \A n : WholePiece(t, n).transfer = t
      BY DEF WholePiece
    <2>1. TransfersIn(a.window) \subseteq {t}
      <3>1. \A n \in DOMAIN a.window : a.window[n].transfer = t
        BY <2>0 DEF Assembling
      <3> QED BY <3>1 DEF TransfersIn
    <2> DEFINE pieces == InOrder(a.window)
    <2>2. PiecesOf(pieces, {t})
      <3>1. pieces \in Seq(Pieces) /\ Ascending(t, pieces, W)
        BY <1>1
      <3> HIDE DEF pieces
      <3>2. \A i \in 1..Len(pieces) : pieces[i].transfer = t
        BY <2>0, <3>1 DEF Ascending
      <3> QED BY <3>1, <3>2 DEF PiecesOf
    <2>3. w = Write(a, d, pieces)
      OBVIOUS
    <2> HIDE DEF pieces, w
    <2> QED BY <2>1, <2>2, <2>3, WriteOnward DEF Onward
  <1>5. a.tuple \in DOMAIN d.cache /\ a.stream = d.cache[a.tuple]
    BY <1>2 DEF Backed
  <1>6. FinishAssembling(a, d).disk = f
    BY <1>3, <1>5 DEF FinishAssembling, Result, Named
  <1> HIDE DEF w, e, B, W
  <1>7. /\ Len(e.output) \in Nat /\ Len(f.output) = Len(e.output) + 1
        /\ f.output[Len(e.output) + 1] = entry /\ f.files = e.files
    <2>1. entry \in [name : Transfers, file : Nat]
      <3>1. d.cache[a.tuple] \in 1..Len(d.files) /\ a.name \in Transfers
        BY <1>5 DEF IsDisk, IsAssembler
      <3> QED BY <3>1
    <2>2. e.output \in Seq([name : Transfers, file : Nat]) /\ DOMAIN e = {"files", "cache", "output"}
      BY <1>4 DEF IsDisk
    <2> HIDE DEF entry
    <2>3. f.output = Append(e.output, entry) /\ f.files = e.files
      BY <2>2
    <2> HIDE DEF f
    <2> QED BY <2>1, <2>2, <2>3, AppendFacts
  <1>8. e.files[a.stream] = FileOf(t)
    <2>1. e.files[a.stream] \in Seq(Pieces)
      <3>1. a.stream \in 1..Len(e.files) /\ e.files \in Seq(Seq(Pieces))
        BY <1>3, <1>4, <1>5 DEF IsDisk
      <3> QED BY <3>1, ElementOfSeq
    <2>2. e.files[a.stream] = [i \in 1..B |-> WholePiece(t, i)]
      BY <1>0, <1>3, <2>1, AscendingIsFile
    <2> QED BY <2>2 DEF FileOf, WholePiece, B, FileBlocks
  <1>9. Len(e.output) + 1 \in 1..Len(f.output)
    BY <1>7
  <1>10. entry.name = t /\ entry.file = a.stream
    BY <1>2, <1>5
  <1> HIDE DEF f, entry
  <1> QED BY <1>6, <1>7, <1>8, <1>9, <1>10 DEF IsPublished

\* What is asked of a capture for the transfer to be complete.
Sure(t) == Separate(t) /\ ClientsElsewhere /\ Understood(t) /\ t.blocks < BlockModulus

\* How far the assembler of an orderly transfer is: it waits for the first
\* block, has those that came, or has published the file.
CaughtUp(t) ==
    /\ t \in orderly /\ seen[t] # {} => 0 \in seen[t] /\ BlksizeOf(DataTuple(t)) = t.blksize
    /\ t \in orderly /\ seen[t] = {0} =>
          NewTuple(t) \in DOMAIN list /\ list[NewTuple(t)] = NewAssembler(NewTuple(t), "TFTP", t)
    /\ t \in orderly /\ ~(seen[t] \subseteq {0}) /\ t.blocks \notin seen[t] =>
          /\ DataTuple(t) \in DOMAIN list
          /\ Assembling(t, list[DataTuple(t)], disk, seen[t] \ {0})
    /\ t \in orderly /\ t.blocks \in seen[t] => t \in whole
    /\ t \in whole => IsPublished(t, disk)

\* Whose an assembler, a temporary file or a size of block can be.
Listable(k) == \E u \in Transfers : seen[u] # {} /\ k \in {NewTuple(u), DataTuple(u)}
Stored(k) == \E u \in Transfers : ~(seen[u] \subseteq {0}) /\ k = DataTuple(u)
Negotiated(s) == \E u \in Transfers : seen[u] # {} /\ s = SessionId(RequestTuple(u))

KeysKnown ==
    /\ whole \subseteq Transfers
    /\ \A t \in Transfers : seen[t] \in SUBSET (0..t.blocks)
    /\ \A k \in DOMAIN list : Listable(k)
    /\ \A k \in DOMAIN disk.cache : Stored(k)
    /\ \A s \in DOMAIN blksizes : Negotiated(s)

CInv == KeysKnown /\ \A t \in Transfers \ retried : Sure(t) => CaughtUp(t)

LEMMA Kept ==
    ASSUME NEW t
    PROVE  /\ DataTuple(t)' = DataTuple(t) /\ NewTuple(t)' = NewTuple(t)
           /\ RequestTuple(t)' = RequestTuple(t)
           /\ \A k : SessionId(k)' = SessionId(k)
  BY DEF DataTuple, NewTuple, RequestTuple, Client, Server, SessionId

\* An assembler is of a transfer with its client's port.
LEMMA ListableBy ==
    ASSUME NEW t \in Transfers, NEW u \in Transfers,
           \/ RequestTuple(t) \in {NewTuple(u), DataTuple(u)}
           \/ DataTuple(t) \in {NewTuple(u), DataTuple(u)}
           \/ NewTuple(t) \in {NewTuple(u), DataTuple(u)}
    PROVE  u.clientPort = t.clientPort
  <1>1. t.kind \in {"read", "write"} /\ u.kind \in {"read", "write"}
    BY TransfersAssumption
  <1> QED BY <1>1 DEF DataTuple, NewTuple, RequestTuple, Client, Server

LEMMA NotListable ==
    ASSUME NEW t \in Transfers, Separate(t), ClientsElsewhere, seen[t] = {},
           \A k \in DOMAIN list : Listable(k)
    PROVE  ~Found(RequestTuple(t))
  <1>1. SUFFICES ASSUME NEW i \in 1..3, Candidates(RequestTuple(t))[i] \in DOMAIN list PROVE FALSE
    BY DEF Found
  <1> DEFINE k == Candidates(RequestTuple(t))[i]
  <1>2. k \in {RequestTuple(t), <<Server(DefaultPort), Server(DefaultPort)>>,
               <<<<"client", DefaultPort>>, Server(DefaultPort)>>}
    <2>1. i = 1 \/ i = 2 \/ i = 3
      OBVIOUS
    <2> QED BY <2>1 DEF Candidates, RequestTuple, WithPort, Client, Server
  <1>3. PICK u \in Transfers : seen[u] # {} /\ k \in {NewTuple(u), DataTuple(u)}
    BY <1>1 DEF Listable
  <1>4. u.clientPort # t.clientPort /\ u.clientPort # DefaultPort
    BY <1>3 DEF Separate, ClientsElsewhere
  <1>5. u.kind \in {"read", "write"}
    BY TransfersAssumption
  <1> HIDE DEF k
  <1> QED BY <1>2, <1>3, <1>4, <1>5 DEF DataTuple, NewTuple, RequestTuple, Client, Server

LEMMA FoundElsewhere ==
    ASSUME NEW t \in Transfers, NEW u \in Transfers, t.clientPort # u.clientPort,
           t.clientPort # DefaultPort, Found(DataTuple(u))
    PROVE  FoundTuple(DataTuple(u)) # DataTuple(t) /\ FoundTuple(DataTuple(u)) # NewTuple(t)
  <1>1. t.kind \in {"read", "write"} /\ u.kind \in {"read", "write"}
    BY TransfersAssumption
  <1> DEFINE d == DataTuple(u)
  <1>2. \/ FoundTuple(d) = d
        \/ FoundTuple(d) = <<WithPort(d[1], DefaultPort), d[2]>>
        \/ FoundTuple(d) = <<d[1], WithPort(d[2], DefaultPort)>>
    BY FoundFacts
  <1> DEFINE f == FoundTuple(d)
  <1> HIDE DEF f
  <1>3. \/ f = d
        \/ f = <<WithPort(d[1], DefaultPort), d[2]>>
        \/ f = <<d[1], WithPort(d[2], DefaultPort)>>
    BY <1>2 DEF f
  <1>4. f # DataTuple(t) /\ f # NewTuple(t)
    BY <1>1, <1>3 DEF DataTuple, NewTuple, RequestTuple, Client, Server, WithPort
  <1> QED BY <1>4 DEF f

LEMMA SessionsApart ==
    ASSUME NEW t \in Transfers, NEW u \in Transfers,
           SessionId(DataTuple(t)) = SessionId(RequestTuple(u))
    PROVE  t.clientPort = u.clientPort
  <1>1. t.kind \in {"read", "write"} /\ u.kind \in {"read", "write"}
    BY TransfersAssumption
  <1>2. Client(t) \in SessionId(DataTuple(t))
    BY <1>1 DEF SessionId, DataTuple
  <1>3. Client(t) = Client(u) \/ Client(t) = Server(DefaultPort)
    BY <1>2 DEF SessionId, RequestTuple
  <1> QED BY <1>3 DEF Client, Server

\* The histories of a frame, one by one.
LEMMA ArrivedFacts ==
    ASSUME DOMAIN seen = Transfers, NEW t \in Transfers, NEW number \in 0..t.blocks,
           Arrived(t, number), KeysKnown
    PROVE  /\ seen'[t] = seen[t] \cup {number}
           /\ \A u \in Transfers \ {t} : /\ seen'[u] = seen[u]
                                         /\ u \in orderly' <=> u \in orderly
                                         /\ u \in whole' <=> u \in whole
           /\ t \in orderly' => t \in orderly
           /\ t \in whole => t \in whole'
           /\ t \in whole' => t \in whole \/ (number = t.blocks /\ t \in orderly')
           /\ number = t.blocks /\ t \in orderly' => t \in whole'
           /\ number = 0 /\ t \notin retried' => seen[t] \subseteq {0}
           /\ number # 0 /\ t \in orderly' =>
                 /\ 0 \in seen[t]
                 /\ Cardinality({m \in seen[t] : m >= number}) <= WindowSize
                 /\ number = t.blocks => 0..(t.blocks - 1) \subseteq seen[t]
  <1>0. t.blocks \in Nat \ {0}
    BY TransfersAssumption
  <1> DEFINE still ==
               IF number = 0 THEN seen[t] \subseteq {0}
               ELSE /\ 0 \in seen[t]
                    /\ Cardinality({m \in seen[t] : m >= number}) <= WindowSize
                    /\ number = t.blocks => 0..(t.blocks - 1) \subseteq seen[t]
  <1>1. /\ seen' = [seen EXCEPT ![t] = seen[t] \cup {number}]
        /\ orderly' = IF still THEN orderly ELSE orderly \ {t}
        /\ whole' = IF number = t.blocks /\ still /\ t \in orderly THEN whole \cup {t} ELSE whole
        /\ retried' = IF number = 0 /\ seen[t] \ {0} # {} THEN retried \cup {t} ELSE retried
    BY DEF Arrived
  <1>2. t \in orderly' => still
    BY <1>1
  <1>3. still => IF number = 0 THEN seen[t] \subseteq {0}
                 ELSE /\ 0 \in seen[t]
                      /\ Cardinality({m \in seen[t] : m >= number}) <= WindowSize
                      /\ number = t.blocks => 0..(t.blocks - 1) \subseteq seen[t]
    OBVIOUS
  <1> HIDE DEF still
  <1>4. /\ seen'[t] = seen[t] \cup {number}
        /\ \A u \in Transfers \ {t} : seen'[u] = seen[u]
    BY <1>1
  <1>5. \A u \in Transfers \ {t} : (u \in orderly' <=> u \in orderly) /\ (u \in whole' <=> u \in whole)
    BY <1>1
  <1>6. /\ t \in orderly' => t \in orderly
        /\ t \in whole => t \in whole'
        /\ t \in whole' => t \in whole \/ (number = t.blocks /\ t \in orderly')
        /\ number = t.blocks /\ t \in orderly' => t \in whole'
    BY <1>1
  <1>7. number = 0 /\ t \notin retried' => seen[t] \subseteq {0}
    BY <1>1
  <1>8. number # 0 /\ t \in orderly' =>
                 /\ 0 \in seen[t]
                 /\ Cardinality({m \in seen[t] : m >= number}) <= WindowSize
                 /\ number = t.blocks => 0..(t.blocks - 1) \subseteq seen[t]
    BY <1>2, <1>3
  <1> QED BY <1>4, <1>5, <1>6, <1>7, <1>8

\* A block that an orderly capture brings is in the window or behind the file.
LEMMA InTime ==
    ASSUME NEW t, NEW a, NEW d, NEW T, IsFiniteSet(T), T \in SUBSET Nat, NEW S \in SUBSET T,
           IsWindow(a.window, Pieces), Assembling(t, a, d, S),
           NEW n \in Nat, Cardinality({m \in T : m >= n}) <= WindowSize
    PROVE  /\ n \in DOMAIN a.window \/ \A m \in S \ DOMAIN a.window : m < n
           /\ n \in S => n \in DOMAIN a.window
  <1> DEFINE W == DOMAIN a.window
             L == {m \in T : m >= n}
  <1>1. /\ W \subseteq S /\ W \in SUBSET Nat /\ IsFiniteSet(W) /\ Cardinality(W) \in Nat
        /\ \A m \in S \ W, k \in W : m < k
        /\ S \ W # {} => Cardinality(W) = WindowSize
        /\ WindowSize \in Nat
    BY FS_CardinalityType, WindowAssumption DEF IsWindow, Assembling
  <1>2. ASSUME NEW m \in S \ W PROVE m < n
    <2>1. SUFFICES ASSUME m >= n PROVE FALSE
      <3>1. m \in Nat
        BY <1>1
      <3> QED BY <3>1
    <2>2. W \cup {m} \subseteq L
      <3>1. m \in Nat /\ \A k \in W : k \in Nat /\ k \in T /\ m < k
        BY <1>1
      <3>2. \A k \in W : k >= n
        BY <2>1, <3>1
      <3> QED BY <2>1, <3>1, <3>2
    <2>3. IsFiniteSet(L) /\ Cardinality(L) \in Nat
      <3>1. L \subseteq T
        OBVIOUS
      <3> HIDE DEF L
      <3> QED BY <3>1, FS_Subset, FS_CardinalityType
    <2>4. Cardinality(L) <= WindowSize
      OBVIOUS
    <2> HIDE DEF L, W
    <2>5. Cardinality(W \cup {m}) = Cardinality(W) + 1
      BY <1>1, FS_AddElement
    <2>6. Cardinality(W \cup {m}) <= Cardinality(L)
      BY <2>2, <2>3, FS_Subset
    <2> QED BY <1>1, <2>3, <2>4, <2>5, <2>6
  <1>3. n \in S => n \in W
    BY <1>2
  <1> QED BY <1>2, <1>3

\* The sizes of block known for a tuple's session are as they were.
SizeKept(tuple) ==
    /\ SessionId(tuple) \in DOMAIN blksizes' <=> SessionId(tuple) \in DOMAIN blksizes
    /\ SessionId(tuple) \in DOMAIN blksizes => blksizes'[SessionId(tuple)] = blksizes[SessionId(tuple)]
EntryKept(k) == k \in DOMAIN list => k \in DOMAIN list' /\ list'[k] = list[k]
FileKept(k) ==
    k \in DOMAIN disk.cache => disk'.files[disk.cache[k]] = disk.files[disk.cache[k]]

LEMMA SameSize ==
    ASSUME NEW tuple, SizeKept(tuple)
    PROVE  BlksizeOf(tuple)' = BlksizeOf(tuple)
  BY DEF SizeKept, BlksizeOf, SessionId

(* A step that is about others.                                             *)
LEMMA CaughtUpKept ==
    ASSUME NEW t \in Transfers, TInv, CaughtUp(t), IsDisk(disk'), Published(disk, disk'),
           seen'[t] = seen[t], t \in orderly' => t \in orderly, t \in whole' <=> t \in whole,
           t \in orderly' /\ seen[t] # {} => SizeKept(DataTuple(t)),
           EntryKept(DataTuple(t)), EntryKept(NewTuple(t)), FileKept(DataTuple(t))
    PROVE  CaughtUp(t)'
  <1> DEFINE D == DataTuple(t)
             N == NewTuple(t)
  <1>1. DataTuple(t)' = D /\ NewTuple(t)' = N /\ NewAssembler(N, "TFTP", t)' = NewAssembler(N, "TFTP", t)
    BY Kept DEF NewAssembler
  <1>2. t \in orderly' /\ seen'[t] # {} => 0 \in seen'[t] /\ BlksizeOf(DataTuple(t))' = t.blksize
    <2> SUFFICES ASSUME t \in orderly', seen'[t] # {}
                 PROVE  0 \in seen'[t] /\ BlksizeOf(DataTuple(t))' = t.blksize
      OBVIOUS
    <2>1. 0 \in seen[t] /\ BlksizeOf(D) = t.blksize /\ SizeKept(D)
      BY DEF CaughtUp
    <2>2. BlksizeOf(D)' = BlksizeOf(D)
      BY <2>1, SameSize
    <2> QED BY <2>1, <2>2
  <1>3. t \in orderly' /\ seen'[t] = {0} =>
          N \in DOMAIN list' /\ list'[N] = NewAssembler(N, "TFTP", t)
    BY DEF CaughtUp, EntryKept
  <1>4. t \in orderly' /\ ~(seen'[t] \subseteq {0}) /\ t.blocks \notin seen'[t] =>
          D \in DOMAIN list' /\ Assembling(t, list'[D], disk', seen'[t] \ {0})
    <2> SUFFICES ASSUME t \in orderly', ~(seen'[t] \subseteq {0}), t.blocks \notin seen'[t]
                 PROVE  D \in DOMAIN list' /\ Assembling(t, list'[D], disk', seen'[t] \ {0})
      OBVIOUS
    <2>1. D \in DOMAIN list /\ Assembling(t, list[D], disk, seen[t] \ {0})
      BY DEF CaughtUp
    <2>2. D \in DOMAIN list' /\ list'[D] = list[D]
      BY <2>1 DEF EntryKept
    <2>3. disk'.files[list[D].stream] = disk.files[list[D].stream]
      <3>1. Backed(list[D], disk) /\ list[D].tuple = D /\ list[D].open
        BY <2>1 DEF TInv, Listed, Assembling
      <3> QED BY <3>1 DEF Backed, FileKept
    <2> QED BY <2>1, <2>2, <2>3 DEF Assembling
  <1>5. t \in orderly' /\ t.blocks \in seen'[t] => t \in whole'
    BY DEF CaughtUp
  <1>6. t \in whole' => IsPublished(t, disk')
    <2> SUFFICES ASSUME t \in whole' PROVE IsPublished(t, disk')
      OBVIOUS
    <2>1. IsDisk(disk) /\ IsPublished(t, disk)
      BY DEF TInv, CaughtUp
    <2> QED BY <2>1, StaysPublished
  <1> QED BY <1>1, <1>2, <1>3, <1>4, <1>5, <1>6 DEF CaughtUp

LEMMA PublishedSame ==
    ASSUME NEW d, IsDisk(d)
    PROVE  Published(d, d)
  <1>1. Len(d.output) \in Nat
    BY DEF IsDisk
  <1> QED BY <1>1 DEF Published

LEMMA RequestOfOther ==
    ASSUME TInv, OInv, CInv, NEW u \in Transfers, Request(u), RequestTaken(u),
           NEW t \in Transfers, t # u, Separate(t)', CaughtUp(t)
    PROVE  CaughtUp(t)'
  <1>0. KeysKnown /\ DOMAIN seen = Transfers /\ u.blocks \in Nat
    BY TransfersAssumption DEF CInv, OInv
  <1>1. Arrived(u, 0) /\ disk' = disk /\ IsDisk(disk)
    BY DEF Request, TInv
  <1>2. /\ seen'[t] = seen[t] /\ (t \in orderly' <=> t \in orderly) /\ (t \in whole' <=> t \in whole)
        /\ seen'[u] = seen[u] \cup {0}
    <2>1. 0 \in 0..u.blocks
      BY <1>0
    <2> QED BY <1>0, <1>1, <2>1, ArrivedFacts
  <1>3. u.clientPort # t.clientPort
    BY <1>2 DEF Separate
  <1>4. NewTuple(u) # DataTuple(t) /\ NewTuple(u) # NewTuple(t)
    BY <1>3, TuplesApart
  <1>5. EntryKept(DataTuple(t)) /\ EntryKept(NewTuple(t))
    <2>1. \/ list' = list
          \/ /\ DOMAIN list' = DOMAIN list \cup {NewTuple(u)}
             /\ \A k \in DOMAIN list \ {NewTuple(u)} : list'[k] = list[k]
      BY DEF RequestTaken
    <2> QED BY <1>4, <2>1 DEF EntryKept
  <1>6. SizeKept(DataTuple(t))
    <2> DEFINE s == SessionId(RequestTuple(u))
    <2>1. blksizes' = blksizes \/ blksizes' = Put(blksizes, s, u.parsed)
      BY DEF Request
    <2>2. SessionId(DataTuple(t)) # s
      BY <1>3, SessionsApart
    <2> HIDE DEF s
    <2> QED BY <2>1, <2>2 DEF SizeKept, Put
  <1>7. FileKept(DataTuple(t)) /\ Published(disk, disk') /\ IsDisk(disk')
    BY <1>1, PublishedSame DEF FileKept
  <1> QED BY <1>2, <1>5, <1>6, <1>7, CaughtUpKept

LEMMA BlockOfOther ==
    ASSUME TInv, OInv, CInv, NEW u \in Transfers, NEW number \in 1..u.blocks, DataBlock(u, number),
           \/ UNCHANGED <<list, disk>>
           \/ Found(DataTuple(u)) /\ BlockTaken(u, FoundTuple(DataTuple(u))),
           NEW t \in Transfers, t # u, Separate(t)', ClientsElsewhere', CaughtUp(t)
    PROVE  CaughtUp(t)'
  <1>0. KeysKnown /\ DOMAIN seen = Transfers /\ u.blocks \in Nat
    BY TransfersAssumption DEF CInv, OInv
  <1>1. Arrived(u, number) /\ blksizes' = blksizes /\ IsDisk(disk)
    BY DEF DataBlock, TInv
  <1>2. /\ seen'[t] = seen[t] /\ (t \in orderly' <=> t \in orderly) /\ (t \in whole' <=> t \in whole)
        /\ seen'[u] = seen[u] \cup {number}
    <2>1. number \in 0..u.blocks
      BY <1>0
    <2> QED BY <1>0, <1>1, <2>1, ArrivedFacts
  <1>3. u.clientPort # t.clientPort
    BY <1>2 DEF Separate
  <1>4. SizeKept(DataTuple(t))
    BY <1>1 DEF SizeKept
  <1>5. CASE UNCHANGED <<list, disk>>
    <2>1. /\ EntryKept(DataTuple(t)) /\ EntryKept(NewTuple(t)) /\ FileKept(DataTuple(t))
          /\ Published(disk, disk') /\ IsDisk(disk')
      BY <1>1, <1>5, PublishedSame DEF EntryKept, FileKept
    <2> QED BY <1>2, <1>4, <2>1, CaughtUpKept
  <1>6. CASE Found(DataTuple(u)) /\ BlockTaken(u, FoundTuple(DataTuple(u)))
    <2> DEFINE tuple == DataTuple(u)
               at == FoundTuple(tuple)
    <2>1. /\ DOMAIN list' = (DOMAIN list \ {at}) \cup {tuple} /\ OthersFiles(at, tuple)
          /\ \A k \in DOMAIN list \ {at, tuple} : list'[k] = list[k]
          /\ IsDisk(disk') /\ Published(disk, disk')
      BY <1>6 DEF BlockTaken
    <2>2. tuple # DataTuple(t) /\ tuple # NewTuple(t)
      BY <1>3, TuplesApart
    <2>3. CASE t.clientPort # DefaultPort
      <3>1. at # DataTuple(t) /\ at # NewTuple(t)
        BY <1>3, <1>6, <2>3, FoundElsewhere
      <3> HIDE DEF at, tuple
      <3>2. EntryKept(DataTuple(t)) /\ EntryKept(NewTuple(t)) /\ FileKept(DataTuple(t))
        BY <2>1, <2>2, <3>1 DEF EntryKept, FileKept, OthersFiles
      <3> QED BY <1>2, <1>4, <2>1, <3>2, CaughtUpKept
    <2>4. CASE t.clientPort = DefaultPort
      <3>1. seen'[t] = {}
        BY <2>4 DEF ClientsElsewhere
      <3>2. seen[t] = {} /\ t.blocks \notin seen[t]
        BY <1>2, <3>1
      <3>3. t \in whole' => IsPublished(t, disk')
        BY <1>1, <1>2, <2>1, StaysPublished DEF CaughtUp
      <3> QED BY <1>2, <3>1, <3>2, <3>3 DEF CaughtUp
    <2> QED BY <2>3, <2>4
  <1> QED BY <1>5, <1>6

(* The transfer's own request: it waits for its first block.                *)
LEMMA OwnRequest ==
    ASSUME TInv, OInv, CInv, NEW t \in Transfers \ retried', Request(t),
           Sure(t)', Sure(t), CaughtUp(t)
    PROVE  CaughtUp(t)'
  <1>0. KeysKnown /\ DOMAIN seen = Transfers /\ t.blocks \in Nat \ {0} /\ 0 \in 0..t.blocks
    BY TransfersAssumption DEF CInv, OInv
  <1>1. Arrived(t, 0) /\ disk' = disk /\ IsDisk(disk)
    BY DEF Request, TInv
  <1>2. /\ seen'[t] = seen[t] \cup {0} /\ seen[t] \subseteq {0}
        /\ t \in orderly' => t \in orderly
        /\ t \in whole' => t \in whole
    BY <1>0, <1>1, ArrivedFacts
  <1>3. seen'[t] = {0} /\ t.blocks \notin seen'[t]
    BY <1>0, <1>2
  <1> DEFINE N == NewTuple(t)
             new == NewAssembler(N, "TFTP", t)
             s == SessionId(RequestTuple(t))
  <1>4. DataTuple(t)' = DataTuple(t) /\ NewTuple(t)' = N /\ NewAssembler(N, "TFTP", t)' = new
    BY Kept DEF NewAssembler
  <1>5. t \in whole' => IsPublished(t, disk')
    BY <1>1, <1>2 DEF CaughtUp
  <1>6. CASE Found(RequestTuple(t))
    <2>1. list' = list /\ blksizes' = blksizes
      BY <1>6 DEF Request
    <2>2. seen[t] # {}
      BY <1>6, NotListable DEF Sure, CInv, KeysKnown
    <2>3. seen[t] = {0}
      BY <1>2, <2>2
    <2>4. BlksizeOf(DataTuple(t))' = BlksizeOf(DataTuple(t))
      BY <2>1, SameSize DEF SizeKept
    <2> QED BY <1>2, <1>3, <1>4, <1>5, <2>1, <2>3, <2>4 DEF CaughtUp
  <1>7. CASE ~Found(RequestTuple(t))
    <2>1. /\ list' = Put(list, N, new)
          /\ blksizes' = IF t.parsed = DefaultBlksize THEN blksizes ELSE Put(blksizes, s, t.parsed)
      BY <1>7 DEF Request
    <2>2. N \in DOMAIN list' /\ list'[N] = new
      BY <2>1 DEF Put
    <2>3. t \in orderly' => BlksizeOf(DataTuple(t))' = t.blksize
      <3> SUFFICES ASSUME t \in orderly' PROVE BlksizeOf(DataTuple(t))' = t.blksize
        OBVIOUS
      <3>1. BlksizeOf(DataTuple(t))' =
               IF SessionId(DataTuple(t)) \in DOMAIN blksizes'
               THEN blksizes'[SessionId(DataTuple(t))] ELSE DefaultBlksize
        BY Kept DEF BlksizeOf
      <3>2. t.blksize = DefaultBlksize => BlksizeOf(DataTuple(t)) = DefaultBlksize
        <4>1. CASE seen[t] = {0}
          BY <1>2, <4>1 DEF CaughtUp
        <4>2. CASE seen[t] = {}
          <5>1. SessionId(DataTuple(t)) \notin DOMAIN blksizes
            <6>1. SUFFICES ASSUME SessionId(DataTuple(t)) \in DOMAIN blksizes PROVE FALSE
              OBVIOUS
            <6>2. PICK u \in Transfers :
                     seen[u] # {} /\ SessionId(DataTuple(t)) = SessionId(RequestTuple(u))
              BY <1>0, <6>1 DEF KeysKnown, Negotiated
            <6>3. u.clientPort = t.clientPort /\ u # t
              BY <4>2, <6>2, SessionsApart
            <6> QED BY <6>2, <6>3 DEF Sure, Separate
          <5> QED BY <5>1 DEF BlksizeOf
        <4> QED BY <1>2, <4>1, <4>2
      <3>3. CASE t.parsed = DefaultBlksize
        <4>1. blksizes' = blksizes /\ t.blksize = DefaultBlksize
          BY <2>1, <3>3 DEF Sure, Understood
        <4> QED BY <3>1, <3>2, <4>1 DEF BlksizeOf
      <3>4. CASE t.parsed # DefaultBlksize /\ t.serverPort = DefaultPort
        <4>1. blksizes' = Put(blksizes, s, t.parsed) /\ t.parsed = t.blksize
          BY <2>1, <3>4 DEF Sure, Understood
        <4>3. SessionId(DataTuple(t)) = s
          <5>1. t.kind \in {"read", "write"}
            BY TransfersAssumption
          <5> QED BY <3>4, <5>1 DEF SessionId, DataTuple, RequestTuple
        <4> HIDE DEF s
        <4> QED BY <3>1, <4>1, <4>3 DEF Put
      <3>5. CASE t.parsed # DefaultBlksize /\ t.serverPort # DefaultPort
        <4>1. blksizes' = Put(blksizes, s, t.parsed) /\ t.blksize = DefaultBlksize
          BY <2>1, <3>5 DEF Sure, Understood
        <4>2. SessionId(DataTuple(t)) # s
          <5>1. Server(t.serverPort) \in SessionId(DataTuple(t))
            BY DEF SessionId, DataTuple
          <5>2. Server(t.serverPort) \notin s
            BY <3>5 DEF SessionId, RequestTuple, Server, Client
          <5> QED BY <5>1, <5>2
        <4> HIDE DEF s
        <4> QED BY <3>1, <3>2, <4>1, <4>2 DEF BlksizeOf, Put
      <3> QED BY <3>3, <3>4, <3>5
    <2> QED BY <1>2, <1>3, <1>4, <1>5, <2>2, <2>3 DEF CaughtUp
  <1> QED BY <1>6, <1>7

\* The assembler and the disk that a data block of t finds, or makes.
Moved(t) == Replaced(DataTuple(t), FoundTuple(DataTuple(t)))
Active(t) ==
    LET a == Moved(t).list[DataTuple(t)]
    IN  IF a.active THEN Result(a, Moved(t).disk) ELSE TryActivate(a, Moved(t).disk)

(* While no block came, the assembler found is the one the request made.    *)
LEMMA FoundOwn ==
    ASSUME TInv, OInv, CInv, NEW t \in Transfers \ retried, Sure(t), CaughtUp(t),
           t \in orderly, seen[t] = {0}
    PROVE  Found(DataTuple(t)) /\ FoundTuple(DataTuple(t)) = NewTuple(t)
  <1> DEFINE D == DataTuple(t)
             N == NewTuple(t)
             second == <<WithPort(D[1], DefaultPort), D[2]>>
             third == <<D[1], WithPort(D[2], DefaultPort)>>
             strange == IF t.kind = "read" THEN third ELSE second
  <1>1. t.kind \in {"read", "write"}
    BY TransfersAssumption
  <1>2. N \in DOMAIN list
    BY DEF CaughtUp
  <1>3. t.kind = "read" => second = N
    BY DEF DataTuple, NewTuple, Client, Server, WithPort
  <1>4. t.kind = "write" => third = N
    BY DEF DataTuple, NewTuple, RequestTuple, Client, Server, WithPort
  <1>5. Found(D)
    <2>1. Candidates(D)[2] = second /\ Candidates(D)[3] = third /\ 2 \in 1..3 /\ 3 \in 1..3
      BY DEF Candidates
    <2> HIDE DEF D, N, second, third
    <2> QED BY <1>1, <1>2, <1>3, <1>4, <2>1 DEF Found
  <1>6. strange \notin DOMAIN list
    <2>1. SUFFICES ASSUME strange \in DOMAIN list PROVE FALSE
      OBVIOUS
    <2>2. PICK u \in Transfers : seen[u] # {} /\ strange \in {NewTuple(u), DataTuple(u)}
      BY <2>1 DEF CInv, KeysKnown, Listable
    <2>3. u.clientPort # DefaultPort /\ u.kind \in {"read", "write"}
      BY <2>2, TransfersAssumption DEF Sure, ClientsElsewhere
    <2>4. strange \in {<<Server(t.serverPort), <<"client", DefaultPort>>>>,
                       <<<<"client", DefaultPort>>, Server(t.serverPort)>>}
      BY <1>1 DEF DataTuple, Client, Server, WithPort
    <2> HIDE DEF strange
    <2> QED BY <2>2, <2>3, <2>4 DEF DataTuple, NewTuple, RequestTuple, Client, Server
  <1>7. D \in DOMAIN list => N = D
    BY DEF OInv, OneLife, Sure
  <1>8. /\ FoundTuple(D) \in DOMAIN list
        /\ D \in DOMAIN list => FoundTuple(D) = D
        /\ FoundTuple(D) = D \/ FoundTuple(D) = second \/ FoundTuple(D) = third
    BY <1>5, FoundFacts
  <1>9. t.kind = "read" => strange = third
    OBVIOUS
  <1>10. t.kind = "write" => strange = second
    OBVIOUS
  <1> DEFINE f == FoundTuple(D)
  <1> HIDE DEF D, N, second, third, strange, f
  <1>11. f \in DOMAIN list /\ (D \in DOMAIN list => f = D) /\ (f = D \/ f = second \/ f = third)
    BY <1>8 DEF f
  <1>12. f = N
    BY <1>1, <1>3, <1>4, <1>6, <1>7, <1>9, <1>10, <1>11
  <1> QED BY <1>5, <1>12 DEF f, D, N

LEMMA OwnActive ==
    ASSUME TInv, OInv, CInv, NEW t \in Transfers \ retried, Sure(t), CaughtUp(t),
           t \in orderly, 0 \in seen[t], t.blocks \notin seen[t]
    PROVE  /\ Found(DataTuple(t)) /\ DataTuple(t) \in DOMAIN Moved(t).list
           /\ IsAssembler(Active(t).assembler) /\ IsDisk(Active(t).disk)
           /\ Backed(Active(t).assembler, Active(t).disk)
           /\ Assembling(t, Active(t).assembler, Active(t).disk, seen[t] \ {0})
  <1> DEFINE D == DataTuple(t)
             N == NewTuple(t)
             S == seen[t] \ {0}
  <1>0. IsDisk(disk)
    BY DEF TInv
  <1>1. CASE seen[t] = {0}
    <2> DEFINE new == NewAssembler(D, "TFTP", t)
               r == TryActivate(new, disk)
    <2>1. Found(D) /\ FoundTuple(D) = N
      BY <1>1, FoundOwn
    <2>2. N \in DOMAIN list /\ list[N] = NewAssembler(N, "TFTP", t)
      BY <1>1 DEF CaughtUp
    <2>3. /\ D \in DOMAIN Moved(t).list /\ Moved(t).list[D] = new /\ Moved(t).disk = disk
      <3>1. Moved(t) = Replaced(D, N)
        BY <2>1 DEF Moved
      <3>2. list[N].active = FALSE /\ list[N].stream = 0 /\ list[N].name = t
        BY <2>2 DEF NewAssembler
      <3>3. CASE N = D
        <4>1. Moved(t) = [list |-> list, disk |-> disk]
          BY <3>1, <3>3 DEF Replaced
        <4> QED BY <2>2, <3>3, <4>1
      <3>4. CASE N # D
        <4>1. Moved(t) = [list |-> Put(Without(list, N), D, new),
                          disk |-> ClearAssembler(list[N], disk).disk]
          BY <3>1, <3>2, <3>4 DEF Replaced
        <4>2. ClearAssembler(list[N], disk).disk = disk
          BY <3>2 DEF ClearAssembler, Result
        <4> HIDE DEF new
        <4> QED BY <4>1, <4>2 DEF Put
      <3> QED BY <3>3, <3>4
    <2>4. Active(t) = r
      <3>1. new.active = FALSE
        BY DEF NewAssembler
      <3> HIDE DEF new
      <3> QED BY <2>3, <3>1 DEF Active
    <2>5. D \notin DOMAIN disk.cache
      <3>1. SUFFICES ASSUME D \in DOMAIN disk.cache PROVE FALSE
        OBVIOUS
      <3>2. PICK u \in Transfers : ~(seen[u] \subseteq {0}) /\ D = DataTuple(u)
        BY <3>1 DEF CInv, KeysKnown, Stored
      <3>3. u.clientPort = t.clientPort /\ u # t /\ seen[u] # {}
        BY <1>1, <3>2, ListableBy
      <3> QED BY <3>3 DEF Sure, Separate
    <2>6. Listed(new, D, disk)
      BY NewIsListed
    <2> HIDE DEF new, D
    <2>7. Onward(new, disk, r.assembler, r.disk, Sharing(D))
      BY <1>0, <2>6, TryActivateOnward DEF Listed
    <2>8. IsAssembler(r.assembler) /\ IsDisk(r.disk) /\ Backed(r.assembler, r.disk)
      BY <2>7 DEF Onward
    <2>9. Assembling(t, r.assembler, r.disk, {})
      BY <1>0, <2>5, FirstActivates DEF new
    <2>10. S = {}
      BY <1>1
    <2> QED BY <2>1, <2>3, <2>4, <2>8, <2>9, <2>10 DEF D
  <1>2. CASE seen[t] # {0}
    <2>1. D \in DOMAIN list /\ Assembling(t, list[D], disk, S)
      BY <1>2 DEF CaughtUp
    <2>2. Found(D) /\ FoundTuple(D) = D
      <3>1. Candidates(D)[1] = D /\ 1 \in 1..3
        BY DEF Candidates
      <3>2. Found(D)
        BY <2>1, <3>1 DEF Found
      <3> QED BY <2>1, <3>2, FoundFacts
    <2>3. Moved(t) = [list |-> list, disk |-> disk]
      BY <2>2 DEF Moved, Replaced
    <2>4. Active(t) = [assembler |-> list[D], disk |-> disk]
      BY <2>1, <2>3 DEF Active, Assembling, Result
    <2>5. IsAssembler(list[D]) /\ Backed(list[D], disk)
      BY <2>1 DEF TInv, Listed
    <2> QED BY <1>0, <2>1, <2>2, <2>3, <2>4, <2>5
  <1> QED BY <1>1, <1>2

LEMMA LesserOf ==
    ASSUME NEW a \in Nat, NEW b \in Nat, a <= b
    PROVE  Min({a, b}) = a
  <1>1. {a, b} \in SUBSET Nat /\ {a, b} # {}
    OBVIOUS
  <1>2. \E x \in {a, b} : \A y \in {a, b} : x <= y
    OBVIOUS
  <1>3. Min({a, b}) \in {a, b} /\ \A y \in {a, b} : Min({a, b}) <= y
    BY <1>2 DEF Min
  <1> QED BY <1>3

(* A block is taken with all of its data when the size is known.            *)
LEMMA PieceIsWhole ==
    ASSUME NEW t \in Transfers, NEW n \in 1..t.blocks, Understood(t)
    PROVE  /\ Piece(t, n, t.blksize) = WholePiece(t, n)
           /\ WholePiece(t, n).size > 0 => WholePiece(t, n) \in Pieces
           /\ WholePiece(t, n).size = IF n = t.blocks THEN t.last ELSE t.blksize
           /\ WholePiece(t, n).transfer = t
  <1>0. /\ t.blocks \in Nat \ {0} /\ t.blksize \in Nat \ {0} /\ t.last \in Nat
        /\ t.last < t.blksize /\ n \in Nat
    BY TransfersAssumption
  <1>1. Length(t, n) \in Nat /\ Length(t, n) <= t.blksize
    BY <1>0 DEF Length
  <1>2. Min({Length(t, n), t.blksize}) = Length(t, n)
    BY <1>0, <1>1, LesserOf
  <1>3. Piece(t, n, t.blksize) = WholePiece(t, n)
    BY <1>2 DEF Piece, WholePiece
  <1>4. t.blksize \in Sizes
    BY DEF Understood, Sizes
  <1> DEFINE p == WholePiece(t, n)
  <1>5. p.number = n /\ p.transfer = t /\ p.size = Length(t, n)
    BY DEF WholePiece
  <1>6. p.size > 0 => p \in Pieces
    <2>1. p \in {Piece(u, m, b) : u \in Transfers, m \in Nat, b \in Sizes}
      BY <1>0, <1>3, <1>4
    <2> HIDE DEF p
    <2> QED BY <1>5, <2>1 DEF Pieces
  <1> HIDE DEF p
  <1>7. p.size = IF n = t.blocks THEN t.last ELSE t.blksize
    BY <1>5 DEF Length
  <1> QED BY <1>3, <1>5, <1>6, <1>7 DEF p

(* A block of an orderly transfer, before the last one came.                *)
LEMMA OwnBlockAdded ==
    ASSUME NEW t \in Transfers, Understood(t),
           NEW a, NEW d, IsAssembler(a), IsDisk(d), Backed(a, d),
           NEW n \in 1..t.blocks, seen[t] \in SUBSET (0..t.blocks),
           Assembling(t, a, d, seen[t] \ {0}),
           Cardinality({m \in seen[t] : m >= n}) <= WindowSize
    PROVE  LET r == AddData(a, d, WholePiece(t, n), n)
           IN  /\ IsAssembler(r.assembler) /\ IsDisk(r.disk) /\ Backed(r.assembler, r.disk)
               /\ n # t.blocks \/ t.last # 0 =>
                     Assembling(t, r.assembler, r.disk, (seen[t] \ {0}) \cup {n})
               /\ n = t.blocks /\ t.last = 0 =>
                     Assembling(t, r.assembler, r.disk, seen[t] \ {0})
  <1> DEFINE S == seen[t] \ {0}
             p == WholePiece(t, n)
             r == AddData(a, d, p, n)
  <1>0. t.blocks \in Nat \ {0} /\ t.blksize \in Nat \ {0} /\ t.last \in Nat /\ n \in Nat
    BY TransfersAssumption
  <1>1. /\ p.size > 0 => p \in Pieces
        /\ p.size = IF n = t.blocks THEN t.last ELSE t.blksize
        /\ p.transfer = t
    BY PieceIsWhole
  <1>2. /\ IsFiniteSet(seen[t]) /\ seen[t] \in SUBSET Nat /\ S \in SUBSET seen[t]
        /\ S \in SUBSET Nat
    <2>1. IsFiniteSet(0..t.blocks)
      <3>1. 0 \in Int /\ t.blocks \in Int
        BY <1>0
      <3> QED BY <3>1, FS_Interval
    <2>2. seen[t] \subseteq 0..t.blocks
      OBVIOUS
    <2>3. IsFiniteSet(seen[t])
      BY <2>1, <2>2, FS_Subset
    <2> QED BY <1>0, <2>2, <2>3
  <1>3. TransfersIn(a.window) \subseteq {t} /\ IsWindow(a.window, Pieces)
    <2>1. \A m : WholePiece(t, m).transfer = t
      BY DEF WholePiece
    <2>2. \A m \in DOMAIN a.window : a.window[m].transfer = t
      BY <2>1 DEF Assembling
    <2> QED BY <2>2 DEF TransfersIn, IsAssembler
  <1>4. Assembling(t, a, d, S) /\ Cardinality({m \in seen[t] : m >= n}) <= WindowSize
    OBVIOUS
  <1> HIDE DEF S, p, r
  <1>5. IsAssembler(r.assembler) /\ IsDisk(r.disk) /\ Backed(r.assembler, r.disk)
    <2>1. Onward(a, d, r.assembler, r.disk, {t})
      <3>1. p.transfer \in {t}
        BY <1>1
      <3> QED BY <1>0, <1>1, <1>3, <3>1, AddDataOnward DEF r
    <2> QED BY <2>1 DEF Onward
  <1>6. ASSUME n # t.blocks \/ t.last # 0
        PROVE  Assembling(t, r.assembler, r.disk, S \cup {n})
    <2>1. p \in Pieces
      BY <1>0, <1>1, <1>6
    <2>2. /\ n \in DOMAIN a.window \/ \A m \in S \ DOMAIN a.window : m < n
          /\ n \in S => n \in DOMAIN a.window
      BY <1>0, <1>2, <1>3, <1>4, InTime
    <2> QED BY <1>0, <1>2, <1>4, <2>1, <2>2, AddDataAssembles DEF p, r
  <1>7. ASSUME n = t.blocks, t.last = 0
        PROVE  Assembling(t, r.assembler, r.disk, S)
    <2>1. ~(p.size > 0)
      BY <1>1, <1>7
    <2>2. r = [assembler |-> a, disk |-> d]
      BY <2>1 DEF r, AddData, Accepts, Result
    <2> QED BY <1>4, <2>2
  <1> QED BY <1>5, <1>6, <1>7 DEF r, p, S

(* The transfer's own block.                                                *)
LEMMA OwnBlock ==
    ASSUME TInv, OInv, CInv, NEW t \in Transfers \ retried, NEW n \in 1..t.blocks, DataBlock(t, n),
           IsDisk(disk'), Published(disk, disk'), Sure(t), CaughtUp(t)
    PROVE  CaughtUp(t)'
  <1>0. /\ KeysKnown /\ DOMAIN seen = Transfers /\ t.blocks \in Nat \ {0} /\ n \in 0..t.blocks
        /\ n \in Nat \ {0} /\ t.blksize \in Nat \ {0} /\ t.last \in Nat /\ t.last < t.blksize
    BY TransfersAssumption DEF CInv, OInv
  <1>1. Arrived(t, n) /\ blksizes' = blksizes /\ IsDisk(disk)
    BY DEF DataBlock, TInv
  <1>2. /\ seen'[t] = seen[t] \cup {n} /\ seen[t] \in SUBSET (0..t.blocks)
        /\ t \in orderly' => t \in orderly
        /\ t \in whole => t \in whole'
        /\ t \in whole' => t \in whole \/ (n = t.blocks /\ t \in orderly')
        /\ n = t.blocks /\ t \in orderly' => t \in whole'
        /\ t \in orderly' => /\ 0 \in seen[t]
                             /\ Cardinality({m \in seen[t] : m >= n}) <= WindowSize
                             /\ n = t.blocks => 0..(t.blocks - 1) \subseteq seen[t]
    BY <1>0, <1>1, ArrivedFacts DEF KeysKnown
  <1> DEFINE D == DataTuple(t)
             S == seen[t] \ {0}
  <1>3. DataTuple(t)' = D
    BY Kept
  <1>4. ASSUME t \in whole PROVE IsPublished(t, disk')
    BY <1>1, <1>4, StaysPublished DEF CaughtUp
  <1>5. ~(seen'[t] \subseteq {0}) /\ seen'[t] # {0}
    BY <1>0, <1>2
  <1>6. CASE t \notin orderly'
    BY <1>2, <1>4, <1>6 DEF CaughtUp
  <1>7. ASSUME t \in orderly'
        PROVE  0 \in seen'[t] /\ BlksizeOf(DataTuple(t))' = t.blksize /\ BlksizeOf(D) = t.blksize
    <2>1. 0 \in seen[t] /\ t \in orderly
      BY <1>2, <1>7
    <2>2. BlksizeOf(D) = t.blksize
      BY <2>1 DEF CaughtUp
    <2>3. BlksizeOf(D)' = BlksizeOf(D)
      BY <1>1, SameSize DEF SizeKept
    <2> QED BY <1>2, <2>1, <2>2, <2>3
  <1>8. CASE t \in orderly' /\ t.blocks \in seen[t]
    <2>1. t \in whole /\ t.blocks \in seen'[t]
      BY <1>2, <1>8 DEF CaughtUp
    <2> QED BY <1>2, <1>4, <1>5, <1>7, <1>8, <2>1 DEF CaughtUp
  <1>9. CASE t \in orderly' /\ t.blocks \notin seen[t]
    <2> DEFINE p == WholePiece(t, n)
               a == Active(t).assembler
               d == Active(t).disk
               r == AddData(a, d, p, n)
               f == FinishAssembling(r.assembler, r.disk)
    <2>1. t \in orderly /\ 0 \in seen[t] /\ Cardinality({m \in seen[t] : m >= n}) <= WindowSize
      BY <1>2, <1>9
    <2>2. /\ Found(D) /\ D \in DOMAIN Moved(t).list
          /\ IsAssembler(a) /\ IsDisk(d) /\ Backed(a, d) /\ Assembling(t, a, d, S)
      BY <1>9, <2>1, OwnActive
    <2>3. Understood(t) /\ t.blocks < BlockModulus
      BY DEF Sure
    <2>4. n % BlockModulus = n
      BY <1>0, <2>3, TftpBoundAssumption
    <2>5. Piece(t, n, BlksizeOf(D)) = p /\ p.size = IF n = t.blocks THEN t.last ELSE t.blksize
      BY <1>7, <1>9, <2>3, PieceIsWhole
    <2>6. IsLast(p.size, BlksizeOf(D)) <=> n = t.blocks
      BY <1>0, <1>7, <1>9, <2>5 DEF IsLast
    <2>7. /\ n # t.blocks => list' = Put(Moved(t).list, D, r.assembler) /\ disk' = r.disk
          /\ n = t.blocks => disk' = f.disk
      <3> DEFINE done == IF IsLast(Piece(t, n, BlksizeOf(D)).size, BlksizeOf(D))
                         THEN FinishAssembling(AddData(a, d, Piece(t, n, BlksizeOf(D)), n % BlockModulus).assembler,
                                               AddData(a, d, Piece(t, n, BlksizeOf(D)), n % BlockModulus).disk)
                         ELSE AddData(a, d, Piece(t, n, BlksizeOf(D)), n % BlockModulus)
      <3>1. list' = Put(Moved(t).list, D, done.assembler) /\ disk' = done.disk
        BY <2>2 DEF DataBlock, Moved, Active
      <3>2. done = IF n = t.blocks THEN f ELSE r
        BY <2>4, <2>5, <2>6
      <3> HIDE DEF done, f, r
      <3> QED BY <3>1, <3>2
    <2> HIDE DEF a, d
    <2>8. /\ IsAssembler(r.assembler) /\ IsDisk(r.disk) /\ Backed(r.assembler, r.disk)
          /\ n # t.blocks \/ t.last # 0 => Assembling(t, r.assembler, r.disk, S \cup {n})
          /\ n = t.blocks /\ t.last = 0 => Assembling(t, r.assembler, r.disk, S)
      BY <1>2, <2>1, <2>2, <2>3, OwnBlockAdded
    <2> HIDE DEF r
    <2>9. CASE n # t.blocks
      <3>1. t.blocks \notin seen'[t] /\ seen'[t] \ {0} = S \cup {n}
        BY <1>0, <1>2, <1>9, <2>9
      <3>2. D \in DOMAIN list' /\ list'[D] = r.assembler
        BY <2>7, <2>9 DEF Put
      <3>3. Assembling(t, list'[D], disk', seen'[t] \ {0})
        BY <2>7, <2>8, <2>9, <3>1, <3>2
      <3>4. t \in whole' => IsPublished(t, disk')
        BY <1>2, <1>4, <2>9
      <3> HIDE DEF D
      <3> QED BY <1>3, <1>5, <1>7, <1>9, <3>1, <3>2, <3>3, <3>4 DEF CaughtUp
    <2>10. CASE n = t.blocks
      <3>1. 0..(t.blocks - 1) \subseteq seen[t] /\ t \in whole' /\ t.blocks \in seen'[t]
        BY <1>2, <1>9, <2>10
      <3>2. Assembling(t, r.assembler, r.disk, 1..FileBlocks(t))
        <4>1. S = 1..(t.blocks - 1) /\ S \cup {n} = 1..t.blocks
          BY <1>0, <1>2, <1>9, <2>10, <3>1
        <4> QED BY <2>8, <2>10, <4>1 DEF FileBlocks
      <3>3. IsPublished(t, disk')
        BY <2>7, <2>8, <2>10, <3>2, FinishPublishes
      <3> QED BY <1>5, <1>7, <1>9, <3>1, <3>3 DEF CaughtUp
    <2> QED BY <2>9, <2>10
  <1> QED BY <1>6, <1>8, <1>9

\* Keys stay known, as the history only grows.
LEMMA KnownAfter ==
    ASSUME \A u \in Transfers : seen[u] \subseteq seen'[u], NEW k
    PROVE  /\ Listable(k) => Listable(k)'
           /\ Stored(k) => Stored(k)'
           /\ Negotiated(k) => Negotiated(k)'
  <1>1. Listable(k) => Listable(k)'
    <2> SUFFICES ASSUME Listable(k) PROVE Listable(k)'
      OBVIOUS
    <2>1. PICK u \in Transfers : seen[u] # {} /\ k \in {NewTuple(u), DataTuple(u)}
      BY DEF Listable
    <2>2. seen'[u] # {} /\ NewTuple(u)' = NewTuple(u) /\ DataTuple(u)' = DataTuple(u)
      BY <2>1, Kept
    <2> QED BY <2>1, <2>2 DEF Listable
  <1>2. Stored(k) => Stored(k)'
    <2> SUFFICES ASSUME Stored(k) PROVE Stored(k)'
      OBVIOUS
    <2>1. PICK u \in Transfers : ~(seen[u] \subseteq {0}) /\ k = DataTuple(u)
      BY DEF Stored
    <2>2. ~(seen'[u] \subseteq {0}) /\ DataTuple(u)' = DataTuple(u)
      BY <2>1, Kept
    <2> QED BY <2>1, <2>2 DEF Stored
  <1>3. Negotiated(k) => Negotiated(k)'
    <2> SUFFICES ASSUME Negotiated(k) PROVE Negotiated(k)'
      OBVIOUS
    <2>1. PICK u \in Transfers : seen[u] # {} /\ k = SessionId(RequestTuple(u))
      BY DEF Negotiated
    <2>2. seen'[u] # {} /\ SessionId(RequestTuple(u))' = SessionId(RequestTuple(u))
      BY <2>1, Kept DEF SessionId
    <2> QED BY <2>1, <2>2 DEF Negotiated
  <1> QED BY <1>1, <1>2, <1>3

LEMMA SeenAfter ==
    ASSUME OInv, KeysKnown, NEW t \in Transfers, NEW number \in 0..t.blocks, Arrived(t, number)
    PROVE  /\ whole' \subseteq Transfers /\ \A u \in Transfers : seen'[u] \in SUBSET (0..u.blocks)
           /\ number \in seen'[t]
  <1>1. DOMAIN seen = Transfers /\ \A u \in Transfers : seen[u] \in SUBSET (0..u.blocks)
    BY DEF OInv, KeysKnown
  <1>2. seen' = [seen EXCEPT ![t] = seen[t] \cup {number}] /\ (whole' = whole \/ whole' = whole \cup {t})
    BY DEF Arrived
  <1>3. whole' \subseteq Transfers
    BY <1>2 DEF KeysKnown
  <1> QED BY <1>1, <1>2, <1>3

LEMMA KeysKnownStep ==
    ASSUME TInv, OInv, KeysKnown, [Next]_vars
    PROVE  KeysKnown'
  <1>1. DOMAIN seen = Transfers /\ \A u \in Transfers : seen[u] \subseteq seen'[u]
    BY HistoryGrows DEF OInv
  <1>2. /\ \A k \in DOMAIN list : Listable(k)'
        /\ \A k \in DOMAIN disk.cache : Stored(k)'
        /\ \A k \in DOMAIN blksizes : Negotiated(k)'
    BY <1>1, KnownAfter DEF KeysKnown
  <1>3. ASSUME NEW t \in Transfers, Request(t) PROVE KeysKnown'
    <2>1. Arrived(t, 0) /\ disk' = disk /\ RequestTaken(t)
      BY <1>3, RequestTakes DEF Request
    <2>2. 0 \in 0..t.blocks
      BY TransfersAssumption
    <2>3. /\ whole' \subseteq Transfers /\ \A u \in Transfers : seen'[u] \in SUBSET (0..u.blocks)
          /\ 0 \in seen'[t]
      BY <2>1, <2>2, SeenAfter
    <2>4. Listable(NewTuple(t))' /\ Negotiated(SessionId(RequestTuple(t)))'
      <3>1. seen'[t] # {} /\ NewTuple(t)' = NewTuple(t)
            /\ SessionId(RequestTuple(t))' = SessionId(RequestTuple(t))
        BY <2>3, Kept DEF SessionId
      <3> QED BY <3>1 DEF Listable, Negotiated
    <2>5. \A k \in DOMAIN list' : Listable(k)'
      <3>1. \A k \in DOMAIN list' : k \in DOMAIN list \/ k = NewTuple(t)
        BY <2>1 DEF RequestTaken
      <3> QED BY <1>2, <2>4, <3>1
    <2>6. \A k \in DOMAIN blksizes' : Negotiated(k)'
      <3>1. \A k \in DOMAIN blksizes' : k \in DOMAIN blksizes \/ k = SessionId(RequestTuple(t))
        <4> DEFINE s == SessionId(RequestTuple(t))
        <4>1. blksizes' = blksizes \/ blksizes' = Put(blksizes, s, t.parsed)
          BY <1>3 DEF Request
        <4> HIDE DEF s
        <4>2. \A k \in DOMAIN blksizes' : k \in DOMAIN blksizes \/ k = s
          BY <4>1 DEF Put
        <4> QED BY <4>2 DEF s
      <3> QED BY <1>2, <2>4, <3>1
    <2> QED BY <1>2, <2>1, <2>3, <2>5, <2>6 DEF KeysKnown
  <1>4. ASSUME NEW t \in Transfers, NEW n \in 1..t.blocks, DataBlock(t, n) PROVE KeysKnown'
    <2>1. /\ Arrived(t, n) /\ blksizes' = blksizes
          /\ \/ UNCHANGED <<list, disk>>
             \/ BlockTaken(t, FoundTuple(DataTuple(t)))
      BY <1>4, DataBlockTakes DEF DataBlock
    <2>2. n \in 0..t.blocks /\ n # 0
      <3>1. t.blocks \in Nat
        BY TransfersAssumption
      <3> QED BY <3>1
    <2>3. /\ whole' \subseteq Transfers /\ \A u \in Transfers : seen'[u] \in SUBSET (0..u.blocks)
          /\ n \in seen'[t]
      BY <2>1, <2>2, SeenAfter
    <2>4. Listable(DataTuple(t))' /\ Stored(DataTuple(t))'
      <3>1. seen'[t] # {} /\ ~(seen'[t] \subseteq {0}) /\ DataTuple(t)' = DataTuple(t)
        BY <2>2, <2>3, Kept
      <3> QED BY <3>1 DEF Listable, Stored
    <2>5. /\ \A k \in DOMAIN list' : k \in DOMAIN list \/ k = DataTuple(t)
          /\ \A k \in DOMAIN disk'.cache : k \in DOMAIN disk.cache \/ k = DataTuple(t)
      BY <2>1 DEF BlockTaken, OthersFiles
    <2>6. /\ \A k \in DOMAIN list' : Listable(k)'
          /\ \A k \in DOMAIN disk'.cache : Stored(k)'
      BY <1>2, <2>4, <2>5
    <2> QED BY <1>2, <2>1, <2>3, <2>6 DEF KeysKnown
  <1>5. CASE UNCHANGED <<list, disk, seen, whole>> /\ (blksizes' = blksizes \/ blksizes' = << >>)
    <2>1. DOMAIN << >> = {}
      OBVIOUS
    <2> QED BY <1>2, <1>5, <2>1 DEF KeysKnown
  <1> QED BY <1>3, <1>4, <1>5 DEF Next, Reset, vars

LEMMA CInvStep ==
    ASSUME TInv, OInv, CInv, TInv', [Next]_vars
    PROVE  CInv'
  <1>1. KeysKnown'
    BY KeysKnownStep DEF CInv
  <1>2. ASSUME NEW t \in Transfers \ retried', Sure(t)' PROVE CaughtUp(t)'
    <2>1. /\ t \in Transfers \ retried /\ IsDisk(disk) /\ IsDisk(disk')
          /\ \A u \in Transfers : seen[u] \subseteq seen'[u]
      BY HistoryGrows DEF OInv, TInv
    <2>2. Sure(t) /\ Separate(t)' /\ ClientsElsewhere'
      <3>1. Separate(t) /\ Separate(t)' /\ ClientsElsewhere'
        BY <1>2, HistoryGrows DEF OInv, Sure
      <3>2. ClientsElsewhere
        BY <2>1, <3>1 DEF ClientsElsewhere
      <3>3. Understood(t)' <=> Understood(t)
        BY DEF Understood
      <3> QED BY <1>2, <3>1, <3>2, <3>3 DEF Sure
    <2>3. CaughtUp(t)
      BY <2>1, <2>2 DEF CInv
    <2>4. ASSUME NEW u \in Transfers, Request(u) PROVE CaughtUp(t)'
      <3>1. RequestTaken(u)
        BY <2>4, RequestTakes
      <3>2. CASE u = t
        BY <1>2, <2>2, <2>3, <2>4, <3>2, OwnRequest
      <3>3. CASE u # t
        BY <2>1, <2>2, <2>3, <2>4, <3>1, <3>3, RequestOfOther
      <3> QED BY <3>2, <3>3
    <2>5. ASSUME NEW u \in Transfers, NEW n \in 1..u.blocks, DataBlock(u, n) PROVE CaughtUp(t)'
      <3>1. \/ UNCHANGED <<list, disk>>
            \/ Found(DataTuple(u)) /\ BlockTaken(u, FoundTuple(DataTuple(u)))
        BY <2>5, DataBlockTakes
      <3>2. Published(disk, disk')
        BY <2>1, <3>1, PublishedSame DEF BlockTaken
      <3>3. CASE u = t
        BY <2>1, <2>2, <2>3, <2>5, <3>2, <3>3, OwnBlock
      <3>4. CASE u # t
        BY <2>1, <2>2, <2>3, <2>5, <3>1, <3>4, BlockOfOther
      <3> QED BY <3>3, <3>4
    <2>6. ASSUME UNCHANGED <<list, disk, seen, whole>>, t \in orderly' => t \in orderly,
                 t \in orderly' /\ seen[t] # {} => blksizes' = blksizes
          PROVE  CaughtUp(t)'
      <3>1. /\ EntryKept(DataTuple(t)) /\ EntryKept(NewTuple(t)) /\ FileKept(DataTuple(t))
            /\ Published(disk, disk')
            /\ t \in orderly' /\ seen[t] # {} => SizeKept(DataTuple(t))
        BY <2>1, <2>6, PublishedSame DEF EntryKept, FileKept, SizeKept
      <3> QED BY <2>1, <2>3, <2>6, <3>1, CaughtUpKept
    <2>7. CASE Reset
      <3>1. /\ UNCHANGED <<list, disk, seen, whole>>
            /\ t \in orderly' => t \in orderly /\ seen[t] = {}
        BY <2>7 DEF Reset
      <3> QED BY <2>6, <3>1
    <2>8. CASE UNCHANGED vars
      BY <2>6, <2>8 DEF vars
    <2> QED BY <2>4, <2>5, <2>7, <2>8 DEF Next
  <1> QED BY <1>1, <1>2 DEF CInv

LEMMA CInvariance == Spec => [](TInv /\ OInv /\ CInv)
  <1>1. Init => CInv
    <2> SUFFICES ASSUME Init PROVE CInv
      OBVIOUS
    <2>1. /\ \A t \in Transfers : seen[t] = {} /\ whole = {}
          /\ DOMAIN list = {} /\ DOMAIN disk.cache = {} /\ DOMAIN blksizes = {}
      <3>1. DOMAIN << >> = {}
        OBVIOUS
      <3> QED BY <3>1 DEF Init, EmptyDisk
    <2>2. KeysKnown
      <3>1. whole = {}
        BY DEF Init
      <3> QED BY <2>1, <3>1 DEF KeysKnown
    <2> QED BY <2>1, <2>2 DEF CInv, CaughtUp
  <1>2. TInv /\ OInv /\ CInv /\ TInv' /\ [Next]_vars => CInv'
    BY CInvStep
  <1> QED BY <1>1, <1>2, TInvariance, OInvariance, PTL DEF Spec

(* A transfer of no data has no pieces.                                     *)
LEMMA NoPieces ==
    ASSUME NEW t \in Transfers, FileBlocks(t) = 0, NEW p \in Pieces, p.transfer = t
    PROVE  FALSE
  <1>0. /\ t.blocks \in Nat \ {0} /\ t.blksize \in Nat \ {0} /\ DefaultBlksize \in Nat
        /\ \A u \in Transfers : u.parsed \in Nat
    BY TransfersAssumption, TftpBoundAssumption
  <1>1. t.last = 0 /\ t.blocks = 1
    BY <1>0 DEF FileBlocks
  <1>2. PICK u \in Transfers, m \in Nat, b \in Sizes : p = Piece(u, m, b)
    BY DEF Pieces
  <1>3. p.number \in 1..p.transfer.blocks /\ p.size > 0
    BY DEF Pieces
  <1>4. p.transfer = u /\ p.number = m /\ p.size = Min({Length(u, m), b}) /\ b \in Nat
    BY <1>0, <1>2 DEF Piece, Sizes
  <1>5. u = t /\ m = 1
    BY <1>1, <1>3, <1>4
  <1>6. Length(u, m) = 0
    BY <1>1, <1>5 DEF Length
  <1>7. Min({0, b}) = 0
    BY <1>4, LesserOf
  <1> QED BY <1>3, <1>4, <1>6, <1>7

(* A transfer all of whose blocks came in time gives one file of its name   *)
(* with exactly its data, whatever is repeated on the way or comes after    *)
(* it, whatever other transfers do, for every window and number of blocks,  *)
(* when its ports are its own, no client uses the server's port, the size   *)
(* of its blocks is known and their numbers do not wrap.                    *)
THEOREM CompleteTransfersArePublished == Spec => []CompleteTransferIsPublished
  <1>1. TInv /\ OInv /\ CInv => CompleteTransferIsPublished
    <2> SUFFICES ASSUME TInv, OInv, CInv, NEW t \in whole \ retried, Sure(t)
                 PROVE  \E i \in DOMAIN disk.output :
                           /\ FilesOf(t) \subseteq {i}
                           /\ Output(disk)[i] = [name |-> t, data |-> FileOf(t)]
      BY DEF CompleteTransferIsPublished, Sure
    <2>1. t \in Transfers /\ CaughtUp(t) /\ Separate(t) /\ IsDisk(disk)
      BY DEF CInv, KeysKnown, TInv, Sure
    <2>2. PICK i \in 1..Len(disk.output) :
             disk.output[i].name = t /\ disk.files[disk.output[i].file] = FileOf(t)
      BY <2>1 DEF CaughtUp, IsPublished
    <2>3. /\ DOMAIN disk.output = 1..Len(disk.output) /\ DOMAIN disk.files = 1..Len(disk.files)
          /\ disk.output[i].file \in 1..Len(disk.files) /\ disk.files \in Seq(Seq(Pieces))
      <3>1. disk.output \in Seq([name : Transfers, file : Nat]) /\ disk.files \in Seq(Seq(Pieces))
        BY <2>1 DEF IsDisk
      <3> QED BY <2>1, <3>1 DEF IsDisk
    <2>4. Output(disk)[i] = [name |-> t, data |-> FileOf(t)]
      BY <2>2, <2>3 DEF Output
    <2>5. ASSUME NEW k \in FilesOf(t) PROVE k = i
      <3>1. k \in 1..Len(disk.output) /\ disk.output[k].file \in FilesWith(disk, t)
        BY <2>1, FilesOfFacts
      <3>2. FileBlocks(t) \in Nat
        BY <2>1, TransfersAssumption DEF FileBlocks
      <3>3. FileOf(t) = [j \in 1..FileBlocks(t) |-> WholePiece(t, j)]
        BY DEF FileOf, FileBlocks, WholePiece
      <3>4. CASE FileBlocks(t) = 0
        <4> DEFINE f == disk.output[k].file
        <4>1. PICK j \in DOMAIN disk.files[f] : disk.files[f][j].transfer = t
          BY <3>1 DEF FilesWith
        <4>2. disk.files[f] \in Seq(Pieces)
          <5>1. f \in 1..Len(disk.files)
            BY <2>3, <3>1 DEF FilesWith
          <5> QED BY <2>3, <5>1, ElementOfSeq
        <4>3. disk.files[f][j] \in Pieces
          BY <4>2
        <4> QED BY <2>1, <3>4, <4>1, <4>3, NoPieces
      <3>5. CASE FileBlocks(t) # 0
        <4>1. 1 \in DOMAIN FileOf(t) /\ FileOf(t)[1].transfer = t
          BY <3>2, <3>3, <3>5 DEF WholePiece
        <4>2. disk.output[i].file \in FilesWith(disk, t)
          BY <2>2, <2>3, <4>1 DEF FilesWith
        <4>3. disk.output[i].file = disk.output[k].file
          BY <2>1, <3>1, <4>2 DEF OInv, OneLife
        <4> QED BY <2>1, <3>1, <4>3 DEF IsDisk
      <3> QED BY <3>4, <3>5
    <2> QED BY <2>3, <2>4, <2>5
  <1> QED BY <1>1, CInvariance, PTL

----------------------------------------------------------------------------
(* FTP: the handler's state.                                                *)

LEMMA FtpLists ==
    /\ \A q, entry, n : Ftp!AddBounded(q, entry, n) = AddBounded(q, entry, n)
    /\ \A q, key : Ftp!WithoutKey(q, key) = WithoutKey(q, key)
    /\ \A q, key : Ftp!Touch(q, key) = Touch(q, key)
    /\ \A q : Ftp!KeysOf(q) = KeysOf(q)
    /\ \A q, key : Ftp!Lookup(q, key) = q[Position(q, key)].object
  BY DEF Ftp!AddBounded, Ftp!PushFront, Ftp!WithoutKey, Ftp!EraseAt, Ftp!Position, Ftp!KeysOf,
         Ftp!Touch, Ftp!Lookup, AddBounded, PushFront, WithoutKey, EraseAt, Position, KeysOf, Touch

\* A pending transfer that this transfer's announcement created: once its
\* direction is known, so is its file.
IsPendingOf(p, t) ==
    /\ DOMAIN p = {"client", "clientPort", "server", "serverPort", "passive", "toClient",
                   "established", "session", "file"}
    /\ p.client = IF t.passive THEN t.session.client ELSE "server"
    /\ p.server = IF t.passive THEN "server" ELSE t.session.client
    /\ p.serverPort = t.listener /\ p.passive = t.passive
    /\ p.clientPort \in {-1, t.connector}
    /\ p.toClient # -1 => p.file = t /\ p.toClient = Ftp!Direction(p, t.command)

\* The objects of the handler, when o says which transfer announced each pending one.
FtpObjects(h, o) ==
    /\ DOMAIN h = {"sessionList", "pendingList", "sessions", "pending", "assemblers"}
    /\ (\E C : h.pending \in Seq(C)) /\ (\E C : h.sessions \in Seq(C))
    /\ (\E C : h.assemblers \in Seq(C))
    /\ \A i \in 1..Len(h.pending) :
          /\ o[i] \in ftpTransfers /\ IsPendingOf(h.pending[i], o[i])
          /\ h.pending[i].session \in 1..Len(h.sessions)
    /\ \A s \in 1..Len(h.sessions) : h.sessions[s] \in 0..Len(h.pending)
    /\ \A i \in 1..Len(h.assemblers) : h.assemblers[i] = Ftp!Expected(h.assemblers[i].file)

\* Each session has an object of its own, each pending transfer its key.
FtpListed(h) ==
    /\ IsList(h.sessionList) /\ IsList(h.pendingList)
    /\ \A e \in EntriesOf(h.sessionList) : e.object \in 1..Len(h.sessions)
    /\ \A e, f \in EntriesOf(h.sessionList) : e.object = f.object => e.key = f.key
    /\ \A e \in EntriesOf(h.pendingList) :
          e.object \in 1..Len(h.pending) /\ e.key = Ftp!Key(h.pending[e.object])

FtpState(h, o) == FtpObjects(h, o) /\ FtpListed(h)

\* Each session but these has the pending transfer of its present turn, or none.
InTurn(h, o, turns, but) ==
    \A e \in EntriesOf(h.sessionList) :
        h.sessions[e.object] # 0 /\ e.key \notin but =>
            /\ o[h.sessions[e.object]].session = e.key
            /\ o[h.sessions[e.object]].turn = turns[e.key]

\* The listed transfers whose connection is awaited are among these.
Awaited(h, o, among) ==
    \A e \in EntriesOf(h.pendingList) :
        h.pending[e.object].clientPort = -1 => o[e.object] \in among

LEMMA SessionEntry ==
    ASSUME NEW h, NEW o, FtpState(h, o), NEW t, t.session \in KeysOf(h.sessionList)
    PROVE  \E e \in EntriesOf(h.sessionList) :
              /\ e.key = t.session /\ Ftp!SessionOf(h, t) = e.object
              /\ e.object \in 1..Len(h.sessions)
  <1> DEFINE e == h.sessionList[Position(h.sessionList, t.session)]
  <1>1. e \in EntriesOf(h.sessionList) /\ e.key = t.session
    BY EntryFound DEF FtpState, FtpListed
  <1>2. Ftp!SessionOf(h, t) = e.object
    BY FtpLists DEF Ftp!SessionOf
  <1> HIDE DEF e
  <1> QED BY <1>1, <1>2 DEF FtpState, FtpListed

LEMMA FtpWithSession ==
    ASSUME NEW h, NEW o, FtpState(h, o), NEW t
    PROVE  LET r == Ftp!WithSession(h, t)
           IN  /\ FtpState(r, o) /\ t.session \in KeysOf(r.sessionList)
               /\ r.pendingList = h.pendingList /\ r.pending = h.pending
               /\ \A turns, but : InTurn(h, o, turns, but) => InTurn(r, o, turns, but)
  <1> DEFINE r == Ftp!WithSession(h, t)
  <1>0. DOMAIN h = {"sessionList", "pendingList", "sessions", "pending", "assemblers"}
    BY DEF FtpState, FtpObjects
  <1>1. CASE t.session \in KeysOf(h.sessionList)
    <2> DEFINE q == Touch(h.sessionList, t.session)
    <2>1. r = [h EXCEPT !.sessionList = q]
      BY <1>1, FtpLists DEF Ftp!WithSession
    <2>2. IsList(q) /\ EntriesOf(q) \subseteq EntriesOf(h.sessionList) /\ t.session \in KeysOf(q)
      BY <1>1, EntryToFront DEF FtpState, FtpListed
    <2> HIDE DEF q, r
    <2>3. /\ DOMAIN r = DOMAIN h /\ r.sessionList = q /\ r.pendingList = h.pendingList
          /\ r.sessions = h.sessions /\ r.pending = h.pending /\ r.assemblers = h.assemblers
      BY <1>0, <2>1
    <2>4. FtpState(r, o)
      BY <2>2, <2>3 DEF FtpState, FtpObjects, FtpListed
    <2>5. \A turns, but : InTurn(h, o, turns, but) => InTurn(r, o, turns, but)
      BY <2>2, <2>3 DEF InTurn
    <2> QED BY <2>2, <2>3, <2>4, <2>5 DEF r
  <1>2. CASE t.session \notin KeysOf(h.sessionList)
    <2> DEFINE n == Len(h.sessions) + 1
               entry == [key |-> t.session, object |-> n]
               q == AddBounded(h.sessionList, entry, FtpSessionPoolSize)
               grown == Append(h.sessions, 0)
    <2>1. r = [h EXCEPT !.sessions = grown, !.sessionList = q]
      BY <1>2, FtpLists DEF Ftp!WithSession
    <2>2. entry.key = t.session /\ entry.object = n
      OBVIOUS
    <2> HIDE DEF entry
    <2>3. /\ IsList(q) /\ entry \in EntriesOf(q)
          /\ EntriesOf(q) \subseteq {e \in EntriesOf(h.sessionList) : e.key # entry.key} \cup {entry}
      BY EntryInFront, PoolSizesAssumption DEF FtpState, FtpListed
    <2>4. t.session \in KeysOf(q)
      BY <2>2, <2>3, KeysOfEntries
    <2>5. PICK C : h.sessions \in Seq(C)
      BY DEF FtpState, FtpObjects
    <2>6. /\ grown \in Seq(C \cup {0}) /\ Len(h.sessions) \in Nat /\ Len(grown) = n
          /\ grown[n] = 0 /\ \A s \in 1..Len(h.sessions) : grown[s] = h.sessions[s]
      <3>1. h.sessions \in Seq(C \cup {0}) /\ 0 \in C \cup {0}
        BY <2>5, SeqWider
      <3> HIDE DEF grown
      <3> QED BY <3>1, AppendFacts DEF grown
    <2> HIDE DEF q, r, grown
    <2>7. /\ DOMAIN r = DOMAIN h /\ r.sessionList = q /\ r.pendingList = h.pendingList
          /\ r.sessions = grown /\ r.pending = h.pending /\ r.assemblers = h.assemblers
      BY <1>0, <2>1
    <2>8. /\ n \in 1..n /\ 1..Len(h.sessions) \subseteq 1..n /\ n \notin 1..Len(h.sessions)
          /\ \A s \in 1..n : s = n \/ s \in 1..Len(h.sessions)
      BY <2>6
    <2> HIDE DEF n
    <2>9. FtpObjects(r, o)
      <3>1. h.pending \in Seq(C) \/ Len(h.pending) \in Nat
        BY DEF FtpState, FtpObjects
      <3>2. 0 \in 0..Len(h.pending)
        BY DEF FtpState, FtpObjects
      <3>3. \A s \in 1..n : grown[s] \in 0..Len(h.pending)
        BY <2>6, <2>8, <3>2 DEF FtpState, FtpObjects
      <3>4. \E D : grown \in Seq(D)
        BY <2>6
      <3> QED BY <2>6, <2>7, <2>8, <3>3, <3>4 DEF FtpState, FtpObjects
    <2>10. FtpListed(r)
      <3>1. \A e \in EntriesOf(q) : e = entry \/ (e \in EntriesOf(h.sessionList) /\ e.object # n)
        BY <2>3, <2>8 DEF FtpState, FtpListed
      <3>2. \A e \in EntriesOf(q) : e.object \in 1..n
        BY <2>2, <2>8, <3>1 DEF FtpState, FtpListed
      <3>3. \A e, f \in EntriesOf(q) : e.object = f.object => e.key = f.key
        BY <2>2, <3>1 DEF FtpState, FtpListed
      <3> QED BY <2>3, <2>6, <2>7, <3>2, <3>3 DEF FtpState, FtpListed
    <2>11. \A turns, but : InTurn(h, o, turns, but) => InTurn(r, o, turns, but)
      <3>1. \A e \in EntriesOf(q) :
               grown[e.object] # 0 => e \in EntriesOf(h.sessionList) /\ grown[e.object] = h.sessions[e.object]
        BY <2>2, <2>3, <2>6, <2>8 DEF FtpState, FtpListed
      <3> QED BY <2>7, <3>1 DEF InTurn
    <2> QED BY <2>4, <2>7, <2>9, <2>10, <2>11 DEF FtpState, r
  <1> QED BY <1>1, <1>2

\* The key of a transfer whose connection is awaited is that of its listener.
LEMMA AwaitedKey ==
    ASSUME NEW p, NEW t, IsPendingOf(p, t)
    PROVE  /\ p.clientPort = -1 => Ftp!Key(p) = Ftp!Key2(t)
           /\ Ftp!Key(p)[2] = p.clientPort
  BY DEF IsPendingOf, Ftp!Key, Ftp!Key2, Ftp!NewPending

LEMMA NewPendingIs ==
    ASSUME NEW t, NEW s
    PROVE  LET p == Ftp!NewPending(t, s)
           IN  /\ IsPendingOf(p, t) /\ p.session = s /\ p.clientPort = -1
               /\ Ftp!Key(p) = Ftp!Key2(t)
  BY DEF IsPendingOf, Ftp!Key, Ftp!Key2, Ftp!NewPending

\* An announcement.
LEMMA FtpAnnounced ==
    ASSUME NEW h, NEW o, FtpState(h, o), NEW t \in ftpTransfers, t.session \in KeysOf(h.sessionList),
           NEW turns, InTurn(h, o, turns, {t.session}), t.turn = turns[t.session],
           NEW among, Awaited(h, o, among)
    PROVE  LET r == Ftp!Announced(h, t)
           IN  \E p : /\ FtpState(r, p) /\ r.sessionList = h.sessionList
                      /\ InTurn(r, p, turns, {})
                      /\ Awaited(r, p, {u \in among : ~Ftp!SameListener(t, u)} \cup {t})
  <1> DEFINE r == Ftp!Announced(h, t)
             s == Ftp!SessionOf(h, t)
             new == Ftp!NewPending(t, s)
             n == Len(h.pending) + 1
             grown == Append(h.pending, new)
             sessions == [h.sessions EXCEPT ![s] = n]
             entry == [key |-> Ftp!Key(new), object |-> n]
             q == AddBounded(h.pendingList, entry, FtpPendingPoolSize)
             p == [i \in 1..n |-> IF i = n THEN t ELSE o[i]]
             left == {u \in among : ~Ftp!SameListener(t, u)} \cup {t}
  <1>1. r = [h EXCEPT !.pending = grown, !.sessions = sessions, !.pendingList = q]
    BY FtpLists DEF Ftp!Announced
  <1>2. PICK e \in EntriesOf(h.sessionList) :
           e.key = t.session /\ s = e.object /\ e.object \in 1..Len(h.sessions)
    BY SessionEntry
  <1>3. /\ IsPendingOf(new, t) /\ new.session = s /\ new.clientPort = -1
        /\ Ftp!Key(new) = Ftp!Key2(t) /\ entry.key = Ftp!Key(new) /\ entry.object = n
    BY NewPendingIs
  <1> HIDE DEF s, new, entry
  <1>4. /\ IsList(q) /\ entry \in EntriesOf(q)
        /\ EntriesOf(q) \subseteq {x \in EntriesOf(h.pendingList) : x.key # entry.key} \cup {entry}
    BY EntryInFront, PoolSizesAssumption DEF FtpState, FtpListed
  <1>5. PICK C : h.pending \in Seq(C)
    BY DEF FtpState, FtpObjects
  <1>6. /\ grown \in Seq(C \cup {new}) /\ Len(h.pending) \in Nat /\ Len(grown) = n
        /\ grown[n] = new /\ \A i \in 1..Len(h.pending) : grown[i] = h.pending[i]
    <2>1. h.pending \in Seq(C \cup {new}) /\ new \in C \cup {new}
      BY <1>5, SeqWider
    <2> HIDE DEF grown
    <2> QED BY <2>1, AppendFacts DEF grown
  <1>7. PICK D : h.sessions \in Seq(D)
    BY DEF FtpState, FtpObjects
  <1>8. /\ sessions \in Seq(D \cup {n}) /\ Len(sessions) = Len(h.sessions) /\ sessions[s] = n
        /\ \A i \in 1..Len(h.sessions) : i # s => sessions[i] = h.sessions[i]
    <2>1. h.sessions \in Seq(D \cup {n}) /\ n \in D \cup {n}
      BY <1>7, SeqWider
    <2> HIDE DEF n
    <2> QED BY <1>2, <2>1
  <1> HIDE DEF q, grown, r, sessions
  <1>9. /\ DOMAIN r = DOMAIN h /\ r.sessionList = h.sessionList /\ r.pendingList = q
        /\ r.sessions = sessions /\ r.pending = grown /\ r.assemblers = h.assemblers
    BY <1>1 DEF FtpState, FtpObjects
  <1>10. /\ n \in 1..n /\ 1..Len(h.pending) \subseteq 1..n /\ n \notin 1..Len(h.pending) /\ n # 0
         /\ 0..Len(h.pending) \subseteq 0..n /\ n \in 0..n
         /\ \A i \in 1..n : i = n \/ i \in 1..Len(h.pending)
         /\ p[n] = t /\ \A i \in 1..Len(h.pending) : p[i] = o[i]
    BY <1>6
  <1> HIDE DEF n, p
  <1>11. FtpObjects(r, p)
    <2>1. ASSUME NEW i \in 1..n
          PROVE  /\ p[i] \in ftpTransfers /\ IsPendingOf(grown[i], p[i])
                 /\ grown[i].session \in 1..Len(sessions)
      <3>1. CASE i = n
        BY <1>2, <1>3, <1>6, <1>8, <1>10, <3>1
      <3>2. CASE i \in 1..Len(h.pending)
        BY <1>6, <1>8, <1>10, <3>2 DEF FtpState, FtpObjects
      <3> QED BY <1>10, <3>1, <3>2
    <2>2. \A i \in 1..Len(sessions) : sessions[i] \in 0..n
      BY <1>8, <1>10 DEF FtpState, FtpObjects
    <2>3. (\E E : grown \in Seq(E)) /\ (\E E : sessions \in Seq(E))
      BY <1>6, <1>8
    <2> QED BY <1>6, <1>9, <2>1, <2>2, <2>3 DEF FtpState, FtpObjects
  <1>12. ASSUME NEW x \in EntriesOf(q), x # entry
         PROVE  /\ x \in EntriesOf(h.pendingList) /\ x.object \in 1..Len(h.pending)
                /\ x.key = Ftp!Key(h.pending[x.object]) /\ grown[x.object] = h.pending[x.object]
                /\ x.key # Ftp!Key2(t)
    <2>1. x \in EntriesOf(h.pendingList) /\ x.key # entry.key
      BY <1>4, <1>12
    <2> QED BY <1>3, <1>6, <2>1 DEF FtpState, FtpListed
  <1>13. FtpListed(r)
    <2>1. \A x \in EntriesOf(q) : x.object \in 1..n /\ x.key = Ftp!Key(grown[x.object])
      BY <1>3, <1>6, <1>10, <1>12
    <2> QED BY <1>4, <1>6, <1>8, <1>9, <2>1 DEF FtpState, FtpListed
  <1>14. InTurn(r, p, turns, {})
    <2> SUFFICES ASSUME NEW x \in EntriesOf(h.sessionList), sessions[x.object] # 0
                 PROVE  p[sessions[x.object]].session = x.key /\ p[sessions[x.object]].turn = turns[x.key]
      BY <1>9 DEF InTurn
    <2>1. CASE x.object = s
      <3>1. x.key = t.session
        BY <1>2, <2>1 DEF FtpState, FtpListed
      <3> QED BY <1>8, <1>10, <2>1, <3>1
    <2>2. CASE x.object # s
      <3>1. x.object \in 1..Len(h.sessions) /\ sessions[x.object] = h.sessions[x.object]
        BY <1>8, <2>2 DEF FtpState, FtpListed
      <3>2. h.sessions[x.object] \in 0..Len(h.pending) /\ h.sessions[x.object] # 0
        BY <3>1 DEF FtpState, FtpObjects
      <3>3. h.sessions[x.object] \in 1..Len(h.pending)
        BY <1>6, <3>2
      <3>4. x.key # t.session
        <4>1. x.key = e.key => x = e
          BY SameEntry DEF FtpState, FtpListed
        <4> QED BY <1>2, <2>2, <4>1
      <3> QED BY <1>10, <3>1, <3>3, <3>4 DEF InTurn
    <2> QED BY <2>1, <2>2
  <1>15. Awaited(r, p, left)
    <2> SUFFICES ASSUME NEW x \in EntriesOf(q), grown[x.object].clientPort = -1
                 PROVE  p[x.object] \in left
      BY <1>9 DEF Awaited
    <2>1. CASE x = entry
      BY <1>3, <1>10, <2>1
    <2>2. CASE x # entry
      <3>1. o[x.object] \in among /\ IsPendingOf(h.pending[x.object], o[x.object])
        BY <1>12, <2>2 DEF Awaited, FtpState, FtpObjects
      <3>2. Ftp!Key(h.pending[x.object]) = Ftp!Key2(o[x.object])
        BY <1>12, <2>2, <3>1, AwaitedKey
      <3>3. ~Ftp!SameListener(t, o[x.object])
        BY <1>12, <2>2, <3>2 DEF Ftp!SameListener
      <3> QED BY <1>10, <1>12, <2>2, <3>1, <3>3
    <2> QED BY <2>1, <2>2
  <1> HIDE DEF left
  <1>16. FtpState(r, p)
    BY <1>11, <1>13 DEF FtpState
  <1> QED BY <1>9, <1>14, <1>15, <1>16 DEF r, left

\* One pending transfer changes, not its key; the list's order may change.
LEMMA FtpChanged ==
    ASSUME NEW h, NEW o, FtpState(h, o), NEW j \in 1..Len(h.pending), NEW new,
           IsPendingOf(new, o[j]), new.session = h.pending[j].session,
           new.clientPort = h.pending[j].clientPort, NEW q, IsList(q),
           EntriesOf(q) \subseteq EntriesOf(h.pendingList),
           NEW r, DOMAIN r = DOMAIN h, r.sessionList = h.sessionList, r.sessions = h.sessions,
           r.assemblers = h.assemblers, r.pendingList = q,
           r.pending = [h.pending EXCEPT ![j] = new]
    PROVE  /\ FtpState(r, o)
           /\ \A turns, but : InTurn(h, o, turns, but) => InTurn(r, o, turns, but)
           /\ \A among : Awaited(h, o, among) => Awaited(r, o, among)
  <1>1. PICK C : h.pending \in Seq(C)
    BY DEF FtpState, FtpObjects
  <1>2. /\ r.pending \in Seq(C \cup {new}) /\ Len(r.pending) = Len(h.pending)
        /\ r.pending[j] = new /\ \A i \in 1..Len(h.pending) : i # j => r.pending[i] = h.pending[i]
    <2>1. h.pending \in Seq(C \cup {new}) /\ new \in C \cup {new}
      BY <1>1, SeqWider
    <2> QED BY <2>1
  <1>3. Ftp!Key(new) = Ftp!Key(h.pending[j])
    <2>1. IsPendingOf(h.pending[j], o[j])
      BY DEF FtpState, FtpObjects
    <2> QED BY <2>1 DEF IsPendingOf, Ftp!Key
  <1>4. \A i \in 1..Len(h.pending) :
           /\ r.pending[i].clientPort = h.pending[i].clientPort
           /\ r.pending[i].session = h.pending[i].session
           /\ Ftp!Key(r.pending[i]) = Ftp!Key(h.pending[i])
           /\ IsPendingOf(r.pending[i], o[i])
    BY <1>2, <1>3 DEF FtpState, FtpObjects
  <1>5. FtpObjects(r, o)
    <2>1. \E E : r.pending \in Seq(E)
      BY <1>2
    <2> QED BY <1>2, <1>4, <2>1 DEF FtpState, FtpObjects
  <1>6. FtpListed(r)
    <2>1. \A e \in EntriesOf(q) : e.object \in 1..Len(h.pending) /\ e.key = Ftp!Key(h.pending[e.object])
      BY DEF FtpState, FtpListed
    <2> QED BY <1>2, <1>4, <2>1 DEF FtpState, FtpListed
  <1>7. \A turns, but : InTurn(h, o, turns, but) => InTurn(r, o, turns, but)
    BY DEF InTurn
  <1>8. \A among : Awaited(h, o, among) => Awaited(r, o, among)
    <2>1. \A e \in EntriesOf(q) : e \in EntriesOf(h.pendingList) /\ e.object \in 1..Len(h.pending)
      BY DEF FtpState, FtpListed
    <2> QED BY <1>4, <2>1 DEF Awaited
  <1> QED BY <1>5, <1>6, <1>7, <1>8 DEF FtpState

\* A command: it is about the transfer that the session announced last.
LEMMA FtpCommanded ==
    ASSUME ftpTransfers \in FtpCaptures,
           NEW h, NEW o, FtpState(h, o), NEW t \in ftpTransfers, t.session \in KeysOf(h.sessionList),
           NEW turns, InTurn(h, o, turns, {}), t.turn = turns[t.session]
    PROVE  LET r == Ftp!Commanded(h, t)
           IN  /\ FtpState(r, o) /\ InTurn(r, o, turns, {}) /\ r.sessionList = h.sessionList
               /\ \A among : Awaited(h, o, among) => Awaited(r, o, among)
  <1> DEFINE r == Ftp!Commanded(h, t)
             s == Ftp!SessionOf(h, t)
             j == h.sessions[s]
             old == h.pending[j]
             direction == Ftp!Direction(old, t.command)
             new == [[old EXCEPT !.file = t] EXCEPT !.toClient = direction]
  <1>1. CASE ~(t.command \in {"STOR", "RETR"} /\ j # 0)
    <2>1. r = h
      BY <1>1 DEF Ftp!Commanded
    <2> QED BY <2>1
  <1>2. CASE t.command \in {"STOR", "RETR"} /\ j # 0
    <2>1. r = [h EXCEPT !.pending[j].file = t, !.pending[j].toClient = direction]
      BY <1>2 DEF Ftp!Commanded
    <2>2. PICK e \in EntriesOf(h.sessionList) :
             e.key = t.session /\ s = e.object /\ e.object \in 1..Len(h.sessions)
      BY SessionEntry
    <2>3. j \in 1..Len(h.pending)
      <3>1. j \in 0..Len(h.pending) /\ Len(h.pending) \in Nat
        BY <2>2 DEF FtpState, FtpObjects
      <3> HIDE DEF j
      <3> QED BY <1>2, <3>1
    <2>4. o[j] = t
      <3>1. o[j].session = t.session /\ o[j].turn = turns[t.session] /\ o[j] \in ftpTransfers
        BY <1>2, <2>2, <2>3 DEF InTurn, FtpState, FtpObjects
      <3> QED BY <3>1, FtpCapturesAssumption
    <2>5. IsPendingOf(old, t)
      BY <2>3, <2>4 DEF FtpState, FtpObjects
    <2> HIDE DEF j
    <2>6. /\ DOMAIN new = DOMAIN old /\ new.file = t /\ new.toClient = direction
          /\ new.client = old.client /\ new.clientPort = old.clientPort /\ new.server = old.server
          /\ new.serverPort = old.serverPort /\ new.passive = old.passive
          /\ new.session = old.session
      BY <2>5 DEF IsPendingOf
    <2>7. Ftp!Direction(new, t.command) = direction
      BY <2>6 DEF Ftp!Direction
    <2>8. r.pending = [h.pending EXCEPT ![j] = new]
      <3>1. DOMAIN h = {"sessionList", "pendingList", "sessions", "pending", "assemblers"}
        BY DEF FtpState, FtpObjects
      <3>2. j \in DOMAIN h.pending
        BY <2>3 DEF FtpState, FtpObjects
      <3> HIDE DEF direction
      <3>3. r.pending = [[h.pending EXCEPT ![j].file = t] EXCEPT ![j].toClient = direction]
        BY <2>1, <3>1
      <3> QED BY <3>2, <3>3
    <2>9. /\ DOMAIN r = DOMAIN h /\ r.sessionList = h.sessionList /\ r.sessions = h.sessions
          /\ r.assemblers = h.assemblers /\ r.pendingList = h.pendingList
      BY <2>1 DEF FtpState, FtpObjects
    <2> HIDE DEF new, r, direction
    <2>10. IsPendingOf(new, o[j])
      BY <2>4, <2>5, <2>6, <2>7 DEF IsPendingOf
    <2>11. IsList(h.pendingList)
      BY DEF FtpState, FtpListed
    <2>12. /\ FtpState(r, o)
           /\ \A u, but : InTurn(h, o, u, but) => InTurn(r, o, u, but)
           /\ \A among : Awaited(h, o, among) => Awaited(r, o, among)
      BY <2>3, <2>6, <2>8, <2>9, <2>10, <2>11, FtpChanged
    <2> QED BY <2>9, <2>12 DEF r
  <1> QED BY <1>1, <1>2

\* The handshake of a connection: it is that of the transfer whose listener it
\* goes to, as far as no other transfer of this listener is awaited.
LEMMA FtpConnected ==
    ASSUME ftpTransfers \in FtpCaptures,
           NEW h, NEW o, FtpState(h, o), NEW t \in ftpTransfers, NEW among, Awaited(h, o, among),
           \A u \in among : Ftp!SameListener(t, u) => u = t
    PROVE  LET r == Ftp!Connected(h, t)
           IN  /\ FtpState(r, o) /\ Awaited(r, o, among)
               /\ Len(r.sessions) = Len(h.sessions)
               /\ \A turns, but : InTurn(h, o, turns, but) => InTurn(r, o, turns, but)
  <1> DEFINE r == Ftp!Connected(h, t)
  <1>0. /\ DOMAIN h = {"sessionList", "pendingList", "sessions", "pending", "assemblers"}
        /\ IsList(h.pendingList) /\ h.pendingList = h.pendingList
    BY DEF FtpState, FtpObjects, FtpListed
  <1>1. CASE Ftp!Key1(t) \in KeysOf(h.pendingList)
    <2> DEFINE e == h.pendingList[Position(h.pendingList, Ftp!Key1(t))]
               j == e.object
               q == Touch(h.pendingList, Ftp!Key1(t))
               old == h.pending[j]
               new == [old EXCEPT !.established = TRUE]
    <2>1. r = [h EXCEPT !.pendingList = q, !.pending[j].established = TRUE]
      BY <1>1, FtpLists DEF Ftp!Connected
    <2>2. e \in EntriesOf(h.pendingList)
      BY <1>0, <1>1, EntryFound
    <2> HIDE DEF e
    <2>3. j \in 1..Len(h.pending)
      BY <2>2 DEF FtpState, FtpListed
    <2>4. IsPendingOf(old, o[j])
      BY <2>3 DEF FtpState, FtpObjects
    <2> HIDE DEF j
    <2>5. /\ IsPendingOf(new, o[j]) /\ new.session = old.session
          /\ new.clientPort = old.clientPort
      BY <2>4 DEF IsPendingOf, Ftp!Direction
    <2>6. IsList(q) /\ EntriesOf(q) \subseteq EntriesOf(h.pendingList)
      BY <1>0, EntryToFront
    <2> HIDE DEF q, r
    <2>7. /\ DOMAIN r = DOMAIN h /\ r.sessionList = h.sessionList /\ r.sessions = h.sessions
          /\ r.assemblers = h.assemblers /\ r.pendingList = q
          /\ r.pending = [h.pending EXCEPT ![j] = new]
      BY <1>0, <2>1
    <2> HIDE DEF new
    <2>8. /\ FtpState(r, o)
          /\ \A u, but : InTurn(h, o, u, but) => InTurn(r, o, u, but)
          /\ \A a : Awaited(h, o, a) => Awaited(r, o, a)
      BY <2>3, <2>5, <2>6, <2>7, FtpChanged
    <2> QED BY <2>7, <2>8 DEF r
  <1>2. CASE Ftp!Key1(t) \notin KeysOf(h.pendingList) /\ Ftp!Key2(t) \in KeysOf(h.pendingList)
    <2> DEFINE e == h.pendingList[Position(h.pendingList, Ftp!Key2(t))]
               j == e.object
               old == h.pending[j]
               new == [[old EXCEPT !.clientPort = t.connector] EXCEPT !.established = TRUE]
               shorter == WithoutKey(h.pendingList, Ftp!Key2(t))
               entry == [key |-> Ftp!Key1(t), object |-> j]
               q == AddBounded(shorter, entry, FtpPendingPoolSize)
    <2>1. r = [h EXCEPT !.pending[j].clientPort = t.connector, !.pending[j].established = TRUE,
                        !.pendingList = q]
      BY <1>2, FtpLists DEF Ftp!Connected, Ftp!Rekeyed
    <2>2. e \in EntriesOf(h.pendingList) /\ e.key = Ftp!Key2(t)
      BY <1>0, <1>2, EntryFound
    <2> HIDE DEF e
    <2>3. j \in 1..Len(h.pending) /\ Ftp!Key(old) = Ftp!Key2(t)
      BY <2>2 DEF FtpState, FtpListed
    <2>4. IsPendingOf(old, o[j])
      BY <2>3 DEF FtpState, FtpObjects
    <2>5. old.clientPort = -1
      BY <2>3, <2>4, AwaitedKey DEF Ftp!Key2, Ftp!NewPending, Ftp!Key
    <2>6. o[j] = t
      <3>1. o[j] \in among
        BY <2>2, <2>5 DEF Awaited
      <3>2. Ftp!Key2(o[j]) = Ftp!Key2(t)
        BY <2>3, <2>4, <2>5, AwaitedKey
      <3> QED BY <3>1, <3>2 DEF Ftp!SameListener
    <2>7. /\ IsPendingOf(new, t) /\ new.session = old.session /\ new.clientPort = t.connector
          /\ Ftp!Key(new) = Ftp!Key1(t)
      <3>1. IsPendingOf(old, t)
        BY <2>4, <2>6
      <3> HIDE DEF old
      <3>2. /\ DOMAIN new = DOMAIN old /\ new.file = old.file /\ new.toClient = old.toClient
            /\ new.client = old.client /\ new.clientPort = t.connector /\ new.server = old.server
            /\ new.serverPort = old.serverPort /\ new.passive = old.passive
            /\ new.session = old.session
        BY <3>1 DEF IsPendingOf
      <3> HIDE DEF new
      <3>3. Ftp!Direction(new, t.command) = Ftp!Direction(old, t.command)
        BY <3>2 DEF Ftp!Direction
      <3>4. IsPendingOf(new, t)
        BY <3>1, <3>2, <3>3 DEF IsPendingOf
      <3>5. Ftp!Key(new) = Ftp!Key1(t)
        BY <3>2, <3>4 DEF IsPendingOf, Ftp!Key, Ftp!Key1, Ftp!DataConnection, Ftp!NewPending
      <3> QED BY <3>2, <3>4, <3>5
    <2>8. entry.key = Ftp!Key1(t) /\ entry.object = j
      OBVIOUS
    <2> HIDE DEF j, entry
    <2>9. IsList(shorter) /\ EntriesOf(shorter) \subseteq {x \in EntriesOf(h.pendingList) : x.key # Ftp!Key2(t)}
      BY <1>0, EntryErased
    <2> HIDE DEF shorter
    <2>10. /\ IsList(q)
           /\ EntriesOf(q) \subseteq {x \in EntriesOf(shorter) : x.key # entry.key} \cup {entry}
      BY <2>9, EntryInFront, PoolSizesAssumption
    <2> HIDE DEF q, r
    <2>11. r.pending = [h.pending EXCEPT ![j] = new]
      <3>1. j \in DOMAIN h.pending
        BY <2>3 DEF FtpState, FtpObjects
      <3>2. r.pending = [[h.pending EXCEPT ![j].clientPort = t.connector] EXCEPT ![j].established = TRUE]
        BY <1>0, <2>1
      <3> QED BY <3>1, <3>2
    <2>12. /\ DOMAIN r = DOMAIN h /\ r.sessionList = h.sessionList /\ r.sessions = h.sessions
           /\ r.assemblers = h.assemblers /\ r.pendingList = q
      BY <1>0, <2>1
    <2> HIDE DEF new
    <2>13. PICK C : h.pending \in Seq(C)
      BY DEF FtpState, FtpObjects
    <2>14. /\ r.pending \in Seq(C \cup {new}) /\ Len(r.pending) = Len(h.pending)
           /\ r.pending[j] = new /\ \A i \in 1..Len(h.pending) : i # j => r.pending[i] = h.pending[i]
      <3>1. h.pending \in Seq(C \cup {new}) /\ new \in C \cup {new}
        BY <2>13, SeqWider
      <3> QED BY <2>3, <2>11, <3>1
    <2>15. ASSUME NEW x \in EntriesOf(q), x # entry
           PROVE  /\ x \in EntriesOf(h.pendingList) /\ x.object \in 1..Len(h.pending)
                  /\ x.key = Ftp!Key(r.pending[x.object]) /\ r.pending[x.object] = h.pending[x.object]
      <3>1. x \in EntriesOf(h.pendingList) /\ x.key # Ftp!Key2(t)
        BY <2>9, <2>10, <2>15
      <3>2. x.object \in 1..Len(h.pending) /\ x.key = Ftp!Key(h.pending[x.object])
        BY <3>1 DEF FtpState, FtpListed
      <3>3. x.object # j
        BY <2>3, <3>1, <3>2
      <3> QED BY <2>14, <3>1, <3>2, <3>3
    <2> HIDE DEF old
    <2>16. FtpObjects(r, o)
      <3>1. \A i \in 1..Len(h.pending) :
               /\ o[i] \in ftpTransfers /\ IsPendingOf(r.pending[i], o[i])
               /\ r.pending[i].session \in 1..Len(h.sessions)
        BY <2>3, <2>6, <2>7, <2>14 DEF FtpState, FtpObjects, old
      <3>2. \E E : r.pending \in Seq(E)
        BY <2>14
      <3> QED BY <2>12, <2>14, <3>1, <3>2 DEF FtpState, FtpObjects
    <2>17. FtpListed(r)
      <3>1. \A x \in EntriesOf(q) : x.object \in 1..Len(h.pending) /\ x.key = Ftp!Key(r.pending[x.object])
        BY <2>3, <2>7, <2>8, <2>14, <2>15
      <3> QED BY <2>10, <2>12, <2>14, <3>1 DEF FtpState, FtpListed
    <2>18. \A turns, but : InTurn(h, o, turns, but) => InTurn(r, o, turns, but)
      BY <2>12 DEF InTurn
    <2>19. Awaited(r, o, among)
      <3>1. new.clientPort # -1
        BY <2>7, FtpCapturesAssumption
      <3>2. \A x \in EntriesOf(q) : r.pending[x.object].clientPort = -1 => o[x.object] \in among
        BY <2>8, <2>14, <2>15, <3>1 DEF Awaited
      <3> QED BY <2>12, <3>2 DEF Awaited
    <2> QED BY <2>12, <2>16, <2>17, <2>18, <2>19 DEF FtpState, r
  <1>3. CASE Ftp!Key1(t) \notin KeysOf(h.pendingList) /\ Ftp!Key2(t) \notin KeysOf(h.pendingList)
    <2>1. r = h
      BY <1>3, FtpLists DEF Ftp!Connected
    <2> QED BY <2>1
  <1> QED BY <1>1, <1>2, <1>3

\* A pending transfer that is ready becomes an assembler for its own file.
LEMMA AssemblerExpected ==
    ASSUME NEW p, NEW t, IsPendingOf(p, t), Ftp!Ready(p)
    PROVE  Ftp!Assembler(p) = Ftp!Expected(Ftp!Assembler(p).file)
  <1>1. /\ p.toClient # -1 /\ p.clientPort = t.connector /\ p.file = t
        /\ p.toClient = Ftp!Direction(p, t.command)
    BY DEF IsPendingOf, Ftp!Ready
  <1>2. Ftp!Assembler(p).file = t
    BY <1>1 DEF Ftp!Assembler
  <1>3. p.toClient = IF t.passive = (t.command = "RETR") THEN 1 ELSE 0
    BY <1>1 DEF Ftp!Direction, IsPendingOf
  <1> DEFINE toClient == t.passive = (t.command = "RETR")
             client == <<IF t.passive THEN t.session.client ELSE "server", t.connector>>
             server == <<IF t.passive THEN "server" ELSE t.session.client, t.listener>>
  <1>4. /\ <<p.client, p.clientPort>> = client /\ <<p.server, p.serverPort>> = server
        /\ client = IF t.passive THEN <<t.session.client, t.connector>> ELSE <<"server", t.connector>>
        /\ server = IF t.passive THEN <<"server", t.listener>> ELSE <<t.session.client, t.listener>>
    BY <1>1 DEF IsPendingOf
  <1> HIDE DEF client, server
  <1>5. Ftp!Expected(t) = IF toClient THEN [source |-> server, destination |-> client, file |-> t]
                          ELSE [source |-> client, destination |-> server, file |-> t]
    BY <1>4 DEF Ftp!Expected
  <1>6. Ftp!Assembler(p) = IF p.toClient = 1
                           THEN [source |-> server, destination |-> client, file |-> t]
                           ELSE [source |-> client, destination |-> server, file |-> t]
    BY <1>1, <1>4 DEF Ftp!Assembler
  <1>7. p.toClient = 1 <=> toClient
    BY <1>3
  <1> HIDE DEF toClient
  <1> QED BY <1>2, <1>5, <1>6, <1>7

LEMMA FtpCompleted ==
    ASSUME NEW h, NEW o, FtpState(h, o), NEW s \in 0..Len(h.sessions)
    PROVE  LET r == Ftp!Completed(h, s)
           IN  /\ FtpState(r, o)
               /\ \A turns, but : InTurn(h, o, turns, but) => InTurn(r, o, turns, but)
               /\ \A among : Awaited(h, o, among) => Awaited(r, o, among)
  <1> DEFINE r == Ftp!Completed(h, s)
             j == h.sessions[s]
             p == h.pending[j]
             made == Ftp!Assembler(p)
             longer == Append(h.assemblers, made)
             q == WithoutKey(h.pendingList, Ftp!Key(p))
             sessions == [h.sessions EXCEPT ![s] = 0]
  <1>0. DOMAIN h = {"sessionList", "pendingList", "sessions", "pending", "assemblers"}
    BY DEF FtpState, FtpObjects
  <1>1. CASE s = 0 \/ j = 0 \/ ~Ftp!Ready(p)
    <2>1. r = h
      BY <1>1 DEF Ftp!Completed
    <2> QED BY <2>1
  <1>2. CASE s # 0 /\ j # 0 /\ Ftp!Ready(p)
    <2>1. r = [h EXCEPT !.assemblers = longer, !.pendingList = q, !.sessions = sessions]
      BY <1>2, FtpLists DEF Ftp!Completed
    <2>2. PICK D : h.sessions \in Seq(D)
      BY DEF FtpState, FtpObjects
    <2>3. s \in 1..Len(h.sessions)
      <3>1. Len(h.sessions) \in Nat
        BY <2>2
      <3> QED BY <1>2, <3>1
    <2>4. j \in 1..Len(h.pending)
      <3>1. j \in 0..Len(h.pending) /\ Len(h.pending) \in Nat
        BY <2>3 DEF FtpState, FtpObjects
      <3> HIDE DEF j
      <3> QED BY <1>2, <3>1
    <2>5. IsPendingOf(p, o[j])
      BY <2>4 DEF FtpState, FtpObjects
    <2>6. made = Ftp!Expected(made.file)
      BY <1>2, <2>5, AssemblerExpected
    <2> HIDE DEF made
    <2>7. IsList(q) /\ EntriesOf(q) \subseteq EntriesOf(h.pendingList)
      BY EntryErased DEF FtpState, FtpListed
    <2> HIDE DEF q, j, p
    <2>8. PICK C : h.assemblers \in Seq(C)
      BY DEF FtpState, FtpObjects
    <2>9. /\ longer \in Seq(C \cup {made}) /\ Len(h.assemblers) \in Nat
          /\ Len(longer) = Len(h.assemblers) + 1 /\ longer[Len(h.assemblers) + 1] = made
          /\ \A i \in 1..Len(h.assemblers) : longer[i] = h.assemblers[i]
      <3>1. h.assemblers \in Seq(C \cup {made}) /\ made \in C \cup {made}
        BY <2>8, SeqWider
      <3> HIDE DEF longer
      <3> QED BY <3>1, AppendFacts DEF longer
    <2>10. /\ sessions \in Seq(D \cup {0}) /\ Len(sessions) = Len(h.sessions) /\ sessions[s] = 0
           /\ \A i \in 1..Len(h.sessions) : i # s => sessions[i] = h.sessions[i]
      <3>1. h.sessions \in Seq(D \cup {0}) /\ 0 \in D \cup {0}
        BY <2>2, SeqWider
      <3> QED BY <2>3, <3>1
    <2> HIDE DEF r, longer, sessions
    <2>11. /\ DOMAIN r = DOMAIN h /\ r.sessionList = h.sessionList /\ r.pendingList = q
           /\ r.sessions = sessions /\ r.pending = h.pending /\ r.assemblers = longer
      BY <1>0, <2>1
    <2>12. FtpObjects(r, o)
      <3>1. \A i \in 1..Len(longer) : longer[i] = Ftp!Expected(longer[i].file)
        <4>1. \A i \in 1..Len(longer) : i \in 1..Len(h.assemblers) \/ i = Len(h.assemblers) + 1
          BY <2>9
        <4> QED BY <2>6, <2>9, <4>1 DEF FtpState, FtpObjects
      <3>2. \A i \in 1..Len(h.sessions) : sessions[i] \in 0..Len(h.pending)
        <4>1. 0 \in 0..Len(h.pending)
          BY DEF FtpState, FtpObjects
        <4> QED BY <2>10, <4>1 DEF FtpState, FtpObjects
      <3>3. (\E E : longer \in Seq(E)) /\ (\E E : sessions \in Seq(E))
        BY <2>9, <2>10
      <3> QED BY <2>10, <2>11, <3>1, <3>2, <3>3 DEF FtpState, FtpObjects
    <2>13. FtpListed(r)
      BY <2>7, <2>10, <2>11 DEF FtpState, FtpListed
    <2>14. \A turns, but : InTurn(h, o, turns, but) => InTurn(r, o, turns, but)
      <3>1. \A e \in EntriesOf(h.sessionList) :
               sessions[e.object] # 0 => sessions[e.object] = h.sessions[e.object]
        BY <2>10 DEF FtpState, FtpListed
      <3> QED BY <2>11, <3>1 DEF InTurn
    <2>15. \A among : Awaited(h, o, among) => Awaited(r, o, among)
      BY <2>7, <2>11 DEF Awaited
    <2> QED BY <2>12, <2>13, <2>14, <2>15 DEF FtpState, r
  <1> QED BY <1>1, <1>2

----------------------------------------------------------------------------
(* FTP: what each frame leaves.                                             *)

\* The listeners that are awaited after a frame.
AwaitedAfter(t, frame, among) ==
    IF frame = "announce" THEN {u \in among : ~Ftp!SameListener(t, u)} \cup {t} ELSE among

LEMMA FtpTaken ==
    ASSUME ftpTransfers \in FtpCaptures, NEW o, FtpState(ftp, o), NEW t \in ftpTransfers,
           NEW frame \in Ftp!Frames, NEW turns, t.turn = turns[t.session],
           InTurn(ftp, o, turns, IF frame = "announce" THEN {t.session} ELSE {}),
           NEW among, Awaited(ftp, o, among),
           frame = "connect" => \A u \in among : Ftp!SameListener(t, u) => u = t
    PROVE  LET r == Ftp!TryExtractData(t, frame)
           IN  \E p : /\ FtpState(r, p) /\ InTurn(r, p, turns, {})
                      /\ Awaited(r, p, AwaitedAfter(t, frame, among))
  <1> DEFINE r == Ftp!TryExtractData(t, frame)
             left == AwaitedAfter(t, frame, among)
  <1>1. CASE frame = "connect"
    <2> DEFINE h == Ftp!Connected(ftp, t)
               s == Ftp!SessionConnected(h, t)
    <2>1. r = Ftp!Completed(h, s) /\ left = among
      BY <1>1 DEF Ftp!TryExtractData, AwaitedAfter
    <2>2. InTurn(ftp, o, turns, {}) /\ \A u \in among : Ftp!SameListener(t, u) => u = t
      BY <1>1
    <2>3. FtpState(h, o) /\ Awaited(h, o, among) /\ InTurn(h, o, turns, {})
      BY <2>2, FtpConnected
    <2> HIDE DEF h
    <2>4. s \in 0..Len(h.sessions)
      <3>1. Len(h.sessions) \in Nat
        BY <2>3 DEF FtpState, FtpObjects
      <3>2. CASE Ftp!Key1(t) \in KeysOf(h.pendingList)
        <4> DEFINE e == h.pendingList[Position(h.pendingList, Ftp!Key1(t))]
        <4>1. e \in EntriesOf(h.pendingList)
          BY <2>3, <3>2, EntryFound DEF FtpState, FtpListed
        <4>2. s = h.pending[e.object].session
          BY <3>2, FtpLists DEF Ftp!SessionConnected
        <4> HIDE DEF e, s
        <4>3. s \in 1..Len(h.sessions)
          BY <2>3, <4>1, <4>2 DEF FtpState, FtpListed, FtpObjects
        <4> QED BY <3>1, <4>3
      <3>3. CASE Ftp!Key1(t) \notin KeysOf(h.pendingList)
        BY <3>1, <3>3, FtpLists DEF Ftp!SessionConnected
      <3> QED BY <3>2, <3>3
    <2> HIDE DEF s
    <2>5. /\ FtpState(Ftp!Completed(h, s), o) /\ InTurn(Ftp!Completed(h, s), o, turns, {})
          /\ Awaited(Ftp!Completed(h, s), o, among)
      BY <2>3, <2>4, FtpCompleted
    <2> QED BY <2>1, <2>5
  <1>2. CASE frame # "connect"
    <2> DEFINE known == Ftp!WithSession(ftp, t)
               h == IF frame = "announce" THEN Ftp!Announced(known, t) ELSE Ftp!Commanded(known, t)
               s == Ftp!SessionOf(h, t)
    <2>1. r = Ftp!Completed(h, s)
      BY <1>2 DEF Ftp!TryExtractData
    <2>2. /\ FtpState(known, o) /\ t.session \in KeysOf(known.sessionList)
          /\ known.pendingList = ftp.pendingList /\ known.pending = ftp.pending
          /\ InTurn(known, o, turns, IF frame = "announce" THEN {t.session} ELSE {})
      BY FtpWithSession
    <2>3. Awaited(known, o, among)
      BY <2>2 DEF Awaited
    <2> HIDE DEF known
    <2>4. \E p : FtpState(h, p) /\ InTurn(h, p, turns, {}) /\ Awaited(h, p, left)
                 /\ h.sessionList = known.sessionList
      <3>1. CASE frame = "announce"
        <4>1. InTurn(known, o, turns, {t.session}) /\ h = Ftp!Announced(known, t)
              /\ left = {u \in among : ~Ftp!SameListener(t, u)} \cup {t}
          BY <2>2, <3>1 DEF AwaitedAfter
        <4> HIDE DEF h, left
        <4> QED BY <2>2, <2>3, <4>1, FtpAnnounced
      <3>2. CASE frame # "announce"
        <4>1. InTurn(known, o, turns, {}) /\ h = Ftp!Commanded(known, t) /\ left = among
          BY <2>2, <3>2 DEF AwaitedAfter
        <4> HIDE DEF h, left
        <4>2. /\ FtpState(h, o) /\ InTurn(h, o, turns, {}) /\ Awaited(h, o, among)
              /\ h.sessionList = known.sessionList
          BY <2>2, <2>3, <4>1, FtpCommanded
        <4> QED BY <4>1, <4>2
      <3> QED BY <3>1, <3>2
    <2> HIDE DEF h
    <2>5. PICK p : FtpState(h, p) /\ InTurn(h, p, turns, {}) /\ Awaited(h, p, left)
                   /\ h.sessionList = known.sessionList
      BY <2>4
    <2>6. s \in 0..Len(h.sessions)
      <3>1. Len(h.sessions) \in Nat
        BY <2>5 DEF FtpState, FtpObjects
      <3>2. s \in 1..Len(h.sessions)
        <4>1. t.session \in KeysOf(h.sessionList)
          BY <2>2, <2>5
        <4> QED BY <2>5, <4>1, SessionEntry
      <3> QED BY <3>1, <3>2
    <2> HIDE DEF s, left
    <2>7. /\ FtpState(Ftp!Completed(h, s), p) /\ InTurn(Ftp!Completed(h, s), p, turns, {})
          /\ Awaited(Ftp!Completed(h, s), p, left)
      BY <2>5, <2>6, FtpCompleted
    <2> QED BY <2>1, <2>7 DEF left
  <1> QED BY <1>1, <1>2

----------------------------------------------------------------------------
(* FTP: what clients and servers do.                                        *)

\* Its announcement is the latest of its session.
Present(t) == "announce" \in ftpShown[t] /\ t.turn = ftpTurn[t.session]

\* Of two present transfers of one listener, the one that is not connected yet
\* was announced after all frames of the other.
FtpEnv ==
    /\ ftpTransfers \in FtpCaptures
    /\ DOMAIN ftpTurn = Ftp!SessionsOf(ftpTransfers)
    /\ DOMAIN ftpShown = ftpTransfers /\ DOMAIN ftpNewer = ftpTransfers
    /\ DOMAIN ftpMissed = ftpTransfers
    /\ \A t \in ftpTransfers : ftpShown[t] # {} => "announce" \in ftpShown[t]
    /\ \A t, u \in ftpTransfers :
          t # u /\ Ftp!SameListener(t, u) /\ Present(t) /\ Present(u) /\ "connect" \notin ftpShown[t]
          => "connect" \in ftpShown[u] /\ t \in ftpNewer[u]

\* The transfers of whose listener no other transfer can be connected any more.
Free == {u \in ftpTransfers :
            \A t \in ftpTransfers \ {u} :
                Present(t) /\ Ftp!SameListener(t, u) => "connect" \in ftpShown[t] /\ u \in ftpNewer[t]}

\* What is common to a frame sent and one captured again.
FrameStep(t, frame) ==
    /\ ftpTransfers' = ftpTransfers
    /\ DOMAIN ftpTurn' = DOMAIN ftpTurn /\ DOMAIN ftpShown' = DOMAIN ftpShown
    /\ ftpNewer' = Ftp!Newer(t, frame)
    /\ ftpShown[t] \subseteq ftpShown'[t] /\ "announce" \in ftpShown'[t]
    /\ frame = "connect" => "connect" \in ftpShown'[t]
    /\ \A v \in ftpTransfers : v # t => ftpShown'[v] = ftpShown[v] /\ (Present(v)' => Present(v))
    /\ t.turn = ftpTurn'[t.session]
    /\ \A s \in DOMAIN ftpTurn : s # t.session => ftpTurn'[s] = ftpTurn[s]
    /\ frame # "announce" =>
          Present(t) /\ \A s \in DOMAIN ftpTurn : ftpTurn'[s] = ftpTurn[s]
    /\ frame = "announce" => \A v \in ftpTransfers :
          v # t /\ Present(v)' /\ Ftp!SameListener(t, v) => "connect" \in ftpShown[v]
    /\ frame = "connect" => \A v \in ftpTransfers :
          Ftp!SameListener(t, v) => ~("connect" \in ftpShown[t] /\ v \in ftpNewer[t])

LEMMA SentFrame ==
    ASSUME FtpEnv, NEW t \in ftpTransfers, NEW frame \in Ftp!Frames, Ftp!Sent(t, frame)
    PROVE  FrameStep(t, frame)
  <1>1. /\ ftpTransfers' = ftpTransfers /\ ftpNewer' = Ftp!Newer(t, frame)
        /\ ftpTurn' = [ftpTurn EXCEPT ![t.session] = t.turn]
        /\ ftpShown' = [ftpShown EXCEPT ![t] = ftpShown[t] \cup {frame}]
        /\ frame \notin ftpShown[t]
    BY DEF Ftp!Sent
  <1>2. t.session \in DOMAIN ftpTurn /\ DOMAIN ftpShown = ftpTransfers
    BY DEF FtpEnv, Ftp!SessionsOf
  <1>3. /\ t.turn = ftpTurn'[t.session] /\ DOMAIN ftpTurn' = DOMAIN ftpTurn
        /\ \A s \in DOMAIN ftpTurn : s # t.session => ftpTurn'[s] = ftpTurn[s]
    BY <1>1, <1>2
  <1>4. /\ ftpShown'[t] = ftpShown[t] \cup {frame} /\ DOMAIN ftpShown' = DOMAIN ftpShown
        /\ \A v \in ftpTransfers : v # t => ftpShown'[v] = ftpShown[v]
    BY <1>1, <1>2
  <1>5. frame # "announce" =>
           Present(t) /\ \A s \in DOMAIN ftpTurn : ftpTurn'[s] = ftpTurn[s]
    <2>1. frame # "announce" => t.turn = ftpTurn[t.session] /\ "announce" \in ftpShown[t]
      BY DEF Ftp!Sent
    <2> QED BY <1>1, <1>2, <2>1 DEF Present
  <1>6. ASSUME NEW v \in ftpTransfers, v # t, Present(v)'
        PROVE  Present(v) /\ v.session # t.session
    <2>1. v.turn = ftpTurn'[v.session] /\ "announce" \in ftpShown[v]
      BY <1>4, <1>6 DEF Present
    <2>2. v.session # t.session
      <3>1. v.session = t.session => v.turn = t.turn
        BY <1>3, <2>1
      <3> QED BY <1>6, <3>1, FtpCapturesAssumption DEF FtpEnv
    <2>3. v.session \in DOMAIN ftpTurn
      BY DEF FtpEnv, Ftp!SessionsOf
    <2> QED BY <1>3, <2>1, <2>2, <2>3 DEF Present
  <1>7. "announce" \in ftpShown'[t]
    BY <1>4, <1>5 DEF Present
  <1>8. ASSUME frame = "announce", NEW v \in ftpTransfers, v # t, Present(v)', Ftp!SameListener(t, v)
        PROVE  "connect" \in ftpShown[v]
    <2>1. ~(Ftp!SameListener(t, v) /\ Ftp!Listening(v) /\ v.session # t.session)
      BY <1>8 DEF Ftp!Sent
    <2>2. Present(v) /\ v.session # t.session
      BY <1>6, <1>8
    <2> QED BY <1>8, <2>1, <2>2 DEF Ftp!Listening, Present
  <1>9. frame = "connect" => "connect" \notin ftpShown[t] /\ "connect" \in ftpShown'[t]
    BY <1>1, <1>4
  <1> QED BY <1>1, <1>3, <1>4, <1>5, <1>6, <1>7, <1>8, <1>9 DEF FrameStep

LEMMA RepeatedFrame ==
    ASSUME FtpEnv, NEW t \in ftpTransfers, NEW frame \in Ftp!Frames, Ftp!Repeated(t, frame)
    PROVE  FrameStep(t, frame)
  <1>1. /\ ftpTransfers' = ftpTransfers /\ ftpNewer' = Ftp!Newer(t, frame)
        /\ ftpTurn' = ftpTurn /\ ftpShown' = ftpShown /\ frame \in ftpShown[t]
        /\ t.turn = ftpTurn[t.session]
        /\ frame # "command" => ~\E u \in ftpNewer[t] : Ftp!SameListener(t, u)
    BY DEF Ftp!Repeated
  <1>2. Present(t)
    BY <1>1 DEF FtpEnv, Present
  <1>3. \A v \in ftpTransfers : Present(v)' <=> Present(v)
    BY <1>1 DEF Present
  <1>4. ASSUME frame = "announce", NEW v \in ftpTransfers, v # t, Present(v)', Ftp!SameListener(t, v)
        PROVE  "connect" \in ftpShown[v]
    <2>1. v \notin ftpNewer[t]
      BY <1>1, <1>4
    <2>2. Present(v) /\ Ftp!SameListener(v, t)
      BY <1>3, <1>4 DEF Ftp!SameListener
    <2> QED BY <1>2, <1>4, <2>1, <2>2 DEF FtpEnv
  <1>5. frame = "connect" => \A v \in ftpTransfers : Ftp!SameListener(t, v) => v \notin ftpNewer[t]
    BY <1>1
  <1> QED BY <1>1, <1>2, <1>3, <1>4, <1>5 DEF FrameStep, Present

LEMMA NewerAfter ==
    ASSUME FtpEnv, NEW t \in ftpTransfers, NEW frame, FrameStep(t, frame)
    PROVE  /\ DOMAIN ftpNewer' = ftpTransfers
           /\ frame = "command" => \A v \in ftpTransfers : ftpNewer'[v] = ftpNewer[v]
           /\ \A v \in ftpTransfers : v # t => ftpNewer[v] \subseteq ftpNewer'[v]
           /\ frame # "command" => \A v \in ftpTransfers : v # t => t \in ftpNewer'[v]
  <1>1. ftpNewer' = [u \in ftpTransfers |-> IF frame = "command" THEN ftpNewer[u]
                                           ELSE IF u = t THEN {} ELSE ftpNewer[u] \cup {t}]
    BY DEF FrameStep, Ftp!Newer
  <1> QED BY <1>1

LEMMA FrameKeepsEnv ==
    ASSUME FtpEnv, NEW t \in ftpTransfers, NEW frame \in Ftp!Frames, FrameStep(t, frame),
           DOMAIN ftpMissed' = ftpTransfers
    PROVE  FtpEnv'
  <1>1. \A v \in ftpTransfers : ftpShown'[v] # {} => "announce" \in ftpShown'[v]
    BY DEF FtpEnv, FrameStep
  <1>2. ASSUME NEW x \in ftpTransfers, NEW w \in ftpTransfers, x # w, Ftp!SameListener(x, w),
               Present(x)', Present(w)', "connect" \notin ftpShown'[x]
        PROVE  "connect" \in ftpShown'[w] /\ x \in ftpNewer'[w]
    <2>1. frame = "announce" \/ frame = "connect" \/ frame = "command"
      BY DEF Ftp!Frames
    <2>2. CASE x # t /\ w # t
      <3>1. Present(x) /\ Present(w) /\ "connect" \notin ftpShown[x] /\ ftpShown'[w] = ftpShown[w]
        BY <1>2, <2>2 DEF FrameStep
      <3>2. "connect" \in ftpShown[w] /\ x \in ftpNewer[w]
        BY <1>2, <3>1 DEF FtpEnv
      <3> QED BY <2>2, <3>1, <3>2, NewerAfter
    <2>3. CASE x = t
      <3>1. frame # "connect" /\ ftpShown'[w] = ftpShown[w] /\ w # t /\ "connect" \notin ftpShown[t]
        BY <1>2, <2>3 DEF FrameStep
      <3>2. CASE frame = "announce"
        <4>1. "connect" \in ftpShown[w]
          BY <1>2, <2>3, <3>1, <3>2 DEF FrameStep
        <4> QED BY <2>3, <3>1, <3>2, <4>1, NewerAfter
      <3>3. CASE frame = "command"
        <4>1. Present(t) /\ Present(w)
          BY <1>2, <3>1, <3>3 DEF FrameStep
        <4>2. "connect" \in ftpShown[w] /\ t \in ftpNewer[w]
          BY <1>2, <2>3, <3>1, <4>1 DEF FtpEnv
        <4> QED BY <2>3, <3>1, <3>3, <4>2, NewerAfter
      <3> QED BY <2>1, <3>1, <3>2, <3>3
    <2>4. CASE w = t
      <3>1. x # t /\ Present(x) /\ "connect" \notin ftpShown[x] /\ Ftp!SameListener(t, x)
        BY <1>2, <2>4 DEF FrameStep, Ftp!SameListener
      <3>2. frame # "announce"
        BY <1>2, <3>1 DEF FrameStep
      <3>3. "connect" \in ftpShown[t] /\ x \in ftpNewer[t]
        <4>1. Present(t)
          BY <3>2 DEF FrameStep
        <4> QED BY <1>2, <2>4, <3>1, <4>1 DEF FtpEnv
      <3>4. frame = "command"
        BY <2>1, <3>1, <3>2, <3>3 DEF FrameStep
      <3> QED BY <2>4, <3>3, <3>4, NewerAfter DEF FrameStep
    <2> QED BY <2>2, <2>3, <2>4
  <1>3. /\ ftpTransfers' = ftpTransfers /\ DOMAIN ftpNewer' = ftpTransfers
        /\ DOMAIN ftpTurn' = DOMAIN ftpTurn /\ DOMAIN ftpShown' = DOMAIN ftpShown
    BY NewerAfter DEF FrameStep
  <1>4. \A x, w \in ftpTransfers :
           x # w /\ Ftp!SameListener(x, w) /\ Present(x)' /\ Present(w)' /\ "connect" \notin ftpShown'[x]
           => "connect" \in ftpShown'[w] /\ x \in ftpNewer'[w]
    BY <1>2
  <1> QED BY <1>1, <1>3, <1>4 DEF FtpEnv, Ftp!SameListener, Ftp!SessionsOf

LEMMA FrameFrees ==
    ASSUME FtpEnv, NEW t \in ftpTransfers, NEW frame \in Ftp!Frames, FrameStep(t, frame)
    PROVE  /\ AwaitedAfter(t, frame, Free) \subseteq Free'
           /\ frame = "connect" => \A u \in Free : Ftp!SameListener(t, u) => u = t
  <1>0. frame = "announce" \/ frame = "connect" \/ frame = "command"
    BY DEF Ftp!Frames
  <1>1. ASSUME frame = "connect", NEW u \in Free, Ftp!SameListener(t, u), u # t PROVE FALSE
    <2>1. Present(t) /\ u \in ftpTransfers
      BY <1>1 DEF FrameStep, Free
    <2>2. "connect" \in ftpShown[t] /\ u \in ftpNewer[t]
      BY <1>1, <2>1 DEF Free
    <2> QED BY <1>1, <2>1, <2>2 DEF FrameStep
  <1>2. ASSUME NEW u \in AwaitedAfter(t, frame, Free), NEW v \in ftpTransfers \ {u},
               Present(v)', Ftp!SameListener(v, u)
        PROVE  "connect" \in ftpShown'[v] /\ u \in ftpNewer'[v]
    <2>1. u \in Free \/ (u = t /\ frame = "announce")
      BY DEF AwaitedAfter
    <2>2. frame = "announce" => u = t \/ ~Ftp!SameListener(t, u)
      BY DEF AwaitedAfter
    <2>3. CASE v = t
      <3>1. Ftp!SameListener(t, u) /\ u # t
        BY <1>2, <2>3
      <3>2. frame = "command" /\ u \in Free
        BY <1>0, <1>1, <2>1, <2>2, <3>1
      <3>3. Present(t)
        BY <3>2 DEF FrameStep
      <3>4. "connect" \in ftpShown[t] /\ u \in ftpNewer[t]
        BY <3>1, <3>2, <3>3 DEF Free
      <3> QED BY <2>3, <3>2, <3>4, NewerAfter DEF FrameStep
    <2>4. CASE v # t /\ u \in Free
      <3>1. Present(v) /\ ftpShown'[v] = ftpShown[v]
        BY <1>2, <2>4 DEF FrameStep
      <3>2. "connect" \in ftpShown[v] /\ u \in ftpNewer[v]
        BY <1>2, <2>4, <3>1 DEF Free
      <3> QED BY <2>4, <3>1, <3>2, NewerAfter
    <2>5. CASE v # t /\ u = t /\ frame = "announce"
      <3>1. "connect" \in ftpShown[v] /\ ftpShown'[v] = ftpShown[v]
        BY <1>2, <2>5 DEF FrameStep, Ftp!SameListener
      <3> QED BY <2>5, <3>1, NewerAfter
    <2> QED BY <2>1, <2>3, <2>4, <2>5
  <1>3. AwaitedAfter(t, frame, Free) \subseteq ftpTransfers /\ ftpTransfers' = ftpTransfers
    BY DEF AwaitedAfter, Free, FrameStep
  <1>4. AwaitedAfter(t, frame, Free) \subseteq Free'
    BY <1>2, <1>3 DEF Free, Ftp!SameListener
  <1> QED BY <1>1, <1>4

LEMMA InTurnAfter ==
    ASSUME FtpEnv, NEW t \in ftpTransfers, NEW frame, FrameStep(t, frame),
           NEW o, FtpState(ftp, o), InTurn(ftp, o, ftpTurn, {})
    PROVE  InTurn(ftp, o, ftpTurn', IF frame = "announce" THEN {t.session} ELSE {})
  <1> SUFFICES ASSUME NEW e \in EntriesOf(ftp.sessionList), ftp.sessions[e.object] # 0,
                      frame = "announce" => e.key # t.session
               PROVE  /\ o[ftp.sessions[e.object]].session = e.key
                      /\ o[ftp.sessions[e.object]].turn = ftpTurn'[e.key]
    BY DEF InTurn
  <1> DEFINE i == ftp.sessions[e.object]
  <1>1. o[i].session = e.key /\ o[i].turn = ftpTurn[e.key]
    BY DEF InTurn
  <1>2. o[i] \in ftpTransfers
    <2>1. i \in 0..Len(ftp.pending) /\ i # 0 /\ Len(ftp.pending) \in Nat
      BY DEF FtpState, FtpListed, FtpObjects
    <2> HIDE DEF i
    <2>2. i \in 1..Len(ftp.pending)
      BY <2>1
    <2> QED BY <2>2 DEF FtpState, FtpObjects
  <1> HIDE DEF i
  <1>3. e.key \in DOMAIN ftpTurn
    BY <1>1, <1>2 DEF FtpEnv, Ftp!SessionsOf
  <1>4. ftpTurn'[e.key] = ftpTurn[e.key]
    BY <1>3 DEF FrameStep
  <1> QED BY <1>1, <1>4 DEF i

\* The handler's state fits what the sessions did, for some transfers that
\* announced what is pending.
FtpKnows ==
    \E o : FtpState(ftp, o) /\ InTurn(ftp, o, ftpTurn, {}) /\ Awaited(ftp, o, Free)

NoneUnannounced == \A t \in ftpTransfers : "announce" \notin ftpMissed[t]

FtpInv == FtpEnv /\ (NoneUnannounced => FtpKnows)

\* A frame that the handler sees.
LEMMA FrameTaken ==
    ASSUME FtpEnv, FtpKnows, NEW t \in ftpTransfers, NEW frame \in Ftp!Frames, FrameStep(t, frame),
           ftp' = Ftp!TryExtractData(t, frame)
    PROVE  FtpKnows'
  <1>1. PICK o : FtpState(ftp, o) /\ InTurn(ftp, o, ftpTurn, {}) /\ Awaited(ftp, o, Free)
    BY DEF FtpKnows
  <1> DEFINE turns == ftpTurn'
             free == Free
  <1>2. InTurn(ftp, o, turns, IF frame = "announce" THEN {t.session} ELSE {})
    BY <1>1, InTurnAfter
  <1>3. t.turn = turns[t.session] /\ ftpTransfers' = ftpTransfers /\ ftpTransfers \in FtpCaptures
    BY DEF FrameStep, FtpEnv
  <1>4. /\ AwaitedAfter(t, frame, free) \subseteq Free'
        /\ frame = "connect" => \A u \in free : Ftp!SameListener(t, u) => u = t
    BY FrameFrees
  <1>5. Awaited(ftp, o, free)
    BY <1>1
  <1> HIDE DEF turns, free
  <1>6. \E p : /\ FtpState(Ftp!TryExtractData(t, frame), p)
               /\ InTurn(Ftp!TryExtractData(t, frame), p, turns, {})
               /\ Awaited(Ftp!TryExtractData(t, frame), p, AwaitedAfter(t, frame, free))
    BY <1>1, <1>2, <1>3, <1>4, <1>5, FtpTaken
  <1>7. PICK p : /\ FtpState(ftp', p) /\ InTurn(ftp', p, turns, {})
                 /\ Awaited(ftp', p, AwaitedAfter(t, frame, free))
    BY <1>6
  <1>8. FtpState(ftp, p)'
    BY <1>3, <1>7 DEF FtpState, FtpObjects, FtpListed
  <1>9. InTurn(ftp, p, ftpTurn, {})'
    BY <1>7 DEF InTurn, turns
  <1>10. Awaited(ftp, p, Free)'
    BY <1>4, <1>7 DEF Awaited
  <1> QED BY <1>8, <1>9, <1>10 DEF FtpKnows

\* A command or a connection that the handler does not see.
LEMMA FrameUnseen ==
    ASSUME FtpEnv, FtpKnows, NEW t \in ftpTransfers, NEW frame \in Ftp!Frames, FrameStep(t, frame),
           frame # "announce", ftp' = ftp
    PROVE  FtpKnows'
  <1>1. PICK o : FtpState(ftp, o) /\ InTurn(ftp, o, ftpTurn, {}) /\ Awaited(ftp, o, Free)
    BY DEF FtpKnows
  <1>2. InTurn(ftp, o, ftpTurn', {})
    <2>1. InTurn(ftp, o, ftpTurn', IF frame = "announce" THEN {t.session} ELSE {})
      <3>1. FtpEnv /\ FrameStep(t, frame) /\ FtpState(ftp, o) /\ InTurn(ftp, o, ftpTurn, {})
        BY <1>1
      <3> QED BY ONLY <3>1, InTurnAfter, t \in ftpTransfers
    <2>2. (IF frame = "announce" THEN {t.session} ELSE {}) = {}
      OBVIOUS
    <2> QED BY <2>1, <2>2 DEF InTurn
  <1>3. ftpTransfers' = ftpTransfers
    BY DEF FrameStep
  <1>4. Free \subseteq Free'
    BY FrameFrees DEF AwaitedAfter
  <1>5. FtpState(ftp, o)'
    BY <1>1, <1>3 DEF FtpState, FtpObjects, FtpListed
  <1>6. InTurn(ftp, o, ftpTurn, {})'
    BY <1>2 DEF InTurn
  <1>7. Awaited(ftp, o, Free)'
    BY <1>1, <1>4 DEF Awaited
  <1> QED BY <1>5, <1>6, <1>7 DEF FtpKnows

\* Reset leaves the objects, and no list leads to them.
LEMMA ListsForgotten ==
    ASSUME FtpEnv, FtpKnows, UNCHANGED <<ftpTransfers, ftpTurn>>,
           ftp' = [ftp EXCEPT !.sessionList = << >>, !.pendingList = << >>]
    PROVE  FtpKnows'
  <1>1. PICK o : FtpState(ftp, o) /\ InTurn(ftp, o, ftpTurn, {}) /\ Awaited(ftp, o, Free)
    BY DEF FtpKnows
  <1>2. /\ DOMAIN ftp' = DOMAIN ftp /\ ftp'.sessionList = << >> /\ ftp'.pendingList = << >>
        /\ ftp'.sessions = ftp.sessions /\ ftp'.pending = ftp.pending
        /\ ftp'.assemblers = ftp.assemblers
    BY <1>1 DEF FtpState, FtpObjects
  <1>3. ftpTransfers' = ftpTransfers
    OBVIOUS
  <1>4. IsList(<< >>) /\ \A e \in EntriesOf(<< >>) : FALSE
    BY DEF IsList, OneEntryPerKey, EntriesOf
  <1>5. FtpObjects(ftp, o)'
    BY <1>1, <1>2, <1>3 DEF FtpState, FtpObjects
  <1>6. FtpListed(ftp)'
    BY <1>2, <1>4 DEF FtpListed
  <1>7. InTurn(ftp, o, ftpTurn, {})' /\ Awaited(ftp, o, Free)'
    BY <1>2, <1>4 DEF InTurn, Awaited
  <1> QED BY <1>5, <1>6, <1>7 DEF FtpKnows, FtpState

LEMMA FtpStarts == FilesInit => FtpInv
  <1> SUFFICES ASSUME FilesInit PROVE FtpInv
    OBVIOUS
  <1>1. /\ ftp = [sessionList |-> << >>, pendingList |-> << >>, sessions |-> << >>,
                  pending |-> << >>, assemblers |-> << >>]
        /\ ftpTransfers \in FtpCaptures
        /\ ftpTurn = [s \in Ftp!SessionsOf(ftpTransfers) |-> 0]
        /\ ftpShown = [t \in ftpTransfers |-> {}] /\ ftpMissed = [t \in ftpTransfers |-> {}]
        /\ ftpNewer = [t \in ftpTransfers |-> {}]
    BY DEF FilesInit, Ftp!Init
  <1>2. FtpEnv
    BY <1>1 DEF FtpEnv, Present
  <1>3. IsList(<< >>) /\ \A e \in EntriesOf(<< >>) : FALSE
    BY DEF IsList, OneEntryPerKey, EntriesOf
  <1> DEFINE o == << >>
  <1> HIDE DEF o
  <1>4. FtpObjects(ftp, o)
    <2>1. << >> \in Seq({}) /\ Len(<< >>) = 0
      OBVIOUS
    <2> QED BY <1>1, <2>1 DEF FtpObjects
  <1>5. FtpListed(ftp) /\ InTurn(ftp, o, ftpTurn, {}) /\ Awaited(ftp, o, Free)
    BY <1>1, <1>3 DEF FtpListed, InTurn, Awaited
  <1> QED BY <1>2, <1>4, <1>5 DEF FtpInv, FtpKnows, FtpState

LEMMA FtpPreserved == FtpInv /\ [FilesNext]_<<protocol, smbVars, ftpVars>> => FtpInv'
  <1> SUFFICES ASSUME FtpInv, [FilesNext]_<<protocol, smbVars, ftpVars>> PROVE FtpInv'
    OBVIOUS
  <1> USE DEF FtpInv
  <1>1. ASSUME UNCHANGED ftpVars PROVE FtpInv'
    <2>1. /\ ftp' = ftp /\ ftpTransfers' = ftpTransfers /\ ftpTurn' = ftpTurn /\ ftpShown' = ftpShown
          /\ ftpMissed' = ftpMissed /\ ftpNewer' = ftpNewer
      BY <1>1 DEF ftpVars
    <2>2. FtpEnv'
      BY <2>1 DEF FtpEnv, Present, Ftp!SameListener, Ftp!SessionsOf
    <2>3. ASSUME FtpKnows PROVE FtpKnows'
      <3>1. PICK o : FtpState(ftp, o) /\ InTurn(ftp, o, ftpTurn, {}) /\ Awaited(ftp, o, Free)
        BY <2>3 DEF FtpKnows
      <3>2. FtpState(ftp, o)'
        BY <2>1, <3>1 DEF FtpState, FtpObjects, FtpListed
      <3>3. InTurn(ftp, o, ftpTurn, {})'
        BY <2>1, <3>1 DEF InTurn
      <3>4. Free' = Free
        BY <2>1 DEF Free, Present, Ftp!SameListener
      <3>5. Awaited(ftp, o, Free)'
        BY <2>1, <3>1, <3>4 DEF Awaited
      <3> QED BY <3>2, <3>3, <3>5 DEF FtpKnows
    <2> QED BY <2>1, <2>2, <2>3 DEF NoneUnannounced
  <1>2. ASSUME NEW t \in ftpTransfers, NEW frame \in Ftp!Frames, Ftp!Captured(t, frame)
        PROVE  FtpInv'
    <2>1. /\ Ftp!Sent(t, frame) /\ ftp' = Ftp!TryExtractData(t, frame) /\ ftpMissed' = ftpMissed
      BY <1>2 DEF Ftp!Captured
    <2>2. FrameStep(t, frame)
      BY <2>1, SentFrame
    <2>3. FtpEnv'
      BY <2>1, <2>2, FrameKeepsEnv DEF FtpEnv
    <2>4. FtpKnows => FtpKnows'
      BY <2>1, <2>2, FrameTaken
    <2> QED BY <2>1, <2>2, <2>3, <2>4 DEF NoneUnannounced, FrameStep
  <1>3. ASSUME NEW t \in ftpTransfers, NEW frame \in Ftp!Frames, Ftp!Repeated(t, frame)
        PROVE  FtpInv'
    <2>1. ftp' = Ftp!TryExtractData(t, frame) /\ ftpMissed' = ftpMissed
      BY <1>3 DEF Ftp!Repeated
    <2>2. FrameStep(t, frame)
      BY <1>3, RepeatedFrame
    <2>3. FtpEnv'
      BY <2>1, <2>2, FrameKeepsEnv DEF FtpEnv
    <2>4. FtpKnows => FtpKnows'
      BY <2>1, <2>2, FrameTaken
    <2> QED BY <2>1, <2>2, <2>3, <2>4 DEF NoneUnannounced, FrameStep
  <1>4. ASSUME NEW t \in ftpTransfers, NEW frame \in Ftp!Frames, Ftp!Missed(t, frame)
        PROVE  FtpInv'
    <2>1. /\ Ftp!Sent(t, frame) /\ ftp' = ftp
          /\ ftpMissed' = [ftpMissed EXCEPT ![t] = ftpMissed[t] \cup {frame}]
      BY <1>4 DEF Ftp!Missed
    <2>2. FrameStep(t, frame)
      BY <2>1, SentFrame
    <2>3. /\ DOMAIN ftpMissed' = ftpTransfers /\ frame \in ftpMissed'[t]
          /\ \A v \in ftpTransfers : ftpMissed[v] \subseteq ftpMissed'[v]
      BY <2>1 DEF FtpEnv
    <2>4. FtpEnv'
      BY <2>2, <2>3, FrameKeepsEnv
    <2>5. NoneUnannounced' => NoneUnannounced /\ frame # "announce"
      BY <2>2, <2>3 DEF NoneUnannounced, FrameStep
    <2>6. FtpKnows /\ frame # "announce" => FtpKnows'
      BY <2>1, <2>2, FrameUnseen
    <2> QED BY <2>4, <2>5, <2>6
  <1>5. ASSUME Ftp!Reset PROVE FtpInv'
    <2>1. /\ ftp' = [ftp EXCEPT !.sessionList = << >>, !.pendingList = << >>]
          /\ ftpTransfers' = ftpTransfers /\ ftpTurn' = ftpTurn /\ ftpShown' = ftpShown
          /\ ftpMissed' = ftpMissed /\ ftpNewer' = ftpNewer
      BY <1>5 DEF Ftp!Reset
    <2>2. FtpEnv'
      BY <2>1 DEF FtpEnv, Present, Ftp!SameListener, Ftp!SessionsOf
    <2>3. FtpKnows => FtpKnows'
      BY <2>1, ListsForgotten
    <2> QED BY <2>1, <2>2, <2>3 DEF NoneUnannounced
  <1>6. CASE FilesNext
    <2>1. CASE Ftp!Next
      BY <1>2, <1>3, <1>4, <1>5, <2>1 DEF Ftp!Next
    <2>2. CASE UNCHANGED ftpVars
      BY <1>1, <2>2
    <2>3. Ftp!Next \/ UNCHANGED ftpVars
      BY <1>6 DEF FilesNext
    <2> QED BY <2>1, <2>2, <2>3
  <1>7. CASE UNCHANGED <<protocol, smbVars, ftpVars>>
    BY <1>1, <1>7
  <1> QED BY <1>6, <1>7

LEMMA FtpFollows == FtpInv => FileOnItsConnection
  <1> SUFFICES ASSUME FtpInv, NoneUnannounced,
                      NEW i \in DOMAIN ftp.assemblers
               PROVE  ftp.assemblers[i] = Ftp!Expected(ftp.assemblers[i].file)
    BY DEF FileOnItsConnection, Ftp!FileOnItsConnection, NoneUnannounced
  <1>1. PICK o : FtpObjects(ftp, o)
    BY DEF FtpInv, FtpKnows, FtpState
  <1>2. DOMAIN ftp.assemblers = 1..Len(ftp.assemblers)
    BY <1>1 DEF FtpObjects
  <1> QED BY <1>1, <1>2 DEF FtpObjects

\* However the frames of sessions interleave, are repeated or missed, and whatever
\* the lists dropped: when no announcement was missed, a file that FtpPacketHandler
\* created an assembler for is sought on the connection that carries it, from its
\* sender to its receiver.
THEOREM FilesOnTheirConnection == FilesSpec => []FileOnItsConnection
  <1>1. FilesInit => FtpInv
    BY FtpStarts
  <1>2. FtpInv /\ [FilesNext]_<<protocol, smbVars, ftpVars>> => FtpInv'
    BY FtpPreserved
  <1>3. FtpInv => FileOnItsConnection
    BY FtpFollows
  <1> QED BY <1>1, <1>2, <1>3, PTL DEF FilesSpec

----------------------------------------------------------------------------
(* FTP: the places that transfers need.                                     *)

\* Another transfer has the same ports.
Shares(v) == \E u \in ftpTransfers \ {v} : Ftp!SamePorts(v, u)

\* The entry is there because of one of these transfers: as its connection, or as
\* its listener while its connection, unless it is another's too, is not there.
DueTo(x, q, N) ==
    \E v \in N : \/ Ftp!Key1(v) = x
                 \/ Ftp!Key2(v) = x /\ (Ftp!Key1(v) \notin q \/ Shares(v))

LEMMA FtpCardinality == \A S : Ftp!Cardinality(S) = Cardinality(S)
  BY DEF Ftp!Cardinality, Cardinality

\* There are no more such entries than places counted for the transfers.
LEMMA EntriesCount ==
    ASSUME NEW N, IsFiniteSet(N), NEW A, \A x \in A : DueTo(x, A, N)
    PROVE  /\ IsFiniteSet(A) /\ Cardinality(A) \in Nat /\ Ftp!Entries(N) \in Nat
           /\ Cardinality(A) <= Ftp!Entries(N)
  <1> DEFINE Sh == {v \in N : \E u \in ftpTransfers \ {v} : Ftp!SamePorts(v, u)}
             P == N \X {1}
             Q == Sh \X {2}
             Direct(x) == \E v \in N : Ftp!Key1(v) = x
             Fits(x, m) ==
                 /\ m \in P \cup Q
                 /\ \/ m[2] = 1 /\ Ftp!Key1(m[1]) = x
                    \/ m[2] = 1 /\ Ftp!Key2(m[1]) = x /\ Ftp!Key1(m[1]) \notin A
                    \/ m[2] = 2 /\ Ftp!Key2(m[1]) = x
             f == [x \in A |-> CHOOSE m \in P \cup Q : Fits(x, m)]
  <1>14. Ftp!Entries(N) = Cardinality(N) + Cardinality(Sh)
    <2>1. Ftp!Entries(N) = Ftp!Cardinality(N) + Ftp!Cardinality(Sh)
      BY Zenon DEF Ftp!Entries
    <2> HIDE DEF Sh
    <2> QED BY <2>1, FtpCardinality
  <1>1. ASSUME NEW x \in A PROVE \E m \in P \cup Q : Fits(x, m)
    <2>1. PICK v \in N : Ftp!Key1(v) = x \/ (Ftp!Key2(v) = x /\ (Ftp!Key1(v) \notin A \/ Shares(v)))
      BY DEF DueTo
    <2>2. CASE Ftp!Key1(v) = x
      <3>1. <<v, 1>> \in P \cup Q
        OBVIOUS
      <3>2. Fits(x, <<v, 1>>)
        BY <2>2, <3>1
      <3> HIDE DEF Fits
      <3> QED BY <3>1, <3>2
    <2>3. CASE Ftp!Key2(v) = x /\ Ftp!Key1(v) \notin A
      <3>1. <<v, 1>> \in P \cup Q
        OBVIOUS
      <3>2. Fits(x, <<v, 1>>)
        BY <2>3, <3>1
      <3> HIDE DEF Fits
      <3> QED BY <3>1, <3>2
    <2>4. CASE Ftp!Key2(v) = x /\ Shares(v)
      <3>1. v \in Sh
        BY <2>4 DEF Shares
      <3>2. <<v, 2>> \in P \cup Q
        BY <3>1
      <3>3. Fits(x, <<v, 2>>)
        BY <2>4, <3>2
      <3> HIDE DEF Fits
      <3> QED BY <3>2, <3>3
    <2> QED BY <2>1, <2>2, <2>3, <2>4
  <1>2. ASSUME NEW x \in A PROVE f[x] \in P \cup Q /\ Fits(x, f[x])
    <2> HIDE DEF Fits
    <2> QED BY <1>1
  <1>3. ASSUME NEW x \in A, NEW y \in A, NEW m, Fits(x, m), Fits(y, m) PROVE x = y
    BY <1>3
  <1>4. f \in [A -> P \cup Q]
    BY <1>2
  <1> HIDE DEF f, Fits
  <1>5. \A x, y \in A : f[x] = f[y] => x = y
    BY <1>2, <1>3
  <1> HIDE DEF P, Q
  <1>6. f \in Injection(A, P \cup Q)
    BY <1>4, <1>5 DEF Injection, IsInjective
  <1> USE DEF P, Q
  <1>7. IsFiniteSet(Sh) /\ Sh \subseteq N
    BY FS_Subset
  <1> HIDE DEF Sh
  <1>8. IsFiniteSet(P) /\ Cardinality(P) = Cardinality(N) /\ Cardinality(N) \in Nat
    <2>1. IsFiniteSet({1}) /\ Cardinality({1}) = 1
      BY FS_Singleton
    <2>2. IsFiniteSet(P) /\ Cardinality(P) = Cardinality(N) * Cardinality({1})
      BY <2>1, FS_Product
    <2>3. Cardinality(N) \in Nat
      BY FS_CardinalityType
    <2> QED BY <2>1, <2>2, <2>3
  <1>9. IsFiniteSet(Q) /\ Cardinality(Q) = Cardinality(Sh) /\ Cardinality(Sh) \in Nat
    <2>1. IsFiniteSet({2}) /\ Cardinality({2}) = 1
      BY FS_Singleton
    <2>2. IsFiniteSet(Q) /\ Cardinality(Q) = Cardinality(Sh) * Cardinality({2})
      BY <1>7, <2>1, FS_Product
    <2>3. Cardinality(Sh) \in Nat
      BY <1>7, FS_CardinalityType
    <2> QED BY <2>1, <2>2, <2>3
  <1>10. P \cap Q = {}
    OBVIOUS
  <1> HIDE DEF P, Q
  <1>11. IsFiniteSet(P \cup Q) /\ Cardinality(P \cup Q) = Cardinality(N) + Cardinality(Sh)
    <2>1. IsFiniteSet(P \cup Q)
          /\ Cardinality(P \cup Q) = Cardinality(P) + Cardinality(Q) - Cardinality(P \cap Q)
      BY <1>8, <1>9, FS_Union
    <2>2. Cardinality(P \cap Q) = 0
      BY <1>10, FS_EmptySet
    <2> QED BY <1>8, <1>9, <2>1, <2>2
  <1>12. IsFiniteSet(A) /\ Cardinality(A) <= Cardinality(P \cup Q)
    BY <1>6, <1>11, FS_Injection
  <1>13. Cardinality(A) \in Nat
    BY <1>12, FS_CardinalityType
  <1> QED BY <1>8, <1>9, <1>11, <1>12, <1>13, <1>14

----------------------------------------------------------------------------
(* FTP: the handler's state, whatever was missed.                           *)

\* Objects refer to objects, entries to objects with their key.
FtpShape(h) ==
    /\ DOMAIN h = {"sessionList", "pendingList", "sessions", "pending", "assemblers"}
    /\ (\E C : h.pending \in Seq(C)) /\ (\E C : h.sessions \in Seq(C))
    /\ (\E C : h.assemblers \in Seq(C))
    /\ \A i \in 1..Len(h.pending) :
          /\ DOMAIN h.pending[i] = {"client", "clientPort", "server", "serverPort", "passive",
                                    "toClient", "established", "session", "file"}
          /\ h.pending[i].session \in 1..Len(h.sessions)
    /\ \A z \in 1..Len(h.sessions) : h.sessions[z] \in 0..Len(h.pending)
    /\ FtpListed(h)

\* The transfers that began, when sh says which frames of each were sent.
Begun(sh) == {w \in ftpTransfers : sh[w] # {}}

\* What the handler holds comes from frames of these.
FtpKnown(h, sh) ==
    /\ KeysOf(h.sessionList) \subseteq Ftp!SessionsOf(ftpTransfers)
    /\ \A i \in 1..Len(h.pending) :
          /\ h.pending[i].clientPort # -1 =>
                \E w \in ftpTransfers : "connect" \in sh[w] /\ Ftp!Key(h.pending[i]) = Ftp!Key1(w)
          /\ h.pending[i].toClient # -1 => h.pending[i].file \in Begun(sh)
    /\ \A i \in 1..Len(h.assemblers) : h.assemblers[i].file \in Begun(sh)

\* The pending transfer that its announcement created, number i of the session
\* entry e, after these frames, when it is a file's; no other is like it.
Follows(h, t, i, e, sent) ==
    /\ i \in 1..Len(h.pending) /\ e \in EntriesOf(h.sessionList)
    /\ e.key = t.session /\ h.sessions[e.object] = i /\ h.pending[i].session = e.object
    /\ \A z \in 1..Len(h.sessions) : h.sessions[z] = i => z = e.object
    /\ \E f \in EntriesOf(h.pendingList) : f.object = i
    /\ Ftp!Key(h.pending[i]) = IF "connect" \in sent THEN Ftp!Key1(t) ELSE Ftp!Key2(t)
    /\ h.pending[i].established <=> "connect" \in sent
    /\ h.pending[i].toClient = -1 <=> "command" \notin sent
    /\ h.pending[i].toClient # -1 => h.pending[i].file = t
    /\ \A j \in 1..Len(h.pending) : j # i =>
          /\ Ftp!Key(h.pending[j]) # Ftp!Key1(t)
          /\ h.pending[j].toClient # -1 => h.pending[j].file # t
    /\ \A j \in 1..Len(h.assemblers) : h.assemblers[j].file # t

\* The keys before this one are due to these transfers.
Within(q, y, N) == \A x \in KeysBefore(q, y) : DueTo(x, KeysOf(q), N)

\* No session's pending transfer is to carry this file any more, and its own
\* session, when it has it still, has none.
NotSought(h, t) ==
    \A z \in 1..Len(h.sessions) :
        h.sessions[z] # 0 /\ h.pending[h.sessions[z]].toClient # -1 => h.pending[h.sessions[z]].file # t
Idle(h, t) == \A e \in EntriesOf(h.sessionList) : e.key = t.session => h.sessions[e.object] = 0
AssemblersOf(h, t) == {i \in 1..Len(h.assemblers) : h.assemblers[i].file = t}

LEMMA PlaceKept ==
    ASSUME NEW q, IsList(q), NEW entry, NEW y \in KeysOf(q), y # entry.key,
           NEW N, IsFiniteSet(N), Within(PutFirst(q, entry), y, N), Ftp!Entries(N) < FtpPendingPoolSize
    PROVE  LET a == AddBounded(q, entry, FtpPendingPoolSize)
           IN  y \in KeysOf(a) /\ Within(a, y, N)
  <1> DEFINE a == AddBounded(q, entry, FtpPendingPoolSize)
             p == PutFirst(q, entry)
             A == KeysBefore(p, y)
  <1>1. /\ IsList(p) /\ EntriesOf(p) = {e \in EntriesOf(q) : e.key # entry.key} \cup {entry}
    BY PutFacts
  <1>2. /\ EntriesOf(a) \subseteq EntriesOf(p) /\ KeysBefore(a, y) \subseteq A
        /\ \A k \in KeysOf(p) : IsFiniteSet(KeysBefore(p, k)) /\ Cardinality(KeysBefore(p, k)) < FtpPendingPoolSize
                                => k \in KeysOf(a)
    BY AddBoundedKeeps, PoolSizesAssumption
  <1>3. \A x \in A : DueTo(x, KeysOf(p), N)
    BY DEF Within
  <1> HIDE DEF a, p
  <1>4. A \subseteq KeysOf(p)
    BY DEF KeysBefore
  <1>5. KeysOf(a) \subseteq KeysOf(p)
    BY <1>2 DEF KeysOf, EntriesOf
  <1>6. ASSUME NEW K, K \subseteq KeysOf(p), NEW x, DueTo(x, KeysOf(p), N) PROVE DueTo(x, K, N)
    BY <1>6 DEF DueTo
  <1>7. \A x \in A : DueTo(x, A, N)
    BY <1>3, <1>4, <1>6
  <1>8. IsFiniteSet(A) /\ Cardinality(A) < FtpPendingPoolSize
    <2> HIDE DEF A
    <2>1. /\ IsFiniteSet(A) /\ Cardinality(A) \in Nat /\ Ftp!Entries(N) \in Nat
          /\ Cardinality(A) <= Ftp!Entries(N)
      BY <1>7, EntriesCount
    <2> QED BY <2>1, PoolSizesAssumption
  <1>9. y \in KeysOf(p)
    <2>1. PICK k \in DOMAIN q : q[k].key = y
      BY DEF KeysOf
    <2>2. q[k] \in EntriesOf(p)
      BY <1>1, <2>1 DEF EntriesOf
    <2> QED BY <2>1, <2>2, KeysOfEntries
  <1>10. Within(a, y, N)
    BY <1>2, <1>3, <1>5, <1>6 DEF Within
  <1> QED BY <1>2, <1>8, <1>9, <1>10 DEF a

\* What finding or creating a session leaves alone.
OnlySession(h, r) ==
    /\ r.pendingList = h.pendingList /\ r.pending = h.pending /\ r.assemblers = h.assemblers
    /\ EntriesOf(h.sessionList) \subseteq EntriesOf(r.sessionList)
    /\ \A e \in EntriesOf(r.sessionList) : e \in EntriesOf(h.sessionList) \/ r.sessions[e.object] = 0
    /\ \A z \in 1..Len(h.sessions) : z \in 1..Len(r.sessions) /\ r.sessions[z] = h.sessions[z]
    /\ \A z \in 1..Len(r.sessions) : r.sessions[z] # 0 => z \in 1..Len(h.sessions)

LEMMA SessionFinds ==
    ASSUME NEW h, FtpShape(h), NEW sh, FtpKnown(h, sh), NEW t \in ftpTransfers,
           IsFiniteSet(Ftp!SessionsOf(ftpTransfers)),
           Cardinality(Ftp!SessionsOf(ftpTransfers)) <= FtpSessionPoolSize
    PROVE  LET r == Ftp!WithSession(h, t)
           IN  FtpShape(r) /\ FtpKnown(r, sh) /\ OnlySession(h, r) /\ t.session \in KeysOf(r.sessionList)
  <1> DEFINE r == Ftp!WithSession(h, t)
  <1>0. /\ DOMAIN h = {"sessionList", "pendingList", "sessions", "pending", "assemblers"}
        /\ IsList(h.sessionList) /\ FtpListed(h)
    BY DEF FtpShape, FtpListed
  <1>1. CASE t.session \in KeysOf(h.sessionList)
    <2> DEFINE front == h.sessionList[Position(h.sessionList, t.session)]
               q == Touch(h.sessionList, t.session)
    <2>1. r = [h EXCEPT !.sessionList = q]
      BY <1>1, FtpLists DEF Ftp!WithSession
    <2>2. front \in EntriesOf(h.sessionList) /\ front.key = t.session /\ q = PutFirst(h.sessionList, front)
      BY <1>0, <1>1, EntryFound, TouchedPut
    <2> HIDE DEF front
    <2>3. IsList(q) /\ EntriesOf(q) = {e \in EntriesOf(h.sessionList) : e.key # front.key} \cup {front}
      BY <1>0, <2>2, PutFacts
    <2> HIDE DEF q, r
    <2>4. EntriesOf(q) = EntriesOf(h.sessionList)
      <3>1. EntriesOf(q) \subseteq EntriesOf(h.sessionList)
        BY <2>2, <2>3
      <3>2. ASSUME NEW e \in EntriesOf(h.sessionList) PROVE e \in EntriesOf(q)
        <4>1. e.key = front.key => e = front
          BY <1>0, <2>2, SameEntry
        <4> QED BY <2>3, <4>1
      <3> QED BY <3>1, <3>2
    <2>5. /\ DOMAIN r = DOMAIN h /\ r.sessionList = q /\ r.pendingList = h.pendingList
          /\ r.sessions = h.sessions /\ r.pending = h.pending /\ r.assemblers = h.assemblers
      BY <1>0, <2>1
    <2>6. t.session \in KeysOf(q) /\ KeysOf(q) = KeysOf(h.sessionList)
      <3>1. \A x : KeysOf(x) = {e.key : e \in EntriesOf(x)}
        BY DEF KeysOf, EntriesOf
      <3> QED BY <1>1, <2>4, <3>1
    <2>7. FtpShape(r)
      BY <2>3, <2>4, <2>5 DEF FtpShape, FtpListed
    <2>8. FtpKnown(r, sh) /\ OnlySession(h, r)
      BY <2>4, <2>5, <2>6 DEF FtpKnown, OnlySession
    <2> QED BY <2>5, <2>6, <2>7, <2>8 DEF r
  <1>2. CASE t.session \notin KeysOf(h.sessionList)
    <2> DEFINE n == Len(h.sessions) + 1
               entry == [key |-> t.session, object |-> n]
               q == AddBounded(h.sessionList, entry, FtpSessionPoolSize)
               p == PutFirst(h.sessionList, entry)
               grown == Append(h.sessions, 0)
    <2>1. r = [h EXCEPT !.sessions = grown, !.sessionList = q]
      BY <1>2, FtpLists DEF Ftp!WithSession
    <2>2. entry.key = t.session /\ entry.object = n
      OBVIOUS
    <2> HIDE DEF entry
    <2>3. IsList(p) /\ EntriesOf(p) = EntriesOf(h.sessionList) \cup {entry}
      <3>1. IsList(p) /\ EntriesOf(p) = {e \in EntriesOf(h.sessionList) : e.key # entry.key} \cup {entry}
        BY <1>0, PutFacts
      <3>2. \A e \in EntriesOf(h.sessionList) : e.key # entry.key
        BY <1>2, <2>2, KeysOfEntries
      <3> QED BY <3>1, <3>2
    <2>4. KeysOf(p) = KeysOf(h.sessionList) \cup {t.session}
      <3>1. \A x : KeysOf(x) = {e.key : e \in EntriesOf(x)}
        BY DEF KeysOf, EntriesOf
      <3> QED BY <2>2, <2>3, <3>1
    <2>5. KeysOf(p) \subseteq Ftp!SessionsOf(ftpTransfers)
      BY <2>4 DEF FtpKnown, Ftp!SessionsOf
    <2>6. q = p
      <3>1. Len(p) \in Nat /\ Len(p) <= Cardinality(Ftp!SessionsOf(ftpTransfers))
        BY <2>3, <2>5, ListLength
      <3>2. Cardinality(Ftp!SessionsOf(ftpTransfers)) \in Nat
        BY FS_CardinalityType
      <3>3. Len(p) <= FtpSessionPoolSize
        BY <3>1, <3>2, PoolSizesAssumption
      <3> QED BY <1>0, <3>3, AddBoundedKeeps, PoolSizesAssumption
    <2>7. PICK C : h.sessions \in Seq(C)
      BY DEF FtpShape
    <2>8. /\ grown \in Seq(C \cup {0}) /\ Len(h.sessions) \in Nat /\ Len(grown) = n
          /\ grown[n] = 0 /\ \A s \in 1..Len(h.sessions) : grown[s] = h.sessions[s]
      <3>1. h.sessions \in Seq(C \cup {0}) /\ 0 \in C \cup {0}
        BY <2>7, SeqWider
      <3> HIDE DEF grown
      <3> QED BY <3>1, AppendFacts DEF grown
    <2> HIDE DEF p, q, r, grown
    <2>9. /\ DOMAIN r = DOMAIN h /\ r.sessionList = p /\ r.pendingList = h.pendingList
          /\ r.sessions = grown /\ r.pending = h.pending /\ r.assemblers = h.assemblers
      BY <1>0, <2>1, <2>6
    <2>10. /\ n \in 1..n /\ 1..Len(h.sessions) \subseteq 1..n /\ n \notin 1..Len(h.sessions)
           /\ \A s \in 1..n : s = n \/ s \in 1..Len(h.sessions)
      BY <2>8
    <2> HIDE DEF n
    <2>11. \A z \in 1..n : grown[z] \in 0..Len(h.pending)
      <3>1. 0 \in 0..Len(h.pending)
        BY DEF FtpShape
      <3> QED BY <2>8, <2>10, <3>1 DEF FtpShape
    <2>12. FtpListed(r)
      <3>1. \A e \in EntriesOf(p) : e = entry \/ (e \in EntriesOf(h.sessionList) /\ e.object # n)
        BY <1>0, <2>3, <2>10 DEF FtpListed
      <3>2. \A e \in EntriesOf(p) : e.object \in 1..n
        BY <1>0, <2>2, <2>10, <3>1 DEF FtpListed
      <3>3. \A e, f \in EntriesOf(p) : e.object = f.object => e.key = f.key
        BY <1>0, <2>2, <3>1 DEF FtpListed
      <3> QED BY <1>0, <2>3, <2>8, <2>9, <3>2, <3>3 DEF FtpListed
    <2>13. FtpShape(r)
      <3>1. \A i \in 1..Len(h.pending) : h.pending[i].session \in 1..n
        BY <2>10 DEF FtpShape
      <3>2. \E D : grown \in Seq(D)
        BY <2>8
      <3> QED BY <2>8, <2>9, <2>11, <2>12, <3>1, <3>2 DEF FtpShape
    <2>14. FtpKnown(r, sh)
      BY <2>5, <2>9 DEF FtpKnown
    <2>15. OnlySession(h, r)
      <3>1. \A e \in EntriesOf(p) : e \in EntriesOf(h.sessionList) \/ grown[e.object] = 0
        BY <2>2, <2>3, <2>8
      <3>2. \A z \in 1..Len(h.sessions) : z \in 1..n /\ grown[z] = h.sessions[z]
        BY <2>8, <2>10
      <3>3. \A z \in 1..n : grown[z] # 0 => z \in 1..Len(h.sessions)
        BY <2>8, <2>10
      <3> QED BY <2>3, <2>8, <2>9, <3>1, <3>2, <3>3 DEF OnlySession
    <2> QED BY <2>4, <2>9, <2>13, <2>14, <2>15 DEF r
  <1> QED BY <1>1, <1>2

LEMMA SessionKeeps ==
    ASSUME NEW h, FtpShape(h), NEW r, OnlySession(h, r), NEW t
    PROVE  /\ \A i, e, sent : Follows(h, t, i, e, sent) => Follows(r, t, i, e, sent)
           /\ NotSought(h, t) => NotSought(r, t)
           /\ Idle(h, t) => Idle(r, t)
           /\ AssemblersOf(r, t) = AssemblersOf(h, t)
  <1>1. ASSUME NEW i, NEW e, NEW sent, Follows(h, t, i, e, sent)
        PROVE  Follows(r, t, i, e, sent)
    <2>1. e \in EntriesOf(r.sessionList) /\ e.object \in 1..Len(h.sessions)
      BY <1>1 DEF Follows, OnlySession, FtpShape, FtpListed
    <2>2. r.sessions[e.object] = i
      BY <1>1, <2>1 DEF Follows, OnlySession
    <2>3. \A z \in 1..Len(r.sessions) : r.sessions[z] = i => z = e.object
      BY <1>1 DEF Follows, OnlySession
    <2> QED BY <1>1, <2>1, <2>2, <2>3 DEF Follows, OnlySession
  <1>2. NotSought(h, t) => NotSought(r, t)
    BY DEF NotSought, OnlySession
  <1>3. Idle(h, t) => Idle(r, t)
    BY DEF Idle, OnlySession, FtpShape, FtpListed
  <1>4. AssemblersOf(r, t) = AssemblersOf(h, t)
    BY DEF AssemblersOf, OnlySession
  <1> QED BY <1>1, <1>2, <1>3, <1>4

\* A pending transfer of this session that waits for its command and its connection.
IsNew(p, t, session) ==
    /\ p.clientPort = -1 /\ p.toClient = -1 /\ p.established = FALSE /\ p.session = session
    /\ Ftp!Key(p) = Ftp!Key2(t)

LEMMA NewPendingIsNew ==
    ASSUME NEW t, NEW s
    PROVE  LET p == Ftp!NewPending(t, s)
           IN  /\ DOMAIN p = {"client", "clientPort", "server", "serverPort", "passive",
                              "toClient", "established", "session", "file"}
               /\ IsNew(p, t, s)
  BY DEF Ftp!NewPending, Ftp!Key, Ftp!Key2, IsNew

\* The key of a connection has the client's port, that of a listener has none.
LEMMA KeysApart ==
    ASSUME ftpTransfers \in FtpCaptures, NEW t \in ftpTransfers
    PROVE  /\ Ftp!Key1(t)[2] = t.connector /\ t.connector # -1
           /\ \A v : Ftp!Key2(v)[2] = -1
           /\ \A v : Ftp!Key1(t) # Ftp!Key2(v)
           /\ \A p : Ftp!Key(p)[2] = p.clientPort
           /\ \A v : Ftp!Key1(t) = Ftp!Key1(v) => Ftp!Key2(t) = Ftp!Key2(v)
  <1>1. t.connector # -1
    BY FtpCapturesAssumption
  <1>2. \A p : Ftp!Key(p)[2] = p.clientPort
    BY DEF Ftp!Key
  <1>3. \A v : Ftp!Key2(v)[2] = -1
    BY <1>2 DEF Ftp!Key2, Ftp!NewPending
  <1>4. \A v : /\ Ftp!Key1(v) = <<Ftp!Key2(v)[1], v.connector, Ftp!Key2(v)[3], Ftp!Key2(v)[4]>>
               /\ Ftp!Key2(v) = <<Ftp!Key2(v)[1], -1, Ftp!Key2(v)[3], Ftp!Key2(v)[4]>>
    BY DEF Ftp!Key2, Ftp!Key1, Ftp!Key, Ftp!DataConnection, Ftp!NewPending
  <1>5. \A v : Ftp!Key1(t) = Ftp!Key1(v) => Ftp!Key2(t) = Ftp!Key2(v)
    BY <1>4
  <1>6. Ftp!Key1(t)[2] = t.connector
    BY <1>4
  <1>7. \A v : Ftp!Key1(t) # Ftp!Key2(v)
    <2> SUFFICES ASSUME NEW v, Ftp!Key1(t) = Ftp!Key2(v) PROVE FALSE
      OBVIOUS
    <2> QED BY <1>1, <1>3, <1>6
  <1> QED BY <1>1, <1>2, <1>3, <1>5, <1>6, <1>7

LEMMA SessionIsFound ==
    ASSUME NEW h, FtpShape(h), NEW t, t.session \in KeysOf(h.sessionList)
    PROVE  \E e \in EntriesOf(h.sessionList) :
              /\ e.key = t.session /\ Ftp!SessionOf(h, t) = e.object
              /\ e.object \in 1..Len(h.sessions)
  <1> DEFINE e == h.sessionList[Position(h.sessionList, t.session)]
  <1>1. e \in EntriesOf(h.sessionList) /\ e.key = t.session
    BY EntryFound DEF FtpShape, FtpListed
  <1>2. Ftp!SessionOf(h, t) = e.object
    BY FtpLists DEF Ftp!SessionOf
  <1> HIDE DEF e
  <1> QED BY <1>1, <1>2 DEF FtpShape, FtpListed

\* The state after an announcement in this session.
Began(h, r, t, e) ==
    /\ DOMAIN r = DOMAIN h /\ r.sessionList = h.sessionList /\ r.assemblers = h.assemblers
    /\ Len(r.sessions) = Len(h.sessions) /\ Len(h.pending) \in Nat
    /\ Len(r.pending) = Len(h.pending) + 1
    /\ r.sessions[e.object] = Len(h.pending) + 1
    /\ \A z \in 1..Len(h.sessions) : z # e.object => r.sessions[z] = h.sessions[z]
    /\ IsNew(r.pending[Len(h.pending) + 1], t, e.object)
    /\ \A i \in 1..Len(h.pending) : r.pending[i] = h.pending[i]
    /\ r.pendingList = AddBounded(h.pendingList,
                                  [key |-> Ftp!Key2(t), object |-> Len(h.pending) + 1],
                                  FtpPendingPoolSize)

LEMMA Begins ==
    ASSUME NEW h, FtpShape(h), NEW t, NEW e \in EntriesOf(h.sessionList),
           Ftp!SessionOf(h, t) = e.object
    PROVE  Began(h, Ftp!Announced(h, t), t, e) /\ FtpShape(Ftp!Announced(h, t))
  <1> DEFINE r == Ftp!Announced(h, t)
             s == e.object
             new == Ftp!NewPending(t, s)
             n == Len(h.pending) + 1
             grown == Append(h.pending, new)
             sessions == [h.sessions EXCEPT ![s] = n]
             entry == [key |-> Ftp!Key2(t), object |-> n]
             q == AddBounded(h.pendingList, entry, FtpPendingPoolSize)
  <1>1. Ftp!Key(new) = Ftp!Key2(t)
    BY DEF Ftp!Key2, Ftp!Key, Ftp!NewPending
  <1>2. r = [h EXCEPT !.pending = grown, !.sessions = sessions, !.pendingList = q]
    <2>1. r = [h EXCEPT !.pending = grown, !.sessions = sessions,
                        !.pendingList = AddBounded(h.pendingList, [key |-> Ftp!Key(new), object |-> n],
                                                   FtpPendingPoolSize)]
      BY FtpLists DEF Ftp!Announced
    <2> HIDE DEF new, r
    <2> QED BY <1>1, <2>1
  <1>3. s \in 1..Len(h.sessions) /\ FtpListed(h)
    BY DEF FtpShape, FtpListed
  <1>4. entry.key = Ftp!Key2(t) /\ entry.object = n
    OBVIOUS
  <1> HIDE DEF s, entry
  <1>5. /\ IsList(q) /\ entry \in EntriesOf(q)
        /\ EntriesOf(q) \subseteq {x \in EntriesOf(h.pendingList) : x.key # entry.key} \cup {entry}
    BY <1>3, EntryInFront, PoolSizesAssumption DEF FtpListed
  <1>6. /\ DOMAIN new = {"client", "clientPort", "server", "serverPort", "passive",
                         "toClient", "established", "session", "file"}
        /\ IsNew(new, t, s) /\ new.session = s
    BY NewPendingIsNew DEF IsNew
  <1> HIDE DEF new
  <1>7. PICK C : h.pending \in Seq(C)
    BY DEF FtpShape
  <1>8. /\ grown \in Seq(C \cup {new}) /\ Len(h.pending) \in Nat /\ Len(grown) = n
        /\ grown[n] = new /\ \A i \in 1..Len(h.pending) : grown[i] = h.pending[i]
    <2>1. h.pending \in Seq(C \cup {new}) /\ new \in C \cup {new}
      BY <1>7, SeqWider
    <2> HIDE DEF grown
    <2> QED BY <2>1, AppendFacts DEF grown
  <1>9. PICK D : h.sessions \in Seq(D)
    BY DEF FtpShape
  <1>10. /\ sessions \in Seq(D \cup {n}) /\ Len(sessions) = Len(h.sessions) /\ sessions[s] = n
         /\ \A i \in 1..Len(h.sessions) : i # s => sessions[i] = h.sessions[i]
    <2>1. h.sessions \in Seq(D \cup {n}) /\ n \in D \cup {n}
      BY <1>9, SeqWider
    <2> HIDE DEF n
    <2> QED BY <1>3, <2>1
  <1> HIDE DEF q, grown, r, sessions
  <1>11. /\ DOMAIN r = DOMAIN h /\ r.sessionList = h.sessionList /\ r.pendingList = q
         /\ r.sessions = sessions /\ r.pending = grown /\ r.assemblers = h.assemblers
    BY <1>2 DEF FtpShape
  <1>12. Began(h, r, t, e)
    BY <1>6, <1>8, <1>10, <1>11 DEF Began, n, s, q, entry
  <1>13. /\ n \in 1..n /\ n \in 0..n /\ 0..Len(h.pending) \subseteq 0..n
         /\ 1..Len(h.pending) \subseteq 1..n
         /\ \A i \in 1..n : i = n \/ i \in 1..Len(h.pending)
    BY <1>8
  <1> HIDE DEF n
  <1>14. \A i \in 1..n :
            /\ DOMAIN grown[i] = {"client", "clientPort", "server", "serverPort", "passive",
                                  "toClient", "established", "session", "file"}
            /\ grown[i].session \in 1..Len(sessions)
    BY <1>3, <1>6, <1>8, <1>10, <1>13 DEF FtpShape
  <1>15. \A z \in 1..Len(sessions) : sessions[z] \in 0..n
    BY <1>10, <1>13 DEF FtpShape
  <1>16. FtpListed(r)
    <2>1. \A x \in EntriesOf(q) : x.object \in 1..n /\ x.key = Ftp!Key(grown[x.object])
      <3>1. CASE TRUE
        <4>1. \A x \in EntriesOf(q) : x = entry \/ x \in EntriesOf(h.pendingList)
          BY <1>5
        <4> QED BY <1>1, <1>3, <1>4, <1>8, <1>13, <4>1 DEF FtpListed
      <3> QED BY <3>1
    <2> QED BY <1>3, <1>5, <1>8, <1>10, <1>11, <2>1 DEF FtpListed
  <1>17. FtpShape(r)
    <2>1. (\E E : grown \in Seq(E)) /\ (\E E : sessions \in Seq(E))
      BY <1>8, <1>10
    <2> QED BY <1>8, <1>11, <1>14, <1>15, <1>16, <2>1 DEF FtpShape
  <1> QED BY <1>12, <1>17 DEF r

LEMMA BeganKnown ==
    ASSUME NEW h, NEW sh, FtpKnown(h, sh), NEW r, NEW t, NEW e, Began(h, r, t, e)
    PROVE  FtpKnown(r, sh)
  <1> DEFINE n == Len(h.pending) + 1
  <1>1. \A i \in 1..n : i = n \/ i \in 1..Len(h.pending)
    BY DEF Began
  <1>2. r.pending[n].clientPort = -1 /\ r.pending[n].toClient = -1
    BY DEF Began, IsNew
  <1>3. \A i \in 1..Len(h.pending) : r.pending[i] = h.pending[i]
    BY DEF Began
  <1>4. Len(r.pending) = n /\ r.sessionList = h.sessionList /\ r.assemblers = h.assemblers
    BY DEF Began
  <1> HIDE DEF n
  <1>5. \A i \in 1..n :
           /\ r.pending[i].clientPort # -1 =>
                \E w \in ftpTransfers : "connect" \in sh[w] /\ Ftp!Key(r.pending[i]) = Ftp!Key1(w)
           /\ r.pending[i].toClient # -1 => r.pending[i].file \in Begun(sh)
    BY <1>1, <1>2, <1>3 DEF FtpKnown
  <1> QED BY <1>4, <1>5 DEF FtpKnown

\* An announcement of another session leaves a transfer alone, unless it is of
\* the same listener or the list has no room.
LEMMA BeganKeeps ==
    ASSUME ftpTransfers \in FtpCaptures, NEW h, FtpShape(h), NEW w \in ftpTransfers, NEW r, NEW d,
           d \in EntriesOf(h.sessionList), d.key = w.session, Began(h, r, w, d), FtpShape(r),
           NEW t \in ftpTransfers, t.session # w.session, Ftp!Key2(w) # Ftp!Key2(t),
           NEW i, NEW e, NEW sent, Follows(h, t, i, e, sent),
           NEW N \in SUBSET ftpTransfers, IsFiniteSet(N), w \in N,
           Within(h.pendingList, Ftp!Key(h.pending[i]), N),
           Ftp!Key1(w) \notin KeysOf(h.pendingList) \/ Shares(w),
           Ftp!Entries(N) < FtpPendingPoolSize
    PROVE  Follows(r, t, i, e, sent) /\ Within(r.pendingList, Ftp!Key(r.pending[i]), N)
  <1> DEFINE n == Len(h.pending) + 1
             entry == [key |-> Ftp!Key2(w), object |-> n]
             y == Ftp!Key(h.pending[i])
             p == PutFirst(h.pendingList, entry)
  <1>0. i \in 1..Len(h.pending) /\ r.pending[i] = h.pending[i] /\ n \notin 1..Len(h.pending)
    BY DEF Follows, Began
  <1>1. entry.key = Ftp!Key2(w) /\ r.pendingList = AddBounded(h.pendingList, entry, FtpPendingPoolSize)
    BY DEF Began
  <1>2. entry.key # y
    BY <1>1, KeysApart DEF Follows
  <1>3. IsList(h.pendingList)
    BY DEF FtpShape, FtpListed
  <1>4. y \in KeysOf(h.pendingList)
    <2>1. PICK f \in EntriesOf(h.pendingList) : f.object = i
      BY DEF Follows
    <2>2. f.key = y
      BY <2>1 DEF FtpShape, FtpListed
    <2> QED BY <2>2, KeysOfEntries
  <1> HIDE DEF entry, n, y
  <1>5. /\ IsList(p) /\ EntriesOf(p) = {x \in EntriesOf(h.pendingList) : x.key # entry.key} \cup {entry}
        /\ KeysBefore(p, y) \subseteq KeysBefore(h.pendingList, y) \cup {entry.key}
    BY <1>3, PutFacts
  <1> HIDE DEF p
  <1>6. KeysOf(p) \subseteq KeysOf(h.pendingList) \cup {entry.key}
    <2>1. \A x : KeysOf(x) = {k.key : k \in EntriesOf(x)}
      BY DEF KeysOf, EntriesOf
    <2> QED BY <1>5, <2>1
  <1>7. ASSUME NEW v \in ftpTransfers PROVE Ftp!Key1(v) # entry.key
    BY <1>1, KeysApart
  <1>8. Within(p, y, N)
    <2> SUFFICES ASSUME NEW x \in KeysBefore(p, y) PROVE DueTo(x, KeysOf(p), N)
      BY DEF Within
    <2>1. \A v \in ftpTransfers : Ftp!Key1(v) \notin KeysOf(h.pendingList) => Ftp!Key1(v) \notin KeysOf(p)
      BY <1>6, <1>7
    <2>2. CASE x = entry.key
      <3>1. Ftp!Key2(w) = x /\ (Ftp!Key1(w) \notin KeysOf(p) \/ Shares(w))
        BY <1>1, <2>1, <2>2
      <3> QED BY <3>1 DEF DueTo
    <2>3. CASE x # entry.key
      <3>1. DueTo(x, KeysOf(h.pendingList), N)
        BY <1>5, <2>3 DEF Within, y
      <3>2. PICK v \in N : \/ Ftp!Key1(v) = x
                           \/ Ftp!Key2(v) = x /\ (Ftp!Key1(v) \notin KeysOf(h.pendingList) \/ Shares(v))
        BY <3>1 DEF DueTo
      <3>3. v \in ftpTransfers
        OBVIOUS
      <3> QED BY <2>1, <3>2, <3>3 DEF DueTo
    <2> QED BY <2>2, <2>3
  <1>9. y \in KeysOf(r.pendingList) /\ Within(r.pendingList, y, N)
    BY <1>1, <1>2, <1>3, <1>4, <1>8, PlaceKept DEF p
  <1>10. \E f \in EntriesOf(r.pendingList) : f.object = i
    <2>1. PICK f \in EntriesOf(r.pendingList) : f.key = y
      <3>1. r.pendingList[Position(r.pendingList, y)] \in EntriesOf(r.pendingList)
            /\ r.pendingList[Position(r.pendingList, y)].key = y
        BY <1>9, EntryFound DEF FtpShape, FtpListed
      <3> QED BY <3>1
    <2>2. EntriesOf(r.pendingList) \subseteq EntriesOf(p)
      BY <1>1, <1>3, AddBoundedKeeps, PoolSizesAssumption DEF p
    <2>3. f \in EntriesOf(h.pendingList)
      BY <1>2, <1>5, <2>1, <2>2
    <2>4. PICK g \in EntriesOf(h.pendingList) : g.object = i
      BY DEF Follows
    <2>5. g.key = y
      BY <2>4 DEF FtpShape, FtpListed, y
    <2>6. f = g
      BY <1>3, <2>1, <2>3, <2>5, SameEntry
    <2> QED BY <2>1, <2>4, <2>6
  <1>11. e.object # d.object /\ e.object \in 1..Len(h.sessions)
    BY DEF Follows, FtpShape, FtpListed
  <1>12. \A j \in 1..Len(r.pending) : j # i =>
           /\ Ftp!Key(r.pending[j]) # Ftp!Key1(t)
           /\ r.pending[j].toClient # -1 => r.pending[j].file # t
    <2>1. \A j \in 1..Len(r.pending) : j = n \/ j \in 1..Len(h.pending)
      BY DEF Began, n
    <2>2. Ftp!Key(r.pending[n]) = Ftp!Key2(w) /\ r.pending[n].toClient = -1
      BY DEF Began, IsNew, n
    <2>3. Ftp!Key2(w) # Ftp!Key1(t)
      BY KeysApart
    <2> QED BY <2>1, <2>2, <2>3 DEF Began, Follows
  <1>13. \A z \in 1..Len(r.sessions) : r.sessions[z] = i => z = e.object
    <2> SUFFICES ASSUME NEW z \in 1..Len(r.sessions), r.sessions[z] = i PROVE z = e.object
      OBVIOUS
    <2>1. r.sessions[d.object] = n /\ z \in 1..Len(h.sessions)
      BY DEF Began, n
    <2>2. z # d.object
      BY <1>0, <2>1
    <2> QED BY <2>1, <2>2 DEF Began, Follows
  <1>14. i \in 1..Len(r.pending)
    BY <1>0 DEF Began
  <1>15. r.sessions[e.object] = i
    BY <1>11 DEF Follows, Began
  <1>16. Follows(r, t, i, e, sent)
    BY <1>0, <1>10, <1>12, <1>13, <1>14, <1>15 DEF Follows, Began
  <1> QED BY <1>0, <1>9, <1>16 DEF y

\* The announced transfer, when nothing is there with its ports or for its file.
LEMMA BeganFollows ==
    ASSUME ftpTransfers \in FtpCaptures, NEW h, FtpShape(h), NEW t \in ftpTransfers, NEW r,
           NEW e \in EntriesOf(h.sessionList), e.key = t.session, Began(h, r, t, e), FtpShape(r),
           \A j \in 1..Len(h.pending) :
              /\ Ftp!Key(h.pending[j]) # Ftp!Key1(t)
              /\ h.pending[j].toClient # -1 => h.pending[j].file # t,
           \A j \in 1..Len(h.assemblers) : h.assemblers[j].file # t
    PROVE  LET n == Len(h.pending) + 1
           IN  /\ Follows(r, t, n, e, {"announce"})
               /\ \A N : Within(r.pendingList, Ftp!Key(r.pending[n]), N)
  <1> DEFINE n == Len(h.pending) + 1
             entry == [key |-> Ftp!Key2(t), object |-> n]
  <1>1. entry.key = Ftp!Key2(t) /\ entry.object = n
        /\ r.pendingList = AddBounded(h.pendingList, entry, FtpPendingPoolSize)
    BY DEF Began
  <1>2. /\ r.pending[n].toClient = -1 /\ r.pending[n].established = FALSE
        /\ r.pending[n].session = e.object /\ Ftp!Key(r.pending[n]) = Ftp!Key2(t)
    BY DEF Began, IsNew
  <1>3. e.object \in 1..Len(h.sessions) /\ e \in EntriesOf(r.sessionList) /\ IsList(h.pendingList)
    BY DEF FtpShape, FtpListed, Began
  <1>4. n \in 1..Len(r.pending) /\ n \notin 0..Len(h.pending)
        /\ \A j \in 1..Len(r.pending) : j # n => j \in 1..Len(h.pending)
    BY DEF Began
  <1>5. r.sessions[e.object] = n /\ \A z \in 1..Len(r.sessions) : r.sessions[z] = n => z = e.object
    <2>1. r.sessions[e.object] = n
      BY DEF Began
    <2> HIDE DEF n
    <2>2. \A z \in 1..Len(h.sessions) : h.sessions[z] # n
      BY <1>4 DEF FtpShape
    <2> QED BY <2>1, <2>2 DEF Began
  <1> HIDE DEF entry, n
  <1>6. /\ entry \in EntriesOf(r.pendingList)
        /\ KeysBefore(r.pendingList, entry.key) = {}
    <2>1. /\ entry \in EntriesOf(r.pendingList)
          /\ KeysBefore(r.pendingList, entry.key) \subseteq KeysBefore(PutFirst(h.pendingList, entry), entry.key)
      BY <1>1, <1>3, AddBoundedKeeps, PoolSizesAssumption
    <2>2. KeysBefore(PutFirst(h.pendingList, entry), entry.key) = {}
      BY <1>3, PutFacts
    <2> QED BY <2>1, <2>2
  <1>7. \A j \in 1..Len(r.pending) : j # n =>
           /\ Ftp!Key(r.pending[j]) # Ftp!Key1(t)
           /\ r.pending[j].toClient # -1 => r.pending[j].file # t
    BY <1>4 DEF Began
  <1>8. /\ r.pending[n].established <=> "connect" \in {"announce"}
        /\ r.pending[n].toClient = -1 <=> "command" \notin {"announce"}
    BY <1>2
  <1>9. Ftp!Key(r.pending[n]) = IF "connect" \in {"announce"} THEN Ftp!Key1(t) ELSE Ftp!Key2(t)
    BY <1>2
  <1>10. \E f \in EntriesOf(r.pendingList) : f.object = n
    BY <1>1, <1>6
  <1>11. \A j \in 1..Len(r.assemblers) : r.assemblers[j].file # t
    BY DEF Began
  <1>12. Follows(r, t, n, e, {"announce"})
    BY <1>2, <1>3, <1>4, <1>5, <1>7, <1>8, <1>9, <1>10, <1>11 DEF Follows
  <1> QED BY <1>1, <1>2, <1>6, <1>12 DEF Within, n

LEMMA BeganSettles ==
    ASSUME NEW h, FtpShape(h), NEW w, NEW r, NEW d \in EntriesOf(h.sessionList), d.key = w.session,
           Began(h, r, w, d), NEW t
    PROVE  /\ NotSought(h, t) => NotSought(r, t)
           /\ Idle(h, t) /\ t.session # w.session => Idle(r, t)
           /\ AssemblersOf(r, t) = AssemblersOf(h, t)
  <1>1. r.pending[Len(h.pending) + 1].toClient = -1
    BY DEF Began, IsNew
  <1>2. ASSUME NotSought(h, t), NEW z \in 1..Len(r.sessions), r.sessions[z] # 0,
               r.pending[r.sessions[z]].toClient # -1
        PROVE  r.pending[r.sessions[z]].file # t
    <2>1. z # d.object /\ z \in 1..Len(h.sessions) /\ r.sessions[z] = h.sessions[z]
      BY <1>1, <1>2 DEF Began
    <2>2. h.sessions[z] \in 0..Len(h.pending) /\ h.sessions[z] # 0 /\ Len(h.pending) \in Nat
      BY <1>2, <2>1 DEF FtpShape, Began
    <2>3. h.sessions[z] \in 1..Len(h.pending)
      BY <2>2
    <2>4. r.pending[h.sessions[z]] = h.pending[h.sessions[z]]
      BY <2>3 DEF Began
    <2> QED BY <1>2, <2>1, <2>2, <2>4 DEF NotSought
  <1>3. ASSUME Idle(h, t), t.session # w.session, NEW e \in EntriesOf(r.sessionList), e.key = t.session
        PROVE  r.sessions[e.object] = 0
    <2>1. e \in EntriesOf(h.sessionList) /\ h.sessions[e.object] = 0
      BY <1>3 DEF Idle, Began
    <2>2. e.object # d.object /\ e.object \in 1..Len(h.sessions)
      BY <1>3, <2>1 DEF FtpShape, FtpListed
    <2> QED BY <2>1, <2>2 DEF Began
  <1>4. AssemblersOf(r, t) = AssemblersOf(h, t)
    BY DEF AssemblersOf, Began
  <1> QED BY <1>2, <1>3, <1>4 DEF NotSought, Idle

\* A pending transfer that was given this transfer's file.
Given(p, old, w) ==
    /\ p.file = w /\ p.toClient # -1 /\ p.clientPort = old.clientPort /\ p.session = old.session
    /\ p.established = old.established /\ Ftp!Key(p) = Ftp!Key(old)

\* The state after a command in this session.
Told(h, r, w, e) ==
    /\ r.sessionList = h.sessionList /\ r.sessions = h.sessions /\ r.assemblers = h.assemblers
    /\ r.pendingList = h.pendingList /\ Len(r.pending) = Len(h.pending)
    /\ Ftp!IsFile(w) \/ \A j \in 1..Len(h.pending) : r.pending[j] = h.pending[j]
    /\ \A j \in 1..Len(h.pending) : IF h.sessions[e.object] = j
                                    THEN Ftp!IsFile(w) => Given(r.pending[j], h.pending[j], w)
                                    ELSE r.pending[j] = h.pending[j]

\* One pending transfer changes, and neither its session nor any list.
LEMMA ShapeChanged ==
    ASSUME NEW h, FtpShape(h), NEW r, DOMAIN r = DOMAIN h, r.sessionList = h.sessionList,
           r.sessions = h.sessions, r.assemblers = h.assemblers, NEW j \in 1..Len(h.pending), NEW new,
           r.pending = [h.pending EXCEPT ![j] = new], DOMAIN new = DOMAIN h.pending[j],
           new.session = h.pending[j].session, FtpListed(r)
    PROVE  FtpShape(r)
  <1>1. PICK C : h.pending \in Seq(C)
    BY DEF FtpShape
  <1>2. /\ r.pending \in Seq(C \cup {new}) /\ Len(r.pending) = Len(h.pending)
        /\ r.pending[j] = new /\ \A i \in 1..Len(h.pending) : i # j => r.pending[i] = h.pending[i]
    <2>1. h.pending \in Seq(C \cup {new}) /\ new \in C \cup {new}
      BY <1>1, SeqWider
    <2> QED BY <2>1
  <1>3. \A i \in 1..Len(h.pending) :
           DOMAIN r.pending[i] = DOMAIN h.pending[i] /\ r.pending[i].session = h.pending[i].session
    BY <1>2
  <1>4. \E E : r.pending \in Seq(E)
    BY <1>2
  <1> QED BY <1>2, <1>3, <1>4 DEF FtpShape

LEMMA Tells ==
    ASSUME NEW h, FtpShape(h), NEW t, NEW e \in EntriesOf(h.sessionList),
           Ftp!SessionOf(h, t) = e.object
    PROVE  Told(h, Ftp!Commanded(h, t), t, e) /\ FtpShape(Ftp!Commanded(h, t))
  <1> DEFINE r == Ftp!Commanded(h, t)
             j == h.sessions[e.object]
  <1>0. e.object \in 1..Len(h.sessions) /\ j \in 0..Len(h.pending) /\ Len(h.pending) \in Nat
    BY DEF FtpShape, FtpListed
  <1>1. CASE ~Ftp!IsFile(t) \/ j = 0
    <2>1. r = h
      BY <1>1 DEF Ftp!Commanded, Ftp!IsFile
    <2>2. Ftp!IsFile(t) => \A k \in 1..Len(h.pending) : j # k
      BY <1>1
    <2> HIDE DEF r, j
    <2>3. Told(h, r, t, e)
      <3>1. \A k \in 1..Len(h.pending) : IF h.sessions[e.object] = k
                                         THEN Ftp!IsFile(t) => Given(r.pending[k], h.pending[k], t)
                                         ELSE r.pending[k] = h.pending[k]
        BY <2>1, <2>2 DEF j
      <3> QED BY <2>1, <3>1 DEF Told
    <2> QED BY <2>1, <2>3 DEF r
  <1>2. CASE Ftp!IsFile(t) /\ j # 0
    <2> DEFINE old == h.pending[j]
               direction == Ftp!Direction(old, t.command)
               new == [[old EXCEPT !.file = t] EXCEPT !.toClient = direction]
    <2>1. r = [h EXCEPT !.pending[j].file = t, !.pending[j].toClient = direction]
      BY <1>2 DEF Ftp!Commanded, Ftp!IsFile
    <2>2. j \in 1..Len(h.pending)
      BY <1>0, <1>2
    <2>3. DOMAIN old = {"client", "clientPort", "server", "serverPort", "passive",
                        "toClient", "established", "session", "file"}
      BY <2>2 DEF FtpShape
    <2>4. direction # -1
      BY DEF Ftp!Direction
    <2> HIDE DEF j
    <2>5. r.pending = [h.pending EXCEPT ![j] = new]
      <3>1. /\ j \in DOMAIN h.pending
            /\ DOMAIN h = {"sessionList", "pendingList", "sessions", "pending", "assemblers"}
        BY <2>2 DEF FtpShape
      <3> HIDE DEF direction
      <3>2. r.pending = [[h.pending EXCEPT ![j].file = t] EXCEPT ![j].toClient = direction]
        BY <2>1, <3>1
      <3> QED BY <3>1, <3>2
    <2>6. /\ DOMAIN r = DOMAIN h /\ r.sessionList = h.sessionList /\ r.sessions = h.sessions
          /\ r.assemblers = h.assemblers /\ r.pendingList = h.pendingList
      BY <2>1 DEF FtpShape
    <2> HIDE DEF r, direction, old
    <2>7. /\ DOMAIN new = DOMAIN old /\ new.file = t /\ new.toClient = direction
          /\ new.client = old.client /\ new.clientPort = old.clientPort /\ new.server = old.server
          /\ new.serverPort = old.serverPort /\ new.session = old.session
          /\ new.established = old.established
      BY <2>3
    <2> HIDE DEF new
    <2>8. Given(new, old, t) /\ Ftp!Key(new) = Ftp!Key(old)
      BY <2>4, <2>7 DEF Given, Ftp!Key
    <2>9. PICK C : h.pending \in Seq(C)
      BY DEF FtpShape
    <2>10. /\ Len(r.pending) = Len(h.pending)
           /\ r.pending[j] = new /\ \A i \in 1..Len(h.pending) : i # j => r.pending[i] = h.pending[i]
      <3>1. h.pending \in Seq(C \cup {new}) /\ new \in C \cup {new}
        BY <2>9, SeqWider
      <3> QED BY <2>2, <2>5, <3>1
    <2>11. FtpListed(r)
      <3>1. \A x \in EntriesOf(h.pendingList) :
               x.object \in 1..Len(h.pending) /\ x.key = Ftp!Key(r.pending[x.object])
        BY <2>8, <2>10 DEF FtpShape, FtpListed, old
      <3> QED BY <2>6, <2>10, <3>1 DEF FtpShape, FtpListed
    <2>12. FtpShape(r)
      BY <2>2, <2>5, <2>6, <2>7, <2>11, ShapeChanged DEF old
    <2>13. Told(h, r, t, e)
      <3>1. \A k \in 1..Len(h.pending) : IF j = k
                                         THEN Ftp!IsFile(t) => Given(r.pending[k], h.pending[k], t)
                                         ELSE r.pending[k] = h.pending[k]
        BY <2>8, <2>10 DEF old
      <3> QED BY <1>2, <2>6, <2>10, <3>1 DEF Told, j
    <2> QED BY <2>12, <2>13 DEF r
  <1> QED BY <1>1, <1>2

LEMMA ToldKnown ==
    ASSUME NEW h, NEW sh, FtpKnown(h, sh), NEW r, NEW t \in Begun(sh), NEW e, Told(h, r, t, e)
    PROVE  FtpKnown(r, sh)
  <1>1. ASSUME NEW i \in 1..Len(h.pending)
        PROVE  /\ r.pending[i].clientPort # -1 =>
                    \E w \in ftpTransfers : "connect" \in sh[w] /\ Ftp!Key(r.pending[i]) = Ftp!Key1(w)
               /\ r.pending[i].toClient # -1 => r.pending[i].file \in Begun(sh)
    <2>1. CASE r.pending[i] = h.pending[i]
      BY <2>1 DEF FtpKnown
    <2>2. CASE Given(r.pending[i], h.pending[i], t)
      BY <2>2 DEF FtpKnown, Given
    <2> QED BY <2>1, <2>2 DEF Told
  <1> QED BY <1>1 DEF FtpKnown, Told

\* A command in another session leaves a transfer alone.
LEMMA ToldKeeps ==
    ASSUME NEW h, FtpShape(h), NEW w, NEW d \in EntriesOf(h.sessionList), d.key = w.session,
           NEW r, Told(h, r, w, d), NEW t, t.session # w.session,
           NEW i, NEW e, NEW sent, Follows(h, t, i, e, sent)
    PROVE  Follows(r, t, i, e, sent) /\ r.pending[i] = h.pending[i]
  <1>1. d.object \in 1..Len(h.sessions) /\ i \in 1..Len(h.pending) /\ d.object # e.object
    BY DEF Follows, FtpShape, FtpListed
  <1>2. h.sessions[d.object] # i
    BY <1>1 DEF Follows
  <1>3. r.pending[i] = h.pending[i]
    BY <1>1, <1>2 DEF Told
  <1>4. ASSUME NEW j \in 1..Len(h.pending), j # i
        PROVE  /\ Ftp!Key(r.pending[j]) # Ftp!Key1(t)
               /\ r.pending[j].toClient # -1 => r.pending[j].file # t
    <2>1. CASE r.pending[j] = h.pending[j]
      BY <1>4, <2>1 DEF Follows
    <2>2. CASE Given(r.pending[j], h.pending[j], w)
      <3>1. w # t
        OBVIOUS
      <3> QED BY <1>4, <2>2, <3>1 DEF Follows, Given
    <2> QED BY <2>1, <2>2 DEF Told
  <1> QED BY <1>1, <1>3, <1>4 DEF Follows, Told

\* Its own command.
LEMMA ToldFollows ==
    ASSUME NEW h, FtpShape(h), NEW t, Ftp!IsFile(t), NEW d \in EntriesOf(h.sessionList),
           d.key = t.session, NEW r, Told(h, r, t, d),
           NEW i, NEW e, NEW sent, Follows(h, t, i, e, sent)
    PROVE  /\ d = e /\ Follows(r, t, i, e, sent \cup {"command"})
           /\ Ftp!Key(r.pending[i]) = Ftp!Key(h.pending[i])
  <1>1. d = e
    BY SameEntry DEF Follows, FtpShape, FtpListed
  <1>2. /\ Given(r.pending[i], h.pending[i], t)
        /\ \A j \in 1..Len(h.pending) : j # i => r.pending[j] = h.pending[j]
    BY <1>1 DEF Told, Follows
  <1>3. /\ r.pending[i].established <=> "connect" \in sent \cup {"command"}
        /\ "command" \in sent \cup {"command"}
        /\ "connect" \in sent \cup {"command"} <=> "connect" \in sent
    BY <1>2 DEF Given, Follows
  <1>4. /\ r.pending[i].toClient # -1 /\ r.pending[i].file = t
        /\ r.pending[i].session = h.pending[i].session /\ Ftp!Key(r.pending[i]) = Ftp!Key(h.pending[i])
    BY <1>2 DEF Given
  <1>5. Ftp!Key(r.pending[i]) = IF "connect" \in sent \cup {"command"} THEN Ftp!Key1(t) ELSE Ftp!Key2(t)
    BY <1>3, <1>4 DEF Follows
  <1>6. Follows(r, t, i, e, sent \cup {"command"})
    BY <1>2, <1>3, <1>4, <1>5 DEF Follows, Told
  <1> QED BY <1>1, <1>4, <1>6

LEMMA ToldSettles ==
    ASSUME NEW h, FtpShape(h), NEW w, NEW d \in EntriesOf(h.sessionList), d.key = w.session,
           NEW r, Told(h, r, w, d), NEW t, t = w => Idle(h, t)
    PROVE  /\ NotSought(h, t) => NotSought(r, t)
           /\ Idle(h, t) => Idle(r, t)
           /\ AssemblersOf(r, t) = AssemblersOf(h, t)
  <1>1. ASSUME NotSought(h, t), NEW z \in 1..Len(r.sessions), r.sessions[z] # 0,
               r.pending[r.sessions[z]].toClient # -1
        PROVE  r.pending[r.sessions[z]].file # t
    <2>1. h.sessions[z] \in 0..Len(h.pending) /\ h.sessions[z] # 0 /\ Len(h.pending) \in Nat
          /\ r.sessions = h.sessions
      BY <1>1 DEF FtpShape, Told
    <2>2. PICK k \in 1..Len(h.pending) : k = h.sessions[z]
      BY <2>1
    <2>3. CASE r.pending[k] = h.pending[k]
      BY <1>1, <2>1, <2>2, <2>3 DEF NotSought, Told
    <2>4. CASE h.sessions[d.object] = k /\ Given(r.pending[k], h.pending[k], w)
      <3>1. w # t
        <4>1. Idle(h, w) => h.sessions[d.object] = 0
          BY DEF Idle
        <4> QED BY <2>1, <2>2, <2>4, <4>1
      <3> QED BY <2>1, <2>2, <2>4, <3>1 DEF Given
    <2> QED BY <2>3, <2>4 DEF Told
  <1>2. Idle(h, t) => Idle(r, t)
    BY DEF Idle, Told
  <1>3. AssemblersOf(r, t) = AssemblersOf(h, t)
    BY DEF AssemblersOf, Told
  <1> QED BY <1>1, <1>2, <1>3 DEF NotSought

\* A pending transfer whose connection, with this transfer's ports, was seen.
IsLinked(p, old, w) ==
    /\ p.toClient = old.toClient /\ p.file = old.file /\ p.session = old.session
    /\ p.established /\ Ftp!Key(p) = Ftp!Key1(w)

\* The list has the connection in front, or its listener in the connection's place.
Linking(h, r, w, j) ==
    \/ \E f \in EntriesOf(h.pendingList) :
          f.key = Ftp!Key1(w) /\ f.object = j /\ r.pendingList = PutFirst(h.pendingList, f)
    \/ /\ Ftp!Key1(w) \notin KeysOf(h.pendingList)
       /\ \E f \in EntriesOf(h.pendingList) : f.key = Ftp!Key2(w) /\ f.object = j
       /\ r.pendingList = AddBounded(WithoutKey(h.pendingList, Ftp!Key2(w)),
                                     [key |-> Ftp!Key1(w), object |-> j], FtpPendingPoolSize)

\* The state after a handshake: j is the pending transfer found.
Linked(h, r, w, j) ==
    /\ DOMAIN r = DOMAIN h /\ r.sessionList = h.sessionList /\ r.sessions = h.sessions
    /\ r.assemblers = h.assemblers /\ Len(r.pending) = Len(h.pending) /\ j \in 1..Len(h.pending)
    /\ \A k \in 1..Len(h.pending) : k # j => r.pending[k] = h.pending[k]
    /\ IsLinked(r.pending[j], h.pending[j], w)
    /\ Linking(h, r, w, j)
    /\ Ftp!SessionConnected(r, w) = r.pending[j].session

LEMMA LinkedSession ==
    ASSUME NEW r, FtpListed(r), NEW w, NEW j,
           \E f \in EntriesOf(r.pendingList) : f.key = Ftp!Key1(w) /\ f.object = j
    PROVE  Ftp!SessionConnected(r, w) = r.pending[j].session
  <1>1. PICK f \in EntriesOf(r.pendingList) : f.key = Ftp!Key1(w) /\ f.object = j
    OBVIOUS
  <1>2. Ftp!Key1(w) \in KeysOf(r.pendingList)
    BY <1>1, KeysOfEntries
  <1> DEFINE g == r.pendingList[Position(r.pendingList, Ftp!Key1(w))]
  <1>3. g \in EntriesOf(r.pendingList) /\ g.key = Ftp!Key1(w)
    BY <1>2, EntryFound DEF FtpListed
  <1>4. Ftp!SessionConnected(r, w) = r.pending[g.object].session
    BY <1>2, FtpLists DEF Ftp!SessionConnected
  <1> HIDE DEF g
  <1>5. g = f
    BY <1>1, <1>3, SameEntry DEF FtpListed
  <1> QED BY <1>1, <1>4, <1>5

LEMMA Links ==
    ASSUME ftpTransfers \in FtpCaptures, NEW h, FtpShape(h), NEW t \in ftpTransfers
    PROVE  LET r == Ftp!Connected(h, t)
           IN  /\ FtpShape(r)
               /\ \/ \E j : Linked(h, r, t, j)
                  \/ r = h /\ Ftp!SessionConnected(r, t) = 0
                     /\ Ftp!Key1(t) \notin KeysOf(h.pendingList)
                     /\ Ftp!Key2(t) \notin KeysOf(h.pendingList)
  <1> DEFINE r == Ftp!Connected(h, t)
  <1>0. /\ DOMAIN h = {"sessionList", "pendingList", "sessions", "pending", "assemblers"}
        /\ IsList(h.pendingList) /\ FtpListed(h)
    BY DEF FtpShape, FtpListed
  <1>1. CASE Ftp!Key1(t) \in KeysOf(h.pendingList)
    <2> DEFINE e == h.pendingList[Position(h.pendingList, Ftp!Key1(t))]
               j == e.object
               q == Touch(h.pendingList, Ftp!Key1(t))
               old == h.pending[j]
               new == [old EXCEPT !.established = TRUE]
    <2>1. r = [h EXCEPT !.pendingList = q, !.pending[j].established = TRUE]
      BY <1>1, FtpLists DEF Ftp!Connected
    <2>2. /\ e \in EntriesOf(h.pendingList) /\ e.key = Ftp!Key1(t)
          /\ q = PutFirst(h.pendingList, e)
      BY <1>0, <1>1, EntryFound, TouchedPut
    <2> HIDE DEF e
    <2>3. j \in 1..Len(h.pending) /\ Ftp!Key(old) = Ftp!Key1(t)
      BY <1>0, <2>2 DEF FtpListed
    <2>4. DOMAIN old = {"client", "clientPort", "server", "serverPort", "passive",
                        "toClient", "established", "session", "file"}
      BY <2>3 DEF FtpShape
    <2>5. IsList(q) /\ EntriesOf(q) = {x \in EntriesOf(h.pendingList) : x.key # e.key} \cup {e}
      BY <1>0, <2>2, PutFacts
    <2> HIDE DEF q, r
    <2>6. /\ DOMAIN r = DOMAIN h /\ r.sessionList = h.sessionList /\ r.sessions = h.sessions
          /\ r.assemblers = h.assemblers /\ r.pendingList = q
          /\ r.pending = [h.pending EXCEPT ![j] = new]
      BY <1>0, <2>1
    <2>7. j = e.object
      OBVIOUS
    <2> HIDE DEF j, old
    <2>8. /\ DOMAIN new = DOMAIN old /\ new.file = old.file /\ new.toClient = old.toClient
          /\ new.client = old.client /\ new.clientPort = old.clientPort /\ new.server = old.server
          /\ new.serverPort = old.serverPort /\ new.session = old.session /\ new.established
      BY <2>4
    <2> HIDE DEF new
    <2>9. Ftp!Key(new) = Ftp!Key1(t)
      <3>1. Ftp!Key(new) = Ftp!Key(old)
        BY <2>8 DEF Ftp!Key
      <3> QED BY <2>3, <3>1
    <2>10. PICK C : h.pending \in Seq(C)
      BY DEF FtpShape
    <2>11. /\ Len(r.pending) = Len(h.pending)
           /\ r.pending[j] = new /\ \A i \in 1..Len(h.pending) : i # j => r.pending[i] = h.pending[i]
      <3>1. h.pending \in Seq(C \cup {new}) /\ new \in C \cup {new}
        BY <2>10, SeqWider
      <3> QED BY <2>3, <2>6, <3>1
    <2>12. FtpListed(r)
      <3>1. \A x \in EntriesOf(q) : x \in EntriesOf(h.pendingList)
        BY <2>2, <2>5
      <3>2. \A x \in EntriesOf(q) :
               x.object \in 1..Len(h.pending) /\ x.key = Ftp!Key(r.pending[x.object])
        BY <1>0, <2>3, <2>9, <2>11, <3>1 DEF FtpListed, old
      <3> QED BY <1>0, <2>5, <2>6, <2>11, <3>2 DEF FtpListed
    <2>13. FtpShape(r)
      BY <2>3, <2>6, <2>8, <2>12, ShapeChanged DEF old
    <2>14. Ftp!SessionConnected(r, t) = r.pending[j].session
      <3>1. e \in EntriesOf(r.pendingList) /\ e.key = Ftp!Key1(t) /\ e.object = j
        BY <2>2, <2>5, <2>6, <2>7
      <3>2. \E f \in EntriesOf(r.pendingList) : f.key = Ftp!Key1(t) /\ f.object = j
        BY <3>1
      <3> QED BY <2>12, <3>2, LinkedSession
    <2>15. IsLinked(r.pending[j], h.pending[j], t)
      BY <2>8, <2>9, <2>11 DEF IsLinked, old
    <2>16. Linking(h, r, t, j)
      BY <2>2, <2>6, <2>7 DEF Linking
    <2>17. Linked(h, r, t, j)
      BY <2>3, <2>6, <2>11, <2>14, <2>15, <2>16 DEF Linked
    <2> QED BY <2>13, <2>17 DEF r
  <1>2. CASE Ftp!Key1(t) \notin KeysOf(h.pendingList) /\ Ftp!Key2(t) \in KeysOf(h.pendingList)
    <2> DEFINE e == h.pendingList[Position(h.pendingList, Ftp!Key2(t))]
               j == e.object
               old == h.pending[j]
               new == [[old EXCEPT !.clientPort = t.connector] EXCEPT !.established = TRUE]
               shorter == WithoutKey(h.pendingList, Ftp!Key2(t))
               entry == [key |-> Ftp!Key1(t), object |-> j]
               q == AddBounded(shorter, entry, FtpPendingPoolSize)
    <2>1. r = [h EXCEPT !.pending[j].clientPort = t.connector, !.pending[j].established = TRUE,
                        !.pendingList = q]
      BY <1>2, FtpLists DEF Ftp!Connected, Ftp!Rekeyed
    <2>2. e \in EntriesOf(h.pendingList) /\ e.key = Ftp!Key2(t)
      BY <1>0, <1>2, EntryFound
    <2> HIDE DEF e
    <2>3. j \in 1..Len(h.pending) /\ Ftp!Key(old) = Ftp!Key2(t)
      BY <1>0, <2>2 DEF FtpListed
    <2>4. DOMAIN old = {"client", "clientPort", "server", "serverPort", "passive",
                        "toClient", "established", "session", "file"}
      BY <2>3 DEF FtpShape
    <2>5. entry.key = Ftp!Key1(t) /\ entry.object = j /\ j = e.object
      OBVIOUS
    <2>6. r.pendingList = q /\ q = AddBounded(shorter, [key |-> Ftp!Key1(t), object |-> j], FtpPendingPoolSize)
      BY <1>0, <2>1
    <2> HIDE DEF entry
    <2>7. IsList(shorter) /\ EntriesOf(shorter) = {x \in EntriesOf(h.pendingList) : x.key # Ftp!Key2(t)}
      BY <1>0, EntryErasedFacts
    <2>8. shorter = WithoutKey(h.pendingList, Ftp!Key2(t))
      OBVIOUS
    <2> HIDE DEF shorter
    <2>9. /\ IsList(q) /\ entry \in EntriesOf(q)
          /\ EntriesOf(q) \subseteq {x \in EntriesOf(shorter) : x.key # entry.key} \cup {entry}
      BY <2>7, EntryInFront, PoolSizesAssumption
    <2> HIDE DEF j, q, r
    <2>10. r.pending = [h.pending EXCEPT ![j] = new]
      <3>1. j \in DOMAIN h.pending
        BY <2>3 DEF FtpShape
      <3>2. r.pending = [[h.pending EXCEPT ![j].clientPort = t.connector] EXCEPT ![j].established = TRUE]
        BY <1>0, <2>1
      <3> QED BY <3>1, <3>2
    <2>11. /\ DOMAIN r = DOMAIN h /\ r.sessionList = h.sessionList /\ r.sessions = h.sessions
           /\ r.assemblers = h.assemblers
      BY <1>0, <2>1
    <2> HIDE DEF old
    <2>12. /\ DOMAIN new = DOMAIN old /\ new.file = old.file /\ new.toClient = old.toClient
           /\ new.client = old.client /\ new.clientPort = t.connector /\ new.server = old.server
           /\ new.serverPort = old.serverPort /\ new.session = old.session /\ new.established
      BY <2>4
    <2> HIDE DEF new
    <2>13. Ftp!Key(new) = Ftp!Key1(t)
      BY <2>3, <2>12 DEF Ftp!Key, Ftp!Key1, Ftp!Key2, Ftp!DataConnection, Ftp!NewPending
    <2>14. PICK C : h.pending \in Seq(C)
      BY DEF FtpShape
    <2>15. /\ Len(r.pending) = Len(h.pending)
           /\ r.pending[j] = new /\ \A i \in 1..Len(h.pending) : i # j => r.pending[i] = h.pending[i]
      <3>1. h.pending \in Seq(C \cup {new}) /\ new \in C \cup {new}
        BY <2>14, SeqWider
      <3> QED BY <2>3, <2>10, <3>1
    <2>16. FtpListed(r)
      <3>1. ASSUME NEW x \in EntriesOf(q)
            PROVE  x.object \in 1..Len(h.pending) /\ x.key = Ftp!Key(r.pending[x.object])
        <4>1. CASE x = entry
          BY <2>3, <2>5, <2>13, <2>15, <4>1
        <4>2. CASE x # entry
          <5>1. x \in EntriesOf(h.pendingList) /\ x.key # Ftp!Key2(t)
            BY <2>7, <2>9, <4>2
          <5>2. x.object \in 1..Len(h.pending) /\ x.key = Ftp!Key(h.pending[x.object])
            BY <1>0, <5>1 DEF FtpListed
          <5>3. x.object # j
            BY <2>3, <5>1, <5>2 DEF old
          <5> QED BY <2>15, <5>2, <5>3
        <4> QED BY <4>1, <4>2
      <3> QED BY <1>0, <2>6, <2>9, <2>11, <2>15, <3>1 DEF FtpListed
    <2>17. FtpShape(r)
      BY <2>3, <2>10, <2>11, <2>12, <2>16, ShapeChanged DEF old
    <2>18. Ftp!SessionConnected(r, t) = r.pending[j].session
      BY <2>5, <2>6, <2>9, <2>16, LinkedSession
    <2>19. IsLinked(r.pending[j], h.pending[j], t)
      BY <2>12, <2>13, <2>15 DEF IsLinked, old
    <2>20. Linking(h, r, t, j)
      BY <1>2, <2>2, <2>5, <2>6, <2>8 DEF Linking
    <2>21. Linked(h, r, t, j)
      BY <2>3, <2>11, <2>15, <2>18, <2>19, <2>20 DEF Linked
    <2> QED BY <2>17, <2>21 DEF r
  <1>3. CASE Ftp!Key1(t) \notin KeysOf(h.pendingList) /\ Ftp!Key2(t) \notin KeysOf(h.pendingList)
    <2>1. r = h
      BY <1>3, FtpLists DEF Ftp!Connected
    <2>2. Ftp!SessionConnected(h, t) = 0
      BY <1>3, FtpLists DEF Ftp!SessionConnected
    <2> QED BY <1>3, <2>1, <2>2
  <1> QED BY <1>1, <1>2, <1>3

LEMMA LinkedKnown ==
    ASSUME NEW h, NEW sh, FtpKnown(h, sh), NEW r, NEW t \in ftpTransfers, "connect" \in sh[t],
           NEW j, Linked(h, r, t, j)
    PROVE  FtpKnown(r, sh)
  <1>1. ASSUME NEW i \in 1..Len(h.pending)
        PROVE  /\ r.pending[i].clientPort # -1 =>
                    \E w \in ftpTransfers : "connect" \in sh[w] /\ Ftp!Key(r.pending[i]) = Ftp!Key1(w)
               /\ r.pending[i].toClient # -1 => r.pending[i].file \in Begun(sh)
    <2>1. CASE i # j
      BY <2>1 DEF FtpKnown, Linked
    <2>2. CASE i = j
      BY <2>2 DEF FtpKnown, IsLinked, Linked
    <2> QED BY <2>1, <2>2
  <1> QED BY <1>1 DEF FtpKnown, Linked

LEMMA LinkedSettles ==
    ASSUME NEW h, FtpShape(h), NEW r, NEW w, NEW j, Linked(h, r, w, j), NEW t
    PROVE  /\ NotSought(h, t) => NotSought(r, t)
           /\ Idle(h, t) => Idle(r, t)
           /\ AssemblersOf(r, t) = AssemblersOf(h, t)
  <1>1. \A k \in 1..Len(h.pending) :
           r.pending[k].toClient = h.pending[k].toClient /\ r.pending[k].file = h.pending[k].file
    BY DEF Linked, IsLinked
  <1>2. ASSUME NotSought(h, t), NEW z \in 1..Len(r.sessions), r.sessions[z] # 0,
               r.pending[r.sessions[z]].toClient # -1
        PROVE  r.pending[r.sessions[z]].file # t
    <2>1. h.sessions[z] \in 0..Len(h.pending) /\ h.sessions[z] # 0 /\ Len(h.pending) \in Nat
          /\ r.sessions = h.sessions
      BY <1>2 DEF FtpShape, Linked
    <2>2. PICK k \in 1..Len(h.pending) : k = h.sessions[z]
      BY <2>1
    <2> QED BY <1>1, <1>2, <2>1, <2>2 DEF NotSought
  <1>3. Idle(h, t) => Idle(r, t)
    BY DEF Idle, Linked
  <1>4. AssemblersOf(r, t) = AssemblersOf(h, t)
    BY DEF AssemblersOf, Linked
  <1> QED BY <1>2, <1>3, <1>4 DEF NotSought

\* The handshake of another listener's transfer leaves this one alone, unless the
\* list has no room.
LEMMA LinkedKeeps ==
    ASSUME ftpTransfers \in FtpCaptures, NEW h, FtpShape(h), NEW w \in ftpTransfers, NEW r, NEW j,
           Linked(h, r, w, j), FtpShape(r), NEW t \in ftpTransfers, Ftp!Key2(w) # Ftp!Key2(t),
           NEW i, NEW e, NEW sent, Follows(h, t, i, e, sent),
           NEW N \in SUBSET ftpTransfers, IsFiniteSet(N), w \in N,
           Within(h.pendingList, Ftp!Key(h.pending[i]), N), Ftp!Entries(N) < FtpPendingPoolSize
    PROVE  Follows(r, t, i, e, sent) /\ Within(r.pendingList, Ftp!Key(r.pending[i]), N)
  <1> DEFINE y == Ftp!Key(h.pending[i])
             q == h.pendingList
  <1>0. IsList(q) /\ FtpListed(h) /\ i \in 1..Len(h.pending) /\ j \in 1..Len(h.pending)
    BY DEF FtpShape, FtpListed, Follows, Linked
  <1>1. y \in {Ftp!Key1(t), Ftp!Key2(t)}
    BY DEF Follows
  <1>2. y # Ftp!Key1(w) /\ y # Ftp!Key2(w) /\ Ftp!Key1(t) # Ftp!Key1(w) /\ Ftp!Key1(t) # Ftp!Key2(w)
    BY <1>1, KeysApart
  <1>3. \A x : KeysOf(x) = {k.key : k \in EntriesOf(x)}
    BY DEF KeysOf, EntriesOf
  <1>4. PICK g \in EntriesOf(q) : g.object = i /\ g.key = y
    BY <1>0 DEF Follows, FtpListed
  <1>5. j # i
    <2>1. Ftp!Key(h.pending[j]) \in {Ftp!Key1(w), Ftp!Key2(w)}
      BY <1>0 DEF Linked, Linking, FtpListed
    <2> QED BY <1>2, <2>1
  <1>6. r.pending[i] = h.pending[i]
    BY <1>0, <1>5 DEF Linked
  <1>7. g \in EntriesOf(r.pendingList) /\ Within(r.pendingList, y, N)
    <2>1. ASSUME NEW f \in EntriesOf(q), f.key = Ftp!Key1(w), r.pendingList = PutFirst(q, f)
          PROVE  g \in EntriesOf(r.pendingList) /\ Within(r.pendingList, y, N)
      <3> DEFINE p == PutFirst(q, f)
      <3>1. /\ EntriesOf(p) = {x \in EntriesOf(q) : x.key # f.key} \cup {f}
            /\ KeysBefore(p, y) \subseteq KeysBefore(q, y) \cup {f.key}
        BY <1>0, PutFacts
      <3> HIDE DEF p
      <3>2. g \in EntriesOf(p)
        BY <1>2, <1>4, <2>1, <3>1
      <3>3. KeysOf(p) \subseteq KeysOf(q)
        BY <1>3, <3>1
      <3>4. ASSUME NEW x \in KeysBefore(p, y) PROVE DueTo(x, KeysOf(p), N)
        <4>1. CASE x = Ftp!Key1(w)
          BY <4>1 DEF DueTo
        <4>2. CASE x # Ftp!Key1(w)
          <5>1. DueTo(x, KeysOf(q), N)
            BY <2>1, <3>1, <4>2 DEF Within
          <5> QED BY <3>3, <5>1 DEF DueTo
        <4> QED BY <4>1, <4>2
      <3> QED BY <2>1, <3>2, <3>4 DEF Within, p
    <2>2. ASSUME NEW entry, entry.key = Ftp!Key1(w),
                 r.pendingList = AddBounded(WithoutKey(q, Ftp!Key2(w)), entry, FtpPendingPoolSize)
          PROVE  g \in EntriesOf(r.pendingList) /\ Within(r.pendingList, y, N)
      <3> DEFINE s == WithoutKey(q, Ftp!Key2(w))
                 p == PutFirst(s, entry)
      <3>1. /\ IsList(s) /\ EntriesOf(s) = {x \in EntriesOf(q) : x.key # Ftp!Key2(w)}
            /\ KeysBefore(s, y) \subseteq KeysBefore(q, y)
        BY <1>0, EntryErasedFacts
      <3> HIDE DEF s
      <3>2. /\ EntriesOf(p) = {x \in EntriesOf(s) : x.key # entry.key} \cup {entry}
            /\ KeysBefore(p, y) \subseteq KeysBefore(s, y) \cup {entry.key}
        BY <3>1, PutFacts
      <3> HIDE DEF p
      <3>3. g \in EntriesOf(s)
        BY <1>2, <1>4, <3>1
      <3>4. y \in KeysOf(s)
        BY <1>4, <3>3, KeysOfEntries
      <3>5. KeysOf(p) \subseteq KeysOf(q) \cup {Ftp!Key1(w)}
        BY <1>3, <2>2, <3>1, <3>2
      <3>6. ASSUME NEW x \in KeysBefore(p, y) PROVE DueTo(x, KeysOf(p), N)
        <4>1. CASE x = Ftp!Key1(w)
          BY <4>1 DEF DueTo
        <4>2. CASE x # Ftp!Key1(w)
          <5>1. x \in KeysBefore(q, y) /\ x \in KeysOf(s)
            BY <2>2, <3>1, <3>2, <4>2 DEF KeysBefore
          <5>2. x # Ftp!Key2(w)
            BY <1>3, <3>1, <5>1
          <5>3. PICK v \in N : \/ Ftp!Key1(v) = x
                               \/ Ftp!Key2(v) = x /\ (Ftp!Key1(v) \notin KeysOf(q) \/ Shares(v))
            BY <5>1 DEF Within, DueTo
          <5>4. Ftp!Key2(v) = x => Ftp!Key1(v) # Ftp!Key1(w)
            <6>1. v \in ftpTransfers
              OBVIOUS
            <6> QED BY <5>2, <6>1, KeysApart
          <5> QED BY <3>5, <5>3, <5>4 DEF DueTo
        <4> QED BY <4>1, <4>2
      <3>7. y # entry.key /\ Within(p, y, N)
        BY <1>2, <2>2, <3>6 DEF Within
      <3>8. y \in KeysOf(r.pendingList) /\ Within(r.pendingList, y, N)
        BY <2>2, <3>1, <3>4, <3>7, PlaceKept DEF p, s
      <3>9. EntriesOf(r.pendingList) \subseteq EntriesOf(p)
        BY <2>2, <3>1, AddBoundedKeeps, PoolSizesAssumption DEF p, s
      <3>10. PICK f \in EntriesOf(r.pendingList) : f.key = y
        BY <1>3, <3>8
      <3>11. f \in EntriesOf(q)
        BY <3>1, <3>2, <3>7, <3>9, <3>10
      <3>12. f = g
        BY <1>0, <1>4, <3>10, <3>11, SameEntry
      <3> QED BY <3>8, <3>10, <3>12
    <2>3. Linking(h, r, w, j)
      BY DEF Linked
    <2>4. CASE \E f \in EntriesOf(q) : f.key = Ftp!Key1(w) /\ f.object = j /\ r.pendingList = PutFirst(q, f)
      BY <2>1, <2>4
    <2>5. CASE r.pendingList = AddBounded(WithoutKey(q, Ftp!Key2(w)),
                                          [key |-> Ftp!Key1(w), object |-> j], FtpPendingPoolSize)
      <3> DEFINE entry == [key |-> Ftp!Key1(w), object |-> j]
      <3>1. entry.key = Ftp!Key1(w)
        OBVIOUS
      <3> QED BY <2>2, <2>5, <3>1
    <2> QED BY <2>3, <2>4, <2>5 DEF Linking
  <1>8. \A k \in 1..Len(h.pending) : k # i =>
           /\ Ftp!Key(r.pending[k]) # Ftp!Key1(t)
           /\ r.pending[k].toClient # -1 => r.pending[k].file # t
    BY <1>2 DEF Linked, IsLinked, Follows
  <1> HIDE DEF y, q
  <1>9. \E f \in EntriesOf(r.pendingList) : f.object = i
    BY <1>4, <1>7
  <1>10. Follows(r, t, i, e, sent)
    BY <1>6, <1>8, <1>9 DEF Follows, Linked
  <1> QED BY <1>6, <1>7, <1>10 DEF y

\* Its own handshake: it is found, and comes first.
LEMMA LinkedFollows ==
    ASSUME ftpTransfers \in FtpCaptures, NEW h, FtpShape(h), NEW t \in ftpTransfers, NEW r, NEW j,
           Linked(h, r, t, j), FtpShape(r), NEW i, NEW e, NEW sent, Follows(h, t, i, e, sent)
    PROVE  /\ j = i /\ Follows(r, t, i, e, sent \cup {"connect"})
           /\ \A N : Within(r.pendingList, Ftp!Key(r.pending[i]), N)
  <1> DEFINE q == h.pendingList
  <1>0. IsList(q) /\ FtpListed(h) /\ i \in 1..Len(h.pending) /\ j \in 1..Len(h.pending)
    BY DEF FtpShape, FtpListed, Follows, Linked
  <1>1. Ftp!Key1(t) # Ftp!Key2(t)
    BY KeysApart
  <1>2. PICK g \in EntriesOf(q) : g.object = i /\ g.key = Ftp!Key(h.pending[i])
    BY <1>0 DEF Follows, FtpListed
  <1>3. \A f \in EntriesOf(q) : f.key = Ftp!Key1(t) => f.object = i
    <2>1. \A k \in 1..Len(h.pending) : k # i => Ftp!Key(h.pending[k]) # Ftp!Key1(t)
      BY DEF Follows
    <2>2. \A f \in EntriesOf(q) : f.object \in 1..Len(h.pending) /\ f.key = Ftp!Key(h.pending[f.object])
      BY <1>0 DEF FtpListed
    <2> HIDE DEF q
    <2> QED BY <2>1, <2>2
  <1>4. j = i
    <2>1. CASE \E f \in EntriesOf(q) : f.key = Ftp!Key1(t) /\ f.object = j
      BY <1>3, <2>1
    <2>2. CASE /\ Ftp!Key1(t) \notin KeysOf(q)
               /\ \E f \in EntriesOf(q) : f.key = Ftp!Key2(t) /\ f.object = j
      <3>1. PICK f \in EntriesOf(q) : f.key = Ftp!Key2(t) /\ f.object = j
        BY <2>2
      <3>2. g.key # Ftp!Key1(t)
        BY <2>2, KeysOfEntries
      <3>3. g.key = Ftp!Key2(t)
        BY <1>2, <3>2 DEF Follows
      <3>4. f = g
        BY <1>0, <3>1, <3>3, SameEntry
      <3> QED BY <1>2, <3>1, <3>4
    <2> QED BY <2>1, <2>2 DEF Linked, Linking
  <1>5. IsLinked(r.pending[i], h.pending[i], t)
    BY <1>4 DEF Linked
  <1>6. /\ KeysBefore(r.pendingList, Ftp!Key1(t)) = {}
        /\ \E f \in EntriesOf(r.pendingList) : f.object = i
    <2>1. ASSUME NEW f \in EntriesOf(q), f.key = Ftp!Key1(t), f.object = i, r.pendingList = PutFirst(q, f)
          PROVE  f \in EntriesOf(r.pendingList) /\ KeysBefore(r.pendingList, Ftp!Key1(t)) = {}
      <3>1. /\ EntriesOf(PutFirst(q, f)) = {x \in EntriesOf(q) : x.key # f.key} \cup {f}
            /\ KeysBefore(PutFirst(q, f), f.key) = {}
        BY <1>0, PutFacts
      <3> QED BY <2>1, <3>1
    <2>2. ASSUME NEW entry, entry.key = Ftp!Key1(t), entry.object = i,
                 r.pendingList = AddBounded(WithoutKey(q, Ftp!Key2(t)), entry, FtpPendingPoolSize)
          PROVE  entry \in EntriesOf(r.pendingList) /\ KeysBefore(r.pendingList, Ftp!Key1(t)) = {}
      <3> DEFINE s == WithoutKey(q, Ftp!Key2(t))
      <3>1. IsList(s)
        BY <1>0, EntryErasedFacts
      <3> HIDE DEF s
      <3>2. /\ entry \in EntriesOf(AddBounded(s, entry, FtpPendingPoolSize))
            /\ KeysBefore(AddBounded(s, entry, FtpPendingPoolSize), entry.key)
                  \subseteq KeysBefore(PutFirst(s, entry), entry.key)
        BY <3>1, AddBoundedKeeps, PoolSizesAssumption
      <3>3. KeysBefore(PutFirst(s, entry), entry.key) = {}
        BY <3>1, PutFacts
      <3> QED BY <2>2, <3>2, <3>3 DEF s
    <2>3. Linking(h, r, t, i)
      BY <1>4 DEF Linked
    <2>4. CASE \E f \in EntriesOf(q) : f.key = Ftp!Key1(t) /\ f.object = i /\ r.pendingList = PutFirst(q, f)
      BY <2>1, <2>4
    <2>5. CASE r.pendingList = AddBounded(WithoutKey(q, Ftp!Key2(t)),
                                          [key |-> Ftp!Key1(t), object |-> i], FtpPendingPoolSize)
      <3> DEFINE entry == [key |-> Ftp!Key1(t), object |-> i]
      <3>1. entry.key = Ftp!Key1(t) /\ entry.object = i
        OBVIOUS
      <3> QED BY <2>2, <2>5, <3>1
    <2> QED BY <2>3, <2>4, <2>5 DEF Linking
  <1> HIDE DEF q
  <1>7. /\ "connect" \in sent \cup {"connect"}
        /\ "command" \in sent \cup {"connect"} <=> "command" \in sent
    OBVIOUS
  <1>8. /\ r.pending[i].session = e.object /\ r.pending[i].established
        /\ Ftp!Key(r.pending[i]) = Ftp!Key1(t)
        /\ r.pending[i].toClient = -1 <=> "command" \notin sent
        /\ r.pending[i].toClient # -1 => r.pending[i].file = t
    BY <1>5 DEF IsLinked, Follows
  <1>9. \A k \in 1..Len(h.pending) : k # i => r.pending[k] = h.pending[k]
    BY <1>4 DEF Linked
  <1>10. Follows(r, t, i, e, sent \cup {"connect"})
    BY <1>6, <1>7, <1>8, <1>9 DEF Follows, Linked
  <1> QED BY <1>4, <1>6, <1>8, <1>10 DEF Within

\* The state after the session's pending transfer got its assembler.
Ended(h, r, z) ==
    LET j == h.sessions[z]
        n == Len(h.assemblers) + 1
    IN  /\ z \in 1..Len(h.sessions) /\ j \in 1..Len(h.pending) /\ Ftp!Ready(h.pending[j])
        /\ DOMAIN r = DOMAIN h /\ r.sessionList = h.sessionList /\ r.pending = h.pending
        /\ r.pendingList = WithoutKey(h.pendingList, Ftp!Key(h.pending[j]))
        /\ Len(r.sessions) = Len(h.sessions) /\ r.sessions[z] = 0
        /\ \A s \in 1..Len(h.sessions) : s # z => r.sessions[s] = h.sessions[s]
        /\ Len(h.assemblers) \in Nat /\ Len(r.assemblers) = n
        /\ r.assemblers[n].file = h.pending[j].file
        /\ \A k \in 1..Len(h.assemblers) : r.assemblers[k] = h.assemblers[k]

LEMMA Ends ==
    ASSUME NEW h, FtpShape(h), NEW z \in 0..Len(h.sessions)
    PROVE  LET r == Ftp!Completed(h, z)
           IN  /\ FtpShape(r)
               /\ \/ Ended(h, r, z)
                  \/ r = h /\ (z = 0 \/ h.sessions[z] = 0 \/ ~Ftp!Ready(h.pending[h.sessions[z]]))
  <1> DEFINE r == Ftp!Completed(h, z)
             j == h.sessions[z]
             p == h.pending[j]
             made == Ftp!Assembler(p)
             longer == Append(h.assemblers, made)
             q == WithoutKey(h.pendingList, Ftp!Key(p))
             sessions == [h.sessions EXCEPT ![z] = 0]
  <1>0. DOMAIN h = {"sessionList", "pendingList", "sessions", "pending", "assemblers"}
    BY DEF FtpShape
  <1>1. CASE z = 0 \/ j = 0 \/ ~Ftp!Ready(p)
    <2>1. r = h
      BY <1>1 DEF Ftp!Completed
    <2> QED BY <1>1, <2>1
  <1>2. CASE z # 0 /\ j # 0 /\ Ftp!Ready(p)
    <2>1. r = [h EXCEPT !.assemblers = longer, !.pendingList = q, !.sessions = sessions]
      BY <1>2, FtpLists DEF Ftp!Completed
    <2>2. PICK D : h.sessions \in Seq(D)
      BY DEF FtpShape
    <2>3. z \in 1..Len(h.sessions)
      <3>1. Len(h.sessions) \in Nat
        BY <2>2
      <3> QED BY <1>2, <3>1
    <2>4. j \in 1..Len(h.pending)
      <3>1. j \in 0..Len(h.pending) /\ Len(h.pending) \in Nat
        BY <2>3 DEF FtpShape
      <3> HIDE DEF j
      <3> QED BY <1>2, <3>1
    <2>5. made.file = p.file
      BY DEF Ftp!Assembler
    <2> HIDE DEF made
    <2>6. IsList(q) /\ EntriesOf(q) \subseteq EntriesOf(h.pendingList)
      BY EntryErased DEF FtpShape, FtpListed
    <2>7. PICK C : h.assemblers \in Seq(C)
      BY DEF FtpShape
    <2>8. /\ longer \in Seq(C \cup {made}) /\ Len(h.assemblers) \in Nat
          /\ Len(longer) = Len(h.assemblers) + 1 /\ longer[Len(h.assemblers) + 1] = made
          /\ \A i \in 1..Len(h.assemblers) : longer[i] = h.assemblers[i]
      <3>1. h.assemblers \in Seq(C \cup {made}) /\ made \in C \cup {made}
        BY <2>7, SeqWider
      <3> HIDE DEF longer
      <3> QED BY <3>1, AppendFacts DEF longer
    <2>9. /\ sessions \in Seq(D \cup {0}) /\ Len(sessions) = Len(h.sessions) /\ sessions[z] = 0
          /\ \A i \in 1..Len(h.sessions) : i # z => sessions[i] = h.sessions[i]
      <3>1. h.sessions \in Seq(D \cup {0}) /\ 0 \in D \cup {0}
        BY <2>2, SeqWider
      <3> QED BY <2>3, <3>1
    <2> HIDE DEF r, longer, sessions, q
    <2>10. /\ DOMAIN r = DOMAIN h /\ r.sessionList = h.sessionList /\ r.pendingList = q
           /\ r.sessions = sessions /\ r.pending = h.pending /\ r.assemblers = longer
      BY <1>0, <2>1
    <2>11. FtpListed(r)
      BY <2>6, <2>9, <2>10 DEF FtpShape, FtpListed
    <2>12. FtpShape(r)
      <3>1. \A i \in 1..Len(h.sessions) : sessions[i] \in 0..Len(h.pending)
        <4>1. 0 \in 0..Len(h.pending)
          BY DEF FtpShape
        <4> QED BY <2>9, <4>1 DEF FtpShape
      <3>2. (\E E : longer \in Seq(E)) /\ (\E E : sessions \in Seq(E))
        BY <2>8, <2>9
      <3> QED BY <2>9, <2>10, <2>11, <3>1, <3>2 DEF FtpShape
    <2>13. Ended(h, r, z)
      BY <1>2, <2>3, <2>4, <2>5, <2>8, <2>9, <2>10 DEF Ended, q
    <2> QED BY <2>12, <2>13 DEF r
  <1> QED BY <1>1, <1>2

LEMMA EndedKnown ==
    ASSUME NEW h, NEW sh, FtpKnown(h, sh), NEW r, NEW z, Ended(h, r, z)
    PROVE  FtpKnown(r, sh)
  <1> DEFINE n == Len(h.assemblers) + 1
  <1>1. PICK j \in 1..Len(h.pending) : j = h.sessions[z]
    BY DEF Ended
  <1>2. r.assemblers[n].file = h.pending[j].file /\ h.pending[j].toClient # -1
    BY <1>1 DEF Ended, Ftp!Ready
  <1>3. r.assemblers[n].file \in Begun(sh)
    BY <1>1, <1>2 DEF FtpKnown
  <1>4. \A k \in 1..n : k = n \/ k \in 1..Len(h.assemblers)
    BY DEF Ended
  <1>5. Len(r.assemblers) = n /\ \A k \in 1..Len(h.assemblers) : r.assemblers[k] = h.assemblers[k]
    BY DEF Ended
  <1>6. r.sessionList = h.sessionList /\ r.pending = h.pending
    BY DEF Ended
  <1> HIDE DEF n
  <1>7. \A k \in 1..n : r.assemblers[k].file \in Begun(sh)
    BY <1>3, <1>4, <1>5 DEF FtpKnown
  <1> QED BY <1>5, <1>6, <1>7 DEF FtpKnown

\* The end of another transfer leaves this one alone.
LEMMA EndedKeeps ==
    ASSUME ftpTransfers \in FtpCaptures, NEW h, FtpShape(h), NEW t \in ftpTransfers,
           NEW r, NEW z, Ended(h, r, z),
           NEW i, NEW e, NEW sent, Follows(h, t, i, e, sent), z # e.object
    PROVE  /\ Follows(r, t, i, e, sent)
           /\ \A N : Within(h.pendingList, Ftp!Key(h.pending[i]), N)
                     => Within(r.pendingList, Ftp!Key(r.pending[i]), N)
  <1> DEFINE q == h.pendingList
             y == Ftp!Key(h.pending[i])
  <1>0. IsList(q) /\ FtpListed(h) /\ i \in 1..Len(h.pending)
    BY DEF FtpShape, FtpListed, Follows
  <1>1. PICK j \in 1..Len(h.pending) :
           /\ j = h.sessions[z] /\ Ftp!Ready(h.pending[j])
           /\ r.pendingList = WithoutKey(q, Ftp!Key(h.pending[j]))
           /\ r.assemblers[Len(h.assemblers) + 1].file = h.pending[j].file
    BY DEF Ended
  <1>2. j # i
    BY <1>1 DEF Follows, Ended
  <1>3. Ftp!Key(h.pending[j]) # y
    <2>1. Ftp!Key(h.pending[j]) # Ftp!Key1(t)
      BY <1>2 DEF Follows
    <2>2. h.pending[j].clientPort # -1
      BY <1>1 DEF Ftp!Ready
    <2>3. Ftp!Key(h.pending[j]) # Ftp!Key2(t)
      BY <2>2, KeysApart
    <2> QED BY <2>1, <2>3 DEF Follows
  <1>4. h.pending[j].file # t
    BY <1>1, <1>2 DEF Follows, Ftp!Ready
  <1>5. PICK g \in EntriesOf(q) : g.object = i /\ g.key = y
    BY <1>0 DEF Follows, FtpListed
  <1>6. /\ EntriesOf(r.pendingList) = {x \in EntriesOf(q) : x.key # Ftp!Key(h.pending[j])}
        /\ KeysBefore(r.pendingList, y) \subseteq KeysBefore(q, y)
    BY <1>0, <1>1, EntryErasedFacts
  <1>7. g \in EntriesOf(r.pendingList)
    BY <1>3, <1>5, <1>6
  <1>8. KeysOf(r.pendingList) \subseteq KeysOf(q)
    <2>1. \A x : KeysOf(x) = {k.key : k \in EntriesOf(x)}
      BY DEF KeysOf, EntriesOf
    <2> QED BY <1>6, <2>1
  <1>9. ASSUME NEW N, Within(q, y, N) PROVE Within(r.pendingList, y, N)
    <2>1. \A x \in KeysBefore(q, y) : DueTo(x, KeysOf(q), N)
      BY <1>9 DEF Within
    <2>2. \A x : DueTo(x, KeysOf(q), N) => DueTo(x, KeysOf(r.pendingList), N)
      BY <1>8 DEF DueTo
    <2> QED BY <1>6, <2>1, <2>2 DEF Within
  <1> HIDE DEF y, q
  <1>10. r.pending = h.pending
    BY DEF Ended
  <1>11. \A k \in 1..Len(r.assemblers) : r.assemblers[k].file # t
    <2>1. \A k \in 1..Len(r.assemblers) : k = Len(h.assemblers) + 1 \/ k \in 1..Len(h.assemblers)
      BY DEF Ended
    <2>2. \A k \in 1..Len(h.assemblers) : r.assemblers[k] = h.assemblers[k]
      BY DEF Ended
    <2>3. \A k \in 1..Len(h.assemblers) : h.assemblers[k].file # t
      BY DEF Follows
    <2> QED BY <1>1, <1>4, <2>1, <2>2, <2>3
  <1>12. /\ e.object \in 1..Len(h.sessions) /\ r.sessions[e.object] = i
         /\ \A s \in 1..Len(r.sessions) : r.sessions[s] = i => s = e.object
    <2>1. e.object \in 1..Len(h.sessions)
      BY <1>0 DEF Follows, FtpListed
    <2>2. \A s \in 1..Len(h.sessions) : h.sessions[s] = i => s = e.object
      BY DEF Follows
    <2>3. Len(r.sessions) = Len(h.sessions) /\ r.sessions[z] = 0
          /\ \A s \in 1..Len(h.sessions) : s # z => r.sessions[s] = h.sessions[s]
      BY DEF Ended
    <2>4. h.sessions[e.object] = i /\ i # 0
      BY <1>0 DEF Follows
    <2> QED BY <2>1, <2>2, <2>3, <2>4
  <1>13. r.sessionList = h.sessionList
    BY DEF Ended
  <1>14. Follows(r, t, i, e, sent)
    BY <1>0, <1>5, <1>7, <1>10, <1>11, <1>12, <1>13 DEF Follows
  <1> QED BY <1>9, <1>10, <1>14 DEF y, q

\* Its own end.
LEMMA EndedSettled ==
    ASSUME NEW h, FtpShape(h), NEW t, NEW r, NEW z, Ended(h, r, z),
           NEW i, NEW e, NEW sent, Follows(h, t, i, e, sent), z = e.object
    PROVE  NotSought(r, t) /\ Idle(r, t) /\ Cardinality(AssemblersOf(r, t)) = 1
  <1> DEFINE n == Len(h.assemblers) + 1
  <1>1. /\ h.sessions[z] = i /\ i \in 1..Len(h.pending) /\ e.key = t.session
        /\ e \in EntriesOf(h.sessionList) /\ IsList(h.sessionList)
    BY DEF Follows, FtpShape, FtpListed
  <1>2. h.pending[i].file = t
    BY <1>1 DEF Follows, Ended, Ftp!Ready
  <1>3. NotSought(r, t)
    <2> SUFFICES ASSUME NEW s \in 1..Len(r.sessions), r.sessions[s] # 0,
                        r.pending[r.sessions[s]].toClient # -1
                 PROVE  r.pending[r.sessions[s]].file # t
      BY DEF NotSought
    <2>1. s # z /\ s \in 1..Len(h.sessions) /\ r.sessions[s] = h.sessions[s] /\ r.pending = h.pending
      BY DEF Ended
    <2>2. h.sessions[s] # i
      BY <2>1 DEF Follows
    <2>3. h.sessions[s] \in 0..Len(h.pending) /\ Len(h.pending) \in Nat
      BY <1>1, <2>1 DEF FtpShape
    <2>4. PICK k \in 1..Len(h.pending) : k = h.sessions[s]
      BY <2>1, <2>3
    <2> QED BY <2>1, <2>2, <2>4 DEF Follows
  <1>4. Idle(r, t)
    <2> SUFFICES ASSUME NEW f \in EntriesOf(h.sessionList), f.key = t.session
                 PROVE  r.sessions[f.object] = 0
      BY DEF Idle, Ended
    <2>1. f = e
      BY <1>1, SameEntry
    <2> QED BY <2>1 DEF Ended
  <1>5. AssemblersOf(r, t) = {n}
    <2>1. \A k \in 1..Len(r.assemblers) : k = n \/ k \in 1..Len(h.assemblers)
      BY DEF Ended
    <2>2. \A k \in 1..Len(h.assemblers) : r.assemblers[k].file # t
      BY DEF Follows, Ended
    <2>3. r.assemblers[n].file = t
      BY <1>1, <1>2 DEF Ended
    <2>4. n \in 1..Len(r.assemblers)
      BY DEF Ended
    <2> HIDE DEF n
    <2> QED BY <2>1, <2>2, <2>3, <2>4 DEF AssemblersOf
  <1> HIDE DEF n
  <1> QED BY <1>3, <1>4, <1>5, FS_Singleton

LEMMA EndedSettles ==
    ASSUME NEW h, FtpShape(h), NEW r, NEW z, Ended(h, r, z), NEW t, NotSought(h, t)
    PROVE  /\ NotSought(r, t)
           /\ Idle(h, t) => Idle(r, t)
           /\ AssemblersOf(r, t) = AssemblersOf(h, t)
  <1> DEFINE n == Len(h.assemblers) + 1
  <1>1. NotSought(r, t)
    BY DEF NotSought, Ended
  <1>2. Idle(h, t) => Idle(r, t)
    BY DEF Idle, Ended, FtpShape, FtpListed
  <1>3. r.assemblers[n].file # t
    <2>1. h.sessions[z] # 0 /\ h.pending[h.sessions[z]].toClient # -1
      BY DEF Ended, Ftp!Ready
    <2> QED BY <2>1 DEF NotSought, Ended
  <1>4. /\ \A k \in 1..Len(r.assemblers) : k = n \/ k \in 1..Len(h.assemblers)
        /\ \A k \in 1..Len(h.assemblers) : r.assemblers[k] = h.assemblers[k] /\ k \in 1..Len(r.assemblers)
    BY DEF Ended
  <1> HIDE DEF n
  <1>5. AssemblersOf(r, t) = AssemblersOf(h, t)
    BY <1>3, <1>4 DEF AssemblersOf
  <1> QED BY <1>1, <1>2, <1>5

\* The end of TryExtractData, for this session.
Finish(h, r, z) ==
    \/ Ended(h, r, z)
    \/ r = h /\ (z = 0 \/ h.sessions[z] = 0 \/ ~Ftp!Ready(h.pending[h.sessions[z]]))

\* The transfer waits for the frames but these, and keeps its place in the list.
Waits(h, t, sent, N) ==
    \E i, e : Follows(h, t, i, e, sent) /\ Within(h.pendingList, Ftp!Key(h.pending[i]), N)

\* The transfer's file has its assembler, and gets no other.
Settled(h, t) == NotSought(h, t) /\ Cardinality(AssemblersOf(h, t)) = 1

LEMMA FinishKeeps ==
    ASSUME ftpTransfers \in FtpCaptures, NEW h, FtpShape(h), NEW t \in ftpTransfers,
           NEW r, NEW z, Finish(h, r, z), NEW i, NEW e, NEW sent, Follows(h, t, i, e, sent),
           z # e.object \/ ~({"command", "connect"} \subseteq sent),
           NEW N, Within(h.pendingList, Ftp!Key(h.pending[i]), N)
    PROVE  Follows(r, t, i, e, sent) /\ Within(r.pendingList, Ftp!Key(r.pending[i]), N)
  <1>1. CASE r = h
    BY <1>1
  <1>2. CASE Ended(h, r, z)
    <2>1. z # e.object
      BY <1>2 DEF Ended, Follows, Ftp!Ready
    <2> QED BY <1>2, <2>1, EndedKeeps
  <1> QED BY <1>1, <1>2 DEF Finish

LEMMA FinishEnds ==
    ASSUME ftpTransfers \in FtpCaptures, NEW h, FtpShape(h), NEW t \in ftpTransfers,
           NEW r, NEW z, Finish(h, r, z), NEW i, NEW e, NEW sent, Follows(h, t, i, e, sent),
           z = e.object, {"command", "connect"} \subseteq sent
    PROVE  Settled(r, t) /\ Idle(r, t)
  <1>1. Ended(h, r, z)
    <2>1. z # 0 /\ h.sessions[z] = i /\ i # 0
      BY DEF Follows, FtpShape, FtpListed
    <2>2. Ftp!Ready(h.pending[i])
      <3>1. h.pending[i].established /\ h.pending[i].toClient # -1 /\ Ftp!Key(h.pending[i]) = Ftp!Key1(t)
        BY DEF Follows
      <3>2. h.pending[i].clientPort # -1
        BY <3>1, KeysApart
      <3> QED BY <3>1, <3>2 DEF Ftp!Ready
    <2> QED BY <2>1, <2>2 DEF Finish
  <1> QED BY <1>1, EndedSettled DEF Settled

LEMMA FinishSettles ==
    ASSUME NEW h, FtpShape(h), NEW r, NEW z, Finish(h, r, z), NEW t, Settled(h, t)
    PROVE  Settled(r, t) /\ (Idle(h, t) => Idle(r, t))
  <1>1. CASE r = h
    BY <1>1
  <1>2. CASE Ended(h, r, z)
    BY <1>2, EndedSettles DEF Settled
  <1> QED BY <1>1, <1>2 DEF Finish

FewSessions ==
    /\ ftpTransfers \in FtpCaptures /\ IsFiniteSet(Ftp!SessionsOf(ftpTransfers))
    /\ Cardinality(Ftp!SessionsOf(ftpTransfers)) <= FtpSessionPoolSize

\* What TryExtractData does with an announcement or a command: the states on the way.
Spoken(w, frame, k, m, d, r) ==
    /\ FtpShape(k) /\ OnlySession(ftp, k) /\ d \in EntriesOf(k.sessionList) /\ d.key = w.session
    /\ FtpShape(m) /\ IF frame = "announce" THEN Began(k, m, w, d) ELSE Told(k, m, w, d)
    /\ Finish(m, r, d.object)

LEMMA Speaks ==
    ASSUME FtpShape(ftp), NEW sh, FtpKnown(ftp, sh), FewSessions,
           NEW w \in Begun(sh), NEW frame, frame # "connect"
    PROVE  LET r == Ftp!TryExtractData(w, frame)
           IN  FtpShape(r) /\ FtpKnown(r, sh) /\ \E k, m, d : Spoken(w, frame, k, m, d, r)
  <1> DEFINE k == Ftp!WithSession(ftp, w)
             m == IF frame = "announce" THEN Ftp!Announced(k, w) ELSE Ftp!Commanded(k, w)
             r == Ftp!Completed(m, Ftp!SessionOf(m, w))
  <1>0. Ftp!TryExtractData(w, frame) = r
    BY DEF Ftp!TryExtractData
  <1>1. FtpShape(k) /\ FtpKnown(k, sh) /\ OnlySession(ftp, k) /\ w.session \in KeysOf(k.sessionList)
    <2>1. w \in ftpTransfers
      BY DEF Begun
    <2> QED BY <2>1, SessionFinds DEF FewSessions
  <1> HIDE DEF k
  <1>2. PICK d \in EntriesOf(k.sessionList) :
           d.key = w.session /\ Ftp!SessionOf(k, w) = d.object /\ d.object \in 1..Len(k.sessions)
    BY <1>1, SessionIsFound
  <1>3. /\ FtpShape(m) /\ FtpKnown(m, sh) /\ m.sessionList = k.sessionList
        /\ Len(m.sessions) = Len(k.sessions)
        /\ IF frame = "announce" THEN Began(k, m, w, d) ELSE Told(k, m, w, d)
    <2>1. CASE frame = "announce"
      <3>1. FtpShape(m) /\ Began(k, m, w, d)
        BY <1>1, <1>2, <2>1, Begins
      <3> HIDE DEF m
      <3>2. FtpKnown(m, sh)
        BY <1>1, <3>1, BeganKnown
      <3> QED BY <2>1, <3>1, <3>2 DEF Began
    <2>2. CASE frame # "announce"
      <3>1. FtpShape(m) /\ Told(k, m, w, d)
        BY <1>1, <1>2, <2>2, Tells
      <3> HIDE DEF m
      <3>2. FtpKnown(m, sh)
        BY <1>1, <3>1, ToldKnown
      <3> QED BY <2>2, <3>1, <3>2 DEF Told
    <2> QED BY <2>1, <2>2
  <1> HIDE DEF m
  <1>4. Ftp!SessionOf(m, w) = d.object
    BY <1>2, <1>3, FtpLists DEF Ftp!SessionOf
  <1>5. d.object \in 0..Len(m.sessions)
    <2>1. \E C : m.sessions \in Seq(C)
      BY <1>3 DEF FtpShape
    <2>2. Len(m.sessions) \in Nat
      BY <2>1
    <2> QED BY <1>2, <1>3, <2>2
  <1>6. FtpShape(r) /\ Finish(m, r, d.object)
    BY <1>3, <1>4, <1>5, Ends DEF Finish
  <1> HIDE DEF r
  <1>7. FtpKnown(r, sh)
    BY <1>3, <1>6, EndedKnown DEF Finish
  <1>8. Spoken(w, frame, k, m, d, r)
    BY <1>1, <1>2, <1>3, <1>6 DEF Spoken
  <1> QED BY <1>0, <1>6, <1>7, <1>8

\* What it does with a handshake.
Joined(w, m, z, r) ==
    /\ FtpShape(m) /\ Finish(m, r, z)
    /\ \/ \E j : Linked(ftp, m, w, j) /\ z = m.pending[j].session
       \/ /\ m = ftp
          /\ Ftp!Key1(w) \notin KeysOf(ftp.pendingList) /\ Ftp!Key2(w) \notin KeysOf(ftp.pendingList)

LEMMA Joins ==
    ASSUME FtpShape(ftp), NEW sh, FtpKnown(ftp, sh), ftpTransfers \in FtpCaptures,
           NEW w \in ftpTransfers, "connect" \in sh[w]
    PROVE  LET r == Ftp!TryExtractData(w, "connect")
           IN  FtpShape(r) /\ FtpKnown(r, sh) /\ \E m, z : Joined(w, m, z, r)
  <1> DEFINE m == Ftp!Connected(ftp, w)
             z == Ftp!SessionConnected(m, w)
             r == Ftp!Completed(m, z)
  <1>0. Ftp!TryExtractData(w, "connect") = r
    BY DEF Ftp!TryExtractData
  <1>1. /\ FtpShape(m)
        /\ \/ \E j : Linked(ftp, m, w, j)
           \/ /\ m = ftp /\ z = 0
              /\ Ftp!Key1(w) \notin KeysOf(ftp.pendingList) /\ Ftp!Key2(w) \notin KeysOf(ftp.pendingList)
    BY Links
  <1> HIDE DEF m
  <1>2. FtpKnown(m, sh)
    BY <1>1, LinkedKnown
  <1>3. \A j : Linked(ftp, m, w, j) => z = m.pending[j].session /\ z \in 1..Len(m.sessions)
    BY <1>1 DEF Linked, FtpShape
  <1>4. Len(m.sessions) \in Nat
    <2>1. \E C : m.sessions \in Seq(C)
      BY <1>1 DEF FtpShape
    <2> QED BY <2>1
  <1> HIDE DEF z
  <1>5. z \in 0..Len(m.sessions)
    BY <1>1, <1>3, <1>4
  <1>6. FtpShape(r) /\ Finish(m, r, z)
    BY <1>1, <1>5, Ends DEF Finish
  <1> HIDE DEF r
  <1>7. FtpKnown(r, sh)
    BY <1>2, <1>6, EndedKnown DEF Finish
  <1>8. Joined(w, m, z, r)
    BY <1>1, <1>3, <1>6 DEF Joined
  <1> QED BY <1>0, <1>6, <1>7, <1>8

LEMMA WithinMore ==
    ASSUME NEW q, NEW y, NEW N, Within(q, y, N), NEW M, N \subseteq M
    PROVE  Within(q, y, M)
  BY DEF Within, DueTo

\* A frame of another transfer leaves one alone that does not share its listener,
\* unless the list has no room.
LEMMA SpeakingKeeps ==
    ASSUME ftpTransfers \in FtpCaptures, FtpShape(ftp), NEW w \in ftpTransfers, NEW frame, frame # "connect",
           NEW r, \E k, m, d : Spoken(w, frame, k, m, d, r),
           NEW t \in ftpTransfers, t.session # w.session, NEW sent, NEW N, Waits(ftp, t, sent, N),
           ~({"command", "connect"} \subseteq sent),
           NEW M \in SUBSET ftpTransfers, IsFiniteSet(M), N \subseteq M,
           frame = "announce" => /\ w \in M /\ Ftp!Key2(w) # Ftp!Key2(t)
                                 /\ Ftp!Key1(w) \notin KeysOf(ftp.pendingList) \/ Shares(w)
                                 /\ Ftp!Entries(M) < FtpPendingPoolSize
    PROVE  Waits(r, t, sent, M)
  <1>1. PICK k, m, d : Spoken(w, frame, k, m, d, r)
    OBVIOUS
  <1>2. PICK i, e : Follows(ftp, t, i, e, sent) /\ Within(ftp.pendingList, Ftp!Key(ftp.pending[i]), N)
    BY DEF Waits
  <1>3. FtpShape(k) /\ OnlySession(ftp, k) /\ d \in EntriesOf(k.sessionList) /\ d.key = w.session
        /\ FtpShape(m) /\ Finish(m, r, d.object)
    BY <1>1 DEF Spoken
  <1>4. Follows(k, t, i, e, sent)
    BY <1>2, <1>3, SessionKeeps
  <1>5. k.pendingList = ftp.pendingList /\ k.pending = ftp.pending
    BY <1>3 DEF OnlySession
  <1>6. Within(k.pendingList, Ftp!Key(k.pending[i]), M)
    BY <1>2, <1>5, WithinMore
  <1>7. Follows(m, t, i, e, sent) /\ Within(m.pendingList, Ftp!Key(m.pending[i]), M)
    <2>1. CASE frame = "announce"
      <3>1. Began(k, m, w, d)
        BY <1>1, <2>1 DEF Spoken
      <3>2. Ftp!Key1(w) \notin KeysOf(k.pendingList) \/ Shares(w)
        BY <1>5, <2>1
      <3> QED BY <1>3, <1>4, <1>6, <2>1, <3>1, <3>2, BeganKeeps
    <2>2. CASE frame # "announce"
      <3>1. Told(k, m, w, d)
        BY <1>1, <2>2 DEF Spoken
      <3>2. Follows(m, t, i, e, sent) /\ m.pending[i] = k.pending[i]
        BY <1>3, <1>4, <3>1, ToldKeeps
      <3>3. m.pendingList = k.pendingList
        BY <3>1 DEF Told
      <3> QED BY <1>6, <3>2, <3>3
    <2> QED BY <2>1, <2>2
  <1>8. Follows(r, t, i, e, sent) /\ Within(r.pendingList, Ftp!Key(r.pending[i]), M)
    BY <1>3, <1>7, FinishKeeps
  <1> QED BY <1>8 DEF Waits

LEMMA JoiningKeeps ==
    ASSUME ftpTransfers \in FtpCaptures, FtpShape(ftp), NEW w \in ftpTransfers,
           NEW r, \E m, z : Joined(w, m, z, r),
           NEW t \in ftpTransfers, Ftp!Key2(w) # Ftp!Key2(t), NEW sent, NEW N, Waits(ftp, t, sent, N),
           ~({"command", "connect"} \subseteq sent),
           NEW M \in SUBSET ftpTransfers, IsFiniteSet(M), N \subseteq M, w \in M,
           Ftp!Entries(M) < FtpPendingPoolSize
    PROVE  Waits(r, t, sent, M)
  <1>1. PICK m, z : Joined(w, m, z, r)
    OBVIOUS
  <1>2. PICK i, e : Follows(ftp, t, i, e, sent) /\ Within(ftp.pendingList, Ftp!Key(ftp.pending[i]), N)
    BY DEF Waits
  <1>3. Within(ftp.pendingList, Ftp!Key(ftp.pending[i]), M)
    BY <1>2, WithinMore
  <1>4. FtpShape(m) /\ Finish(m, r, z)
    BY <1>1 DEF Joined
  <1>5. Follows(m, t, i, e, sent) /\ Within(m.pendingList, Ftp!Key(m.pending[i]), M)
    <2>1. ASSUME NEW j, Linked(ftp, m, w, j)
          PROVE  Follows(m, t, i, e, sent) /\ Within(m.pendingList, Ftp!Key(m.pending[i]), M)
      BY <1>2, <1>3, <1>4, <2>1, LinkedKeeps
    <2> QED BY <1>1, <1>2, <1>3, <2>1 DEF Joined
  <1>6. Follows(r, t, i, e, sent) /\ Within(r.pendingList, Ftp!Key(r.pending[i]), M)
    BY <1>4, <1>5, FinishKeeps
  <1> QED BY <1>6 DEF Waits

\* The transfer's own frames: its first announcement,
LEMMA AnnouncementBegins ==
    ASSUME ftpTransfers \in FtpCaptures, FtpShape(ftp), NEW t \in ftpTransfers,
           NEW r, \E k, m, d : Spoken(t, "announce", k, m, d, r),
           \A j \in 1..Len(ftp.pending) :
              /\ Ftp!Key(ftp.pending[j]) # Ftp!Key1(t)
              /\ ftp.pending[j].toClient # -1 => ftp.pending[j].file # t,
           \A j \in 1..Len(ftp.assemblers) : ftp.assemblers[j].file # t,
           NEW M
    PROVE  Waits(r, t, {"announce"}, M)
  <1>1. PICK k, m, d : Spoken(t, "announce", k, m, d, r)
    OBVIOUS
  <1>2. FtpShape(k) /\ OnlySession(ftp, k) /\ d \in EntriesOf(k.sessionList) /\ d.key = t.session
        /\ FtpShape(m) /\ Finish(m, r, d.object) /\ Began(k, m, t, d)
    BY <1>1 DEF Spoken
  <1>3. k.pending = ftp.pending /\ k.assemblers = ftp.assemblers
    BY <1>2 DEF OnlySession
  <1> DEFINE n == Len(k.pending) + 1
  <1>4. /\ Follows(m, t, n, d, {"announce"})
        /\ \A N : Within(m.pendingList, Ftp!Key(m.pending[n]), N)
    <2>1. \A j \in 1..Len(k.pending) :
              /\ Ftp!Key(k.pending[j]) # Ftp!Key1(t)
              /\ k.pending[j].toClient # -1 => k.pending[j].file # t
      BY <1>3
    <2>2. \A j \in 1..Len(k.assemblers) : k.assemblers[j].file # t
      BY <1>3
    <2> QED BY <1>2, <2>1, <2>2, BeganFollows
  <1> HIDE DEF n
  <1>5. ~({"command", "connect"} \subseteq {"announce"})
    OBVIOUS
  <1>6. Within(m.pendingList, Ftp!Key(m.pending[n]), M)
    BY <1>4
  <1>7. Follows(r, t, n, d, {"announce"}) /\ Within(r.pendingList, Ftp!Key(r.pending[n]), M)
    BY <1>2, <1>4, <1>5, <1>6, FinishKeeps
  <1> QED BY <1>7 DEF Waits

\* then its command
LEMMA CommandAdds ==
    ASSUME ftpTransfers \in FtpCaptures, FtpShape(ftp), NEW t \in ftpTransfers, Ftp!IsFile(t),
           NEW r, \E k, m, d : Spoken(t, "command", k, m, d, r),
           NEW sent, NEW N, Waits(ftp, t, sent, N)
    PROVE  IF "connect" \in sent THEN Settled(r, t) /\ Idle(r, t)
           ELSE Waits(r, t, sent \cup {"command"}, N)
  <1> DEFINE all == sent \cup {"command"}
  <1>1. PICK k, m, d : Spoken(t, "command", k, m, d, r)
    OBVIOUS
  <1>2. PICK i, e : Follows(ftp, t, i, e, sent) /\ Within(ftp.pendingList, Ftp!Key(ftp.pending[i]), N)
    BY DEF Waits
  <1>3. FtpShape(k) /\ OnlySession(ftp, k) /\ d \in EntriesOf(k.sessionList) /\ d.key = t.session
        /\ FtpShape(m) /\ Finish(m, r, d.object) /\ Told(k, m, t, d)
    BY <1>1 DEF Spoken
  <1>4. Follows(k, t, i, e, sent)
    BY <1>2, <1>3, SessionKeeps
  <1>5. d = e /\ Follows(m, t, i, e, all) /\ Ftp!Key(m.pending[i]) = Ftp!Key(k.pending[i])
    <2>1. FtpShape(k) /\ d \in EntriesOf(k.sessionList) /\ d.key = t.session /\ Told(k, m, t, d)
      BY <1>3
    <2> QED BY ONLY <1>4, <2>1, Ftp!IsFile(t), ToldFollows
  <1>6. Within(m.pendingList, Ftp!Key(m.pending[i]), N)
    <2>1. m.pendingList = ftp.pendingList /\ k.pending = ftp.pending
      BY <1>3 DEF Told, OnlySession
    <2> QED BY <1>2, <1>5, <2>1
  <1>7. CASE "connect" \in sent
    <2>1. {"command", "connect"} \subseteq all
      BY <1>7
    <2> HIDE DEF all
    <2>2. Settled(r, t) /\ Idle(r, t)
      BY <1>3, <1>5, <2>1, FinishEnds
    <2> QED BY <1>7, <2>2
  <1>8. CASE "connect" \notin sent
    <2>1. ~({"command", "connect"} \subseteq all)
      BY <1>8
    <2> HIDE DEF all
    <2>2. Follows(r, t, i, e, all) /\ Within(r.pendingList, Ftp!Key(r.pending[i]), N)
      BY <1>3, <1>5, <1>6, <2>1, FinishKeeps
    <2>3. Waits(r, t, all, N)
      BY <2>2 DEF Waits
    <2> QED BY <1>8, <2>3 DEF all
  <1> QED BY <1>7, <1>8

\* and its connection, in either order; the last of them gives the file its assembler.
LEMMA ConnectionAdds ==
    ASSUME ftpTransfers \in FtpCaptures, FtpShape(ftp), NEW t \in ftpTransfers,
           NEW r, \E m, z : Joined(t, m, z, r), NEW sent, NEW N, Waits(ftp, t, sent, N), NEW M
    PROVE  IF "command" \in sent THEN Settled(r, t) /\ Idle(r, t)
           ELSE Waits(r, t, sent \cup {"connect"}, M)
  <1> DEFINE all == sent \cup {"connect"}
  <1>1. PICK m, z : Joined(t, m, z, r)
    OBVIOUS
  <1>2. PICK i, e : Follows(ftp, t, i, e, sent)
    BY DEF Waits
  <1>3. FtpShape(m) /\ Finish(m, r, z)
    BY <1>1 DEF Joined
  <1>4. PICK j : Linked(ftp, m, t, j) /\ z = m.pending[j].session
    <2>1. PICK f \in EntriesOf(ftp.pendingList) : f.object = i /\ f.key = Ftp!Key(ftp.pending[i])
      BY <1>2 DEF Follows, FtpShape, FtpListed
    <2>2. f.key \in KeysOf(ftp.pendingList)
      BY <2>1, KeysOfEntries
    <2>3. f.key = Ftp!Key1(t) \/ f.key = Ftp!Key2(t)
      BY <1>2, <2>1 DEF Follows
    <2> QED BY <1>1, <2>2, <2>3 DEF Joined
  <1>5. /\ j = i /\ Follows(m, t, i, e, all)
        /\ \A x : Within(m.pendingList, Ftp!Key(m.pending[i]), x)
    BY <1>2, <1>3, <1>4, LinkedFollows
  <1>6. z = e.object
    BY <1>4, <1>5 DEF Follows
  <1>7. CASE "command" \in sent
    <2>1. {"command", "connect"} \subseteq all
      BY <1>7
    <2> HIDE DEF all
    <2>2. Settled(r, t) /\ Idle(r, t)
      BY <1>3, <1>5, <1>6, <2>1, FinishEnds
    <2> QED BY <1>7, <2>2
  <1>8. CASE "command" \notin sent
    <2>1. ~({"command", "connect"} \subseteq all)
      BY <1>8
    <2> HIDE DEF all
    <2>2. Within(m.pendingList, Ftp!Key(m.pending[i]), M)
      BY <1>5
    <2>3. Follows(r, t, i, e, all) /\ Within(r.pendingList, Ftp!Key(r.pending[i]), M)
      BY <1>3, <1>5, <2>1, <2>2, FinishKeeps
    <2>4. Waits(r, t, all, M)
      BY <2>3 DEF Waits
    <2> QED BY <1>8, <2>4 DEF all
  <1> QED BY <1>7, <1>8

\* No frame gives a file a second assembler, when its transfer's repeated command
\* finds no pending transfer in its session.
LEMMA SpeakingSettles ==
    ASSUME FtpShape(ftp), NEW w, NEW frame, NEW r, \E k, m, d : Spoken(w, frame, k, m, d, r),
           NEW t, Settled(ftp, t), frame # "announce" /\ t = w => Idle(ftp, t)
    PROVE  /\ Settled(r, t)
           /\ Idle(ftp, t) /\ (frame = "announce" => t.session # w.session) => Idle(r, t)
  <1>1. PICK k, m, d : Spoken(w, frame, k, m, d, r)
    OBVIOUS
  <1>2. FtpShape(k) /\ OnlySession(ftp, k) /\ d \in EntriesOf(k.sessionList) /\ d.key = w.session
        /\ FtpShape(m) /\ Finish(m, r, d.object)
    BY <1>1 DEF Spoken
  <1>3. /\ NotSought(k, t) /\ Cardinality(AssemblersOf(k, t)) = 1 /\ (Idle(ftp, t) => Idle(k, t))
    BY <1>2, SessionKeeps DEF Settled
  <1>4. /\ NotSought(m, t) /\ AssemblersOf(m, t) = AssemblersOf(k, t)
        /\ Idle(k, t) /\ (frame = "announce" => t.session # w.session) => Idle(m, t)
    <2>1. CASE frame = "announce"
      <3>1. Began(k, m, w, d)
        BY <1>1, <2>1 DEF Spoken
      <3> QED BY <1>2, <1>3, <2>1, <3>1, BeganSettles
    <2>2. CASE frame # "announce"
      <3>1. Told(k, m, w, d)
        BY <1>1, <2>2 DEF Spoken
      <3>2. t = w => Idle(k, t)
        BY <1>3, <2>2
      <3> QED BY <1>2, <1>3, <2>2, <3>1, <3>2, ToldSettles
    <2> QED BY <2>1, <2>2
  <1>5. Settled(m, t)
    BY <1>3, <1>4 DEF Settled
  <1>6. Settled(r, t) /\ (Idle(m, t) => Idle(r, t))
    BY <1>2, <1>5, FinishSettles
  <1> QED BY <1>3, <1>4, <1>6

LEMMA JoiningSettles ==
    ASSUME FtpShape(ftp), NEW w, NEW r, \E m, z : Joined(w, m, z, r), NEW t, Settled(ftp, t)
    PROVE  Settled(r, t) /\ (Idle(ftp, t) => Idle(r, t))
  <1>1. PICK m, z : Joined(w, m, z, r)
    OBVIOUS
  <1>2. FtpShape(m) /\ Finish(m, r, z)
    BY <1>1 DEF Joined
  <1>3. Settled(m, t) /\ (Idle(ftp, t) => Idle(m, t))
    <2>1. ASSUME NEW j, Linked(ftp, m, w, j)
          PROVE  Settled(m, t) /\ (Idle(ftp, t) => Idle(m, t))
      BY <2>1, LinkedSettles DEF Settled
    <2> QED BY <1>1, <2>1 DEF Joined
  <1> QED BY <1>2, <1>3, FinishSettles

----------------------------------------------------------------------------
(* FTP: the transfers that are sure to be assembled.                        *)

SureEnv ==
    /\ FtpShape(ftp) /\ FtpKnown(ftp, ftpShown)
    /\ \A t \in ftpTransfers : ftpShown[t] \subseteq Ftp!Frames /\ ftpNewer[t] \subseteq ftpTransfers
    /\ ftpSure \subseteq ftpTransfers
    /\ \A t \in ftpSure : "announce" \in ftpShown[t]

\* Until it is complete a session's present transfer waits for what it lacks; after,
\* its file has its assembler.
IsSure(t) ==
    IF ftpShown[t] = Ftp!Frames
    THEN Settled(ftp, t) /\ (t.turn = ftpTurn[t.session] => Idle(ftp, t))
    ELSE t.turn = ftpTurn[t.session] => Waits(ftp, t, ftpShown[t], ftpNewer[t])

SureInv ==
    FewSessions => SureEnv /\ \A t \in ftpSure : Ftp!IsFile(t) => IsSure(t)

LEMMA SubsetsCount ==
    ASSUME ftpTransfers \in FtpCaptures, NEW M \in SUBSET ftpTransfers
    PROVE  IsFiniteSet(M) /\ Ftp!Entries(M) \in Nat
  <1>1. IsFiniteSet(M)
    BY FS_Subset, FtpCapturesAssumption
  <1> DEFINE None == {}
  <1>2. \A x \in None : DueTo(x, None, M)
    OBVIOUS
  <1> HIDE DEF None
  <1>3. Ftp!Entries(M) \in Nat
    BY <1>1, <1>2, EntriesCount
  <1> QED BY <1>1, <1>3

LEMMA KnownMore ==
    ASSUME NEW h, NEW sh, FtpKnown(h, sh), NEW more, \A t \in ftpTransfers : sh[t] \subseteq more[t]
    PROVE  FtpKnown(h, more)
  <1>1. ASSUME NEW i \in 1..Len(h.pending), h.pending[i].clientPort # -1
        PROVE  \E w \in ftpTransfers : "connect" \in more[w] /\ Ftp!Key(h.pending[i]) = Ftp!Key1(w)
    BY <1>1 DEF FtpKnown
  <1>2. Begun(sh) \subseteq Begun(more)
    BY DEF Begun
  <1> QED BY <1>1, <1>2 DEF FtpKnown

\* The list holds a connection with these ports only when another's was seen.
LEMMA ListedShares ==
    ASSUME ftpTransfers \in FtpCaptures, FtpShape(ftp), FtpKnown(ftp, ftpShown), NEW w \in ftpTransfers,
           ftpShown[w] = {}
    PROVE  Ftp!Key1(w) \notin KeysOf(ftp.pendingList) \/ Shares(w)
  <1> SUFFICES ASSUME Ftp!Key1(w) \in KeysOf(ftp.pendingList) PROVE Shares(w)
    OBVIOUS
  <1>1. PICK f \in EntriesOf(ftp.pendingList) : f.key = Ftp!Key1(w)
    BY DEF KeysOf, EntriesOf
  <1>2. f.object \in 1..Len(ftp.pending) /\ Ftp!Key(ftp.pending[f.object]) = Ftp!Key1(w)
    BY <1>1 DEF FtpShape, FtpListed
  <1>3. ftp.pending[f.object].clientPort # -1
    BY <1>2, KeysApart
  <1>4. PICK u \in ftpTransfers : "connect" \in ftpShown[u] /\ Ftp!Key1(w) = Ftp!Key1(u)
    BY <1>2, <1>3 DEF FtpKnown
  <1>5. u # w
    BY <1>4
  <1> QED BY <1>4, <1>5 DEF Shares, Ftp!SamePorts

\* What a frame says of a transfer, the one it is of or another.
LEMMA FrameOf ==
    ASSUME FtpEnv, NEW w \in ftpTransfers, NEW frame, FrameStep(w, frame), NEW t \in ftpTransfers, t # w
    PROVE  /\ t.session = w.session => t.turn # ftpTurn'[t.session]
           /\ t.session # w.session => ftpTurn'[t.session] = ftpTurn[t.session]
           /\ ftpShown'[t] = ftpShown[t] /\ ftpNewer[t] \subseteq ftpNewer'[t]
  <1>1. t.session = w.session => t.turn # ftpTurn'[t.session]
    BY FtpCapturesAssumption DEF FtpEnv, FrameStep
  <1>2. t.session \in DOMAIN ftpTurn
    BY DEF FtpEnv, Ftp!SessionsOf
  <1> QED BY <1>1, <1>2, NewerAfter DEF FrameStep

\* The history of a captured frame.
LEMMA NotedFacts ==
    ASSUME NEW w, NEW frame, Ftp!Noted(w, frame), ftpNewer' = Ftp!Newer(w, frame), NEW t \in ftpSure'
    PROVE  \/ /\ t \in ftpSure /\ ftpShown[t] = Ftp!Frames
              /\ ~(frame = "announce" /\ ftpShown[w] # {} /\ t = w)
           \/ /\ t \in ftpSure /\ ftpShown[t] # Ftp!Frames
              /\ frame = "announce" => ftpShown[w] = {} /\ t.session # w.session
              /\ frame # "command" /\ t # w => Ftp!Key2(w) # Ftp!Key2(t)
              /\ ~(Ftp!Entries(ftpNewer'[t]) >= FtpPendingPoolSize)
           \/ /\ t = w /\ frame = "announce" /\ ftpShown[t] = {}
              /\ \A u \in ftpTransfers : u # t /\ ftpShown[u] # {} => Ftp!Key1(t) # Ftp!Key1(u)
  BY DEF Ftp!Noted, Ftp!SameListener, Ftp!SamePorts

LEMMA SureStarts == FilesInit => SureInv
  <1> SUFFICES ASSUME FilesInit PROVE SureEnv /\ ftpSure = {}
    BY DEF SureInv
  <1>1. /\ ftp = [sessionList |-> << >>, pendingList |-> << >>, sessions |-> << >>,
                  pending |-> << >>, assemblers |-> << >>]
        /\ ftpShown = [t \in ftpTransfers |-> {}] /\ ftpNewer = [t \in ftpTransfers |-> {}]
        /\ ftpSure = {}
    BY DEF FilesInit, Ftp!Init
  <1>2. /\ IsList(<< >>) /\ KeysOf(<< >>) = {} /\ \A e \in EntriesOf(<< >>) : FALSE
    BY DEF IsList, OneEntryPerKey, EntriesOf, KeysOf
  <1>3. << >> \in Seq({}) /\ Len(<< >>) = 0
    OBVIOUS
  <1>4. FtpShape(ftp)
    BY <1>1, <1>2, <1>3 DEF FtpShape, FtpListed
  <1>5. FtpKnown(ftp, ftpShown)
    BY <1>1, <1>2, <1>3 DEF FtpKnown
  <1> QED BY <1>1, <1>4, <1>5 DEF SureEnv

\* A frame that the handler sees.
LEMMA SureSeen ==
    ASSUME FtpEnv, SureEnv, FewSessions, NEW w \in ftpTransfers, NEW frame \in Ftp!Frames,
           FrameStep(w, frame),
           \A t \in ftpTransfers : ftpShown'[t] = IF t = w THEN ftpShown[w] \cup {frame} ELSE ftpShown[t],
           ftp' = Ftp!TryExtractData(w, frame), Ftp!Noted(w, frame),
           \A u \in ftpSure : Ftp!IsFile(u) => IsSure(u)
    PROVE  SureEnv' /\ \A t \in ftpSure' : Ftp!IsFile(t) => IsSure(t)'
  <1> DEFINE r == Ftp!TryExtractData(w, frame)
  <1>1. /\ ftpTransfers' = ftpTransfers /\ ftpNewer' = Ftp!Newer(w, frame)
        /\ ftpTransfers \in FtpCaptures
    BY DEF FrameStep, FtpEnv
  <1>2. /\ FtpShape(ftp) /\ FtpKnown(ftp, ftpShown)
        /\ \A t \in ftpTransfers : ftpShown[t] \subseteq Ftp!Frames /\ ftpNewer[t] \subseteq ftpTransfers
    BY DEF SureEnv
  <1>3. /\ ftpShown'[w] = ftpShown[w] \cup {frame}
        /\ \A t \in ftpTransfers : t # w => ftpShown'[t] = ftpShown[t]
        /\ \A t \in ftpTransfers : ftpShown[t] \subseteq ftpShown'[t] /\ ftpShown'[t] \subseteq Ftp!Frames
    BY <1>2 DEF FtpEnv
  <1>4. \A t \in ftpTransfers : ftpNewer'[t] \subseteq ftpTransfers
                             /\ (frame # "command" /\ t # w => w \in ftpNewer'[t])
    BY <1>1, <1>2 DEF Ftp!Newer
  <1>5. PICK sh : sh = ftpShown'
    OBVIOUS
  <1>6. FtpKnown(ftp, sh) /\ w \in Begun(sh) /\ (frame = "connect" => "connect" \in sh[w])
    <2>1. \A t \in ftpTransfers : ftpShown[t] \subseteq sh[t]
      BY <1>3, <1>5
    <2>2. FtpKnown(ftp, sh)
      BY <1>2, <2>1, KnownMore
    <2> QED BY <1>3, <1>5, <2>2 DEF Begun
  <1>7. frame # "connect" => /\ FtpShape(r) /\ FtpKnown(r, sh)
                             /\ \E k, m, d : Spoken(w, frame, k, m, d, r)
    BY <1>2, <1>6, Speaks
  <1>8. frame = "connect" => /\ FtpShape(r) /\ FtpKnown(r, sh)
                             /\ \E m, z : Joined(w, m, z, r)
    BY <1>1, <1>2, <1>6, Joins
  <1>9. ftp' = r
    OBVIOUS
  <1> HIDE DEF r
  <1>10. FtpShape(ftp') /\ FtpKnown(ftp, ftpShown)'
    <2>1. FtpShape(r) /\ FtpKnown(r, sh)
      BY <1>7, <1>8
    <2> QED BY <1>1, <1>5, <1>9, <2>1 DEF FtpKnown, Begun
  <1>11. frame = "announce" => ftpShown[w] # {} \/ Ftp!Key1(w) \notin KeysOf(ftp.pendingList) \/ Shares(w)
    BY <1>1, <1>2, ListedShares
  <1>12. ASSUME NEW t \in ftpSure', Ftp!IsFile(t)
         PROVE  IsSure(t)'
    <2>1. PICK N : N = ftpNewer'[t]
      OBVIOUS
    <2>2. PICK now : now = ftpShown'[t]
      OBVIOUS
    <2>3. PICK turn : turn = ftpTurn'[t.session]
      OBVIOUS
    <2>4. t \in ftpTransfers
      BY NotedFacts, <1>1 DEF SureEnv
    <2> SUFFICES IF now = Ftp!Frames THEN Settled(r, t) /\ (t.turn = turn => Idle(r, t))
                 ELSE t.turn = turn => Waits(r, t, now, N)
      <3>1. Settled(ftp, t)' <=> Settled(r, t)
        BY <1>9 DEF Settled, NotSought, AssemblersOf
      <3>2. Idle(ftp, t)' <=> Idle(r, t)
        BY <1>9 DEF Idle
      <3>3. Waits(ftp, t, ftpShown[t], ftpNewer[t])' <=> Waits(r, t, now, N)
        BY <1>1, <1>9, <2>1, <2>2 DEF Waits, Follows, Within, DueTo, Shares
      <3> QED BY <2>2, <2>3, <3>1, <3>2, <3>3 DEF IsSure
    <2>5. t # w => /\ t.session = w.session => t.turn # turn
                   /\ t.session # w.session => turn = ftpTurn[t.session]
                   /\ now = ftpShown[t] /\ ftpNewer[t] \subseteq N
      BY <2>1, <2>2, <2>3, <2>4, FrameOf
    <2>6. t = w => now = ftpShown[t] \cup {frame} /\ turn = t.turn
                   /\ (frame # "announce" => t.turn = ftpTurn[t.session])
      BY <1>3, <2>2, <2>3 DEF FrameStep, Present
    <2>7. CASE /\ t \in ftpSure /\ ftpShown[t] = Ftp!Frames
               /\ ~(frame = "announce" /\ ftpShown[w] # {} /\ t = w)
      <3>1. Settled(ftp, t) /\ (t.turn = ftpTurn[t.session] => Idle(ftp, t))
        BY <1>12, <2>7 DEF IsSure
      <3>2. now = Ftp!Frames
        BY <2>5, <2>6, <2>7
      <3>3. t = w => frame # "announce" /\ Idle(ftp, t)
        <4>1. Ftp!Frames # {}
          BY DEF Ftp!Frames
        <4> QED BY <2>6, <2>7, <3>1, <4>1
      <3>4. t.turn = turn => Idle(ftp, t) /\ (frame = "announce" => t.session # w.session)
        BY <2>5, <3>1, <3>3
      <3>5. CASE frame # "connect"
        <4>1. \E k, m, d : Spoken(w, frame, k, m, d, r)
          BY <1>7, <3>5
        <4>2. /\ Settled(r, t)
              /\ Idle(ftp, t) /\ (frame = "announce" => t.session # w.session) => Idle(r, t)
          BY <1>2, <3>1, <3>3, <4>1, SpeakingSettles
        <4> QED BY <3>2, <3>4, <4>2
      <3>6. CASE frame = "connect"
        <4>1. \E m, z : Joined(w, m, z, r)
          BY <1>8, <3>6
        <4>2. Settled(r, t) /\ (Idle(ftp, t) => Idle(r, t))
          BY <1>2, <3>1, <4>1, JoiningSettles
        <4> QED BY <3>2, <3>4, <4>2
      <3> QED BY <3>5, <3>6
    <2>8. CASE /\ t \in ftpSure /\ ftpShown[t] # Ftp!Frames
               /\ frame = "announce" => ftpShown[w] = {} /\ t.session # w.session
               /\ frame # "command" /\ t # w => Ftp!Key2(w) # Ftp!Key2(t)
               /\ ~(Ftp!Entries(N) >= FtpPendingPoolSize)
      <3>1. t.turn = ftpTurn[t.session] => Waits(ftp, t, ftpShown[t], ftpNewer[t])
        BY <1>12, <2>8 DEF IsSure
      <3>2. "announce" \in ftpShown[t] /\ ftpShown[t] \subseteq {"announce", "command", "connect"}
            /\ Ftp!Frames = {"announce", "command", "connect"}
        BY <1>2, <2>4, <2>8 DEF SureEnv, Ftp!Frames
      <3>3. CASE t # w
        <4>1. now = ftpShown[t] /\ now # Ftp!Frames
          BY <2>5, <2>8, <3>3
        <4>2. ASSUME t.turn = turn PROVE Waits(r, t, now, N)
          <5>1. t.session # w.session /\ Waits(ftp, t, now, ftpNewer[t]) /\ ftpNewer[t] \subseteq N
            BY <2>5, <3>1, <3>3, <4>1, <4>2
          <5>2. ~({"command", "connect"} \subseteq now)
            BY <3>2, <4>1
          <5>3. N \in SUBSET ftpTransfers /\ (frame # "command" => w \in N)
            BY <1>4, <2>1, <2>4, <3>3
          <5>4. IsFiniteSet(N) /\ Ftp!Entries(N) < FtpPendingPoolSize
            <6>1. IsFiniteSet(N) /\ Ftp!Entries(N) \in Nat
              BY <1>1, <5>3, SubsetsCount
            <6> QED BY <2>8, <6>1, PoolSizesAssumption
          <5>5. CASE frame # "connect"
            <6>1. \E k, m, d : Spoken(w, frame, k, m, d, r)
              BY <1>7, <5>5
            <6>2. frame = "announce" => /\ w \in N /\ Ftp!Key2(w) # Ftp!Key2(t)
                                        /\ Ftp!Key1(w) \notin KeysOf(ftp.pendingList) \/ Shares(w)
                                        /\ Ftp!Entries(N) < FtpPendingPoolSize
              BY <1>11, <2>8, <3>3, <5>3, <5>4
            <6> QED BY <1>1, <1>2, <2>4, <5>1, <5>2, <5>3, <5>4, <5>5, <6>1, <6>2, SpeakingKeeps
          <5>6. CASE frame = "connect"
            <6>1. \E m, z : Joined(w, m, z, r)
              BY <1>8, <5>6
            <6>2. Ftp!Key2(w) # Ftp!Key2(t) /\ w \in N
              BY <2>8, <3>3, <5>3, <5>6
            <6> QED BY <1>1, <1>2, <2>4, <5>1, <5>2, <5>3, <5>4, <6>1, <6>2, JoiningKeeps
          <5> QED BY <5>5, <5>6
        <4> QED BY <4>1, <4>2
      <3>4. CASE t = w
        <4>1. frame # "announce"
          BY <2>8, <3>2, <3>4
        <4>2. Waits(ftp, t, ftpShown[t], ftpNewer[t]) /\ now = ftpShown[t] \cup {frame}
          BY <2>6, <3>1, <3>4, <4>1
        <4>3. CASE frame = "command"
          <5>1. \E k, m, d : Spoken(t, "command", k, m, d, r)
            BY <1>7, <3>4, <4>3
          <5>2. IF "connect" \in ftpShown[t] THEN Settled(r, t) /\ Idle(r, t)
                ELSE Waits(r, t, ftpShown[t] \cup {"command"}, ftpNewer[t])
            BY <1>1, <1>2, <1>12, <2>4, <4>2, <5>1, CommandAdds
          <5>3. N = ftpNewer[t]
            BY <1>1, <2>1, <2>4, <4>3 DEF Ftp!Newer
          <5>4. now = Ftp!Frames <=> "connect" \in ftpShown[t]
            BY <3>2, <4>2, <4>3
          <5> QED BY <4>2, <4>3, <5>2, <5>3, <5>4
        <4>4. CASE frame = "connect"
          <5>1. \E m, z : Joined(t, m, z, r)
            BY <1>8, <3>4, <4>4
          <5>2. IF "command" \in ftpShown[t] THEN Settled(r, t) /\ Idle(r, t)
                ELSE Waits(r, t, ftpShown[t] \cup {"connect"}, N)
            BY <1>1, <1>2, <2>4, <4>2, <5>1, ConnectionAdds
          <5>3. now = Ftp!Frames <=> "command" \in ftpShown[t]
            BY <3>2, <4>2, <4>4
          <5> QED BY <4>2, <4>4, <5>2, <5>3
        <4> QED BY <3>2, <4>1, <4>3, <4>4 DEF Ftp!Frames
      <3> QED BY <3>3, <3>4
    <2>9. CASE /\ t = w /\ frame = "announce" /\ ftpShown[t] = {}
               /\ \A u \in ftpTransfers : u # t /\ ftpShown[u] # {} => Ftp!Key1(t) # Ftp!Key1(u)
      <3>1. now = {"announce"} /\ now # Ftp!Frames
        BY <2>6, <2>9 DEF Ftp!Frames
      <3>2. \E k, m, d : Spoken(t, "announce", k, m, d, r)
        BY <1>7, <2>9
      <3>3. ASSUME NEW j \in 1..Len(ftp.pending)
            PROVE  /\ Ftp!Key(ftp.pending[j]) # Ftp!Key1(t)
                   /\ ftp.pending[j].toClient # -1 => ftp.pending[j].file # t
        <4>1. ftp.pending[j].toClient # -1 => ftp.pending[j].file # t
          BY <1>2, <2>9 DEF FtpKnown, Begun
        <4>2. ASSUME Ftp!Key(ftp.pending[j]) = Ftp!Key1(t) PROVE FALSE
          <5>1. ftp.pending[j].clientPort # -1
            BY <1>1, <2>4, <4>2, KeysApart
          <5>2. PICK u \in ftpTransfers : "connect" \in ftpShown[u] /\ Ftp!Key1(t) = Ftp!Key1(u)
            BY <1>2, <4>2, <5>1 DEF FtpKnown
          <5> QED BY <2>9, <5>2
        <4> QED BY <4>1, <4>2
      <3>4. \A j \in 1..Len(ftp.assemblers) : ftp.assemblers[j].file # t
        BY <1>2, <2>9 DEF FtpKnown, Begun
      <3>5. Waits(r, t, now, N)
        BY <1>1, <1>2, <2>4, <3>1, <3>2, <3>3, <3>4, AnnouncementBegins
      <3> QED BY <3>1, <3>5
    <2> QED BY <1>1, <2>1, <2>7, <2>8, <2>9, NotedFacts
  <1>13. ftpSure' \subseteq ftpTransfers /\ \A t \in ftpSure' : "announce" \in ftpShown'[t]
    <2>1. \A t \in ftpSure' : t \in ftpSure \/ (t = w /\ frame = "announce")
      BY <1>1, NotedFacts
    <2> QED BY <1>3, <2>1 DEF SureEnv
  <1> QED BY <1>1, <1>3, <1>4, <1>10, <1>12, <1>13 DEF SureEnv

\* A frame that the handler does not see.
LEMMA SureUnseen ==
    ASSUME FtpEnv, SureEnv, NEW w \in ftpTransfers, NEW frame \in Ftp!Frames,
           FrameStep(w, frame),
           \A t \in ftpTransfers : ftpShown'[t] = IF t = w THEN ftpShown[w] \cup {frame} ELSE ftpShown[t],
           ftp' = ftp, ftpSure' = ftpSure \ {w}, \A u \in ftpSure : Ftp!IsFile(u) => IsSure(u)
    PROVE  SureEnv' /\ \A t \in ftpSure' : Ftp!IsFile(t) => IsSure(t)'
  <1>1. /\ ftpTransfers' = ftpTransfers /\ ftpNewer' = Ftp!Newer(w, frame)
    BY DEF FrameStep
  <1>2. /\ FtpShape(ftp) /\ FtpKnown(ftp, ftpShown) /\ ftpSure \subseteq ftpTransfers
        /\ \A t \in ftpTransfers : ftpShown[t] \subseteq Ftp!Frames /\ ftpNewer[t] \subseteq ftpTransfers
    BY DEF SureEnv
  <1>3. /\ \A t \in ftpTransfers : t # w => ftpShown'[t] = ftpShown[t]
        /\ \A t \in ftpTransfers : ftpShown[t] \subseteq ftpShown'[t] /\ ftpShown'[t] \subseteq Ftp!Frames
    BY <1>2 DEF FtpEnv
  <1>4. \A t \in ftpTransfers : ftpNewer'[t] \subseteq ftpTransfers
    BY <1>1, <1>2 DEF Ftp!Newer
  <1>5. FtpShape(ftp)' /\ FtpKnown(ftp, ftpShown)'
    <2>1. PICK sh : sh = ftpShown'
      OBVIOUS
    <2>2. \A t \in ftpTransfers : ftpShown[t] \subseteq sh[t]
      BY <1>3, <2>1
    <2>3. FtpKnown(ftp, sh)
      BY <1>2, <2>2, KnownMore
    <2> QED BY <1>1, <1>2, <2>1, <2>3 DEF FtpShape, FtpListed, FtpKnown, Begun
  <1>6. ASSUME NEW t \in ftpSure', Ftp!IsFile(t)
        PROVE  IsSure(t)'
    <2>1. t \in ftpSure /\ t \in ftpTransfers /\ t # w
      BY <1>2
    <2>2. /\ t.session = w.session => t.turn # ftpTurn'[t.session]
          /\ t.session # w.session => ftpTurn'[t.session] = ftpTurn[t.session]
          /\ ftpShown'[t] = ftpShown[t] /\ ftpNewer[t] \subseteq ftpNewer'[t]
      BY <2>1, FrameOf
    <2>3. IsSure(t)
      BY <1>6, <2>1
    <2>4. Settled(ftp, t)' <=> Settled(ftp, t)
      BY DEF Settled, NotSought, AssemblersOf
    <2>5. Idle(ftp, t)' <=> Idle(ftp, t)
      BY DEF Idle
    <2>6. PICK N : N = ftpNewer'[t]
      OBVIOUS
    <2>7. Waits(ftp, t, ftpShown[t], ftpNewer[t])' <=> Waits(ftp, t, ftpShown[t], N)
      BY <1>1, <2>2, <2>6 DEF Waits, Follows, Within, DueTo, Shares
    <2>8. Waits(ftp, t, ftpShown[t], ftpNewer[t]) => Waits(ftp, t, ftpShown[t], N)
      BY <2>2, <2>6, WithinMore DEF Waits
    <2> QED BY <2>2, <2>3, <2>4, <2>5, <2>7, <2>8 DEF IsSure
  <1>7. ftpSure' \subseteq ftpTransfers /\ \A t \in ftpSure' : "announce" \in ftpShown'[t]
    BY <1>2, <1>3 DEF SureEnv
  <1> QED BY <1>1, <1>3, <1>4, <1>5, <1>6, <1>7 DEF SureEnv

\* A reset.
LEMMA SureForgotten ==
    ASSUME SureEnv, UNCHANGED <<ftpTransfers, ftpTurn, ftpShown, ftpNewer>>,
           ftp' = [ftp EXCEPT !.sessionList = << >>, !.pendingList = << >>],
           ftpSure' = {t \in ftpSure : ftpShown[t] = Ftp!Frames},
           \A u \in ftpSure : Ftp!IsFile(u) => IsSure(u)
    PROVE  SureEnv' /\ \A t \in ftpSure' : Ftp!IsFile(t) => IsSure(t)'
  <1>1. PICK r : r = ftp'
    OBVIOUS
  <1>2. /\ DOMAIN r = DOMAIN ftp /\ r.sessionList = << >> /\ r.pendingList = << >>
        /\ r.sessions = ftp.sessions /\ r.pending = ftp.pending /\ r.assemblers = ftp.assemblers
    BY <1>1 DEF SureEnv, FtpShape
  <1>3. /\ IsList(<< >>) /\ KeysOf(<< >>) = {} /\ \A e \in EntriesOf(<< >>) : FALSE
    BY DEF IsList, OneEntryPerKey, EntriesOf, KeysOf
  <1>4. FtpShape(r) /\ FtpKnown(r, ftpShown)
    BY <1>2, <1>3 DEF SureEnv, FtpShape, FtpListed, FtpKnown
  <1>5. SureEnv'
    <2>1. FtpShape(ftp)' /\ FtpKnown(ftp, ftpShown)'
      BY <1>1, <1>4 DEF FtpShape, FtpListed, FtpKnown, Begun
    <2> QED BY <2>1 DEF SureEnv
  <1>6. ASSUME NEW t \in ftpSure', Ftp!IsFile(t) PROVE IsSure(t)'
    <2>1. ftpShown[t] = Ftp!Frames /\ IsSure(t)
      BY <1>6
    <2>2. Settled(ftp, t)
      BY <2>1 DEF IsSure
    <2>3. Settled(ftp, t)'
      BY <1>1, <1>2, <2>2 DEF Settled, NotSought, AssemblersOf
    <2>4. Idle(ftp, t)'
      BY <1>1, <1>2, <1>3 DEF Idle
    <2> QED BY <2>1, <2>3, <2>4 DEF IsSure
  <1> QED BY <1>5, <1>6

LEMMA SurePreserved ==
    FtpInv /\ SureInv /\ [FilesNext]_<<protocol, smbVars, ftpVars>> => SureInv'
  <1> SUFFICES ASSUME FtpEnv, SureInv, [FilesNext]_<<protocol, smbVars, ftpVars>>, FewSessions'
               PROVE  SureEnv' /\ \A t \in ftpSure' : Ftp!IsFile(t) => IsSure(t)'
    BY DEF SureInv, FtpInv
  <1>0. ASSUME ftpTransfers' = ftpTransfers
        PROVE  FewSessions /\ SureEnv /\ \A u \in ftpSure : Ftp!IsFile(u) => IsSure(u)
    BY <1>0 DEF SureInv, FewSessions, Ftp!SessionsOf
  <1>1. ASSUME UNCHANGED ftpVars
        PROVE  SureEnv' /\ \A t \in ftpSure' : Ftp!IsFile(t) => IsSure(t)'
    <2>1. /\ ftp' = ftp /\ ftpTransfers' = ftpTransfers /\ ftpTurn' = ftpTurn /\ ftpShown' = ftpShown
          /\ ftpSure' = ftpSure /\ ftpNewer' = ftpNewer
      BY <1>1 DEF ftpVars
    <2>2. SureEnv'
      BY <1>0, <2>1 DEF SureEnv, FtpShape, FtpListed, FtpKnown, Begun, Ftp!SessionsOf
    <2>3. ASSUME NEW t \in ftpSure, IsSure(t) PROVE IsSure(t)'
      <3>1. Settled(ftp, t)' <=> Settled(ftp, t)
        BY <2>1 DEF Settled, NotSought, AssemblersOf
      <3>2. Idle(ftp, t)' <=> Idle(ftp, t)
        BY <2>1 DEF Idle
      <3>3. Waits(ftp, t, ftpShown[t], ftpNewer[t])' <=> Waits(ftp, t, ftpShown[t], ftpNewer[t])
        BY <2>1 DEF Waits, Follows, Within, DueTo, Shares
      <3> QED BY <2>1, <2>3, <3>1, <3>2, <3>3 DEF IsSure
    <2> QED BY <1>0, <2>1, <2>2, <2>3
  <1>2. ASSUME NEW w \in ftpTransfers, NEW frame \in Ftp!Frames,
               Ftp!Captured(w, frame) \/ Ftp!Repeated(w, frame)
        PROVE  SureEnv' /\ \A t \in ftpSure' : Ftp!IsFile(t) => IsSure(t)'
    <2>1. ftp' = Ftp!TryExtractData(w, frame) /\ Ftp!Noted(w, frame)
      BY <1>2 DEF Ftp!Captured, Ftp!Repeated
    <2>2. FrameStep(w, frame)
      BY <1>2, SentFrame, RepeatedFrame DEF Ftp!Captured
    <2>3. \A t \in ftpTransfers :
             ftpShown'[t] = IF t = w THEN ftpShown[w] \cup {frame} ELSE ftpShown[t]
      <3>1. CASE Ftp!Captured(w, frame)
        BY <3>1 DEF Ftp!Captured, Ftp!Sent, FtpEnv
      <3>2. CASE Ftp!Repeated(w, frame)
        BY <3>2 DEF Ftp!Repeated
      <3> QED BY <1>2, <3>1, <3>2
    <2>4. FewSessions /\ SureEnv /\ \A u \in ftpSure : Ftp!IsFile(u) => IsSure(u)
      BY <1>0, <2>2 DEF FrameStep
    <2> QED BY <2>1, <2>2, <2>3, <2>4, SureSeen
  <1>3. ASSUME NEW w \in ftpTransfers, NEW frame \in Ftp!Frames, Ftp!Missed(w, frame)
        PROVE  SureEnv' /\ \A t \in ftpSure' : Ftp!IsFile(t) => IsSure(t)'
    <2>1. /\ Ftp!Sent(w, frame) /\ ftp' = ftp /\ ftpSure' = ftpSure \ {w}
          /\ \A t \in ftpTransfers :
                ftpShown'[t] = IF t = w THEN ftpShown[w] \cup {frame} ELSE ftpShown[t]
      BY <1>3 DEF Ftp!Missed, Ftp!Sent, FtpEnv
    <2>2. FrameStep(w, frame)
      BY <2>1, SentFrame
    <2>3. SureEnv /\ \A u \in ftpSure : Ftp!IsFile(u) => IsSure(u)
      BY <1>0, <2>2 DEF FrameStep
    <2> QED BY <2>1, <2>2, <2>3, SureUnseen
  <1>4. ASSUME Ftp!Reset
        PROVE  SureEnv' /\ \A t \in ftpSure' : Ftp!IsFile(t) => IsSure(t)'
    <2>1. /\ ftp' = [ftp EXCEPT !.sessionList = << >>, !.pendingList = << >>]
          /\ UNCHANGED <<ftpTransfers, ftpTurn, ftpShown, ftpNewer>>
          /\ ftpSure' = {t \in ftpSure : ftpShown[t] = Ftp!Frames}
      BY <1>4 DEF Ftp!Reset
    <2>2. SureEnv /\ \A u \in ftpSure : Ftp!IsFile(u) => IsSure(u)
      BY <1>0, <2>1
    <2> QED BY <2>1, <2>2, SureForgotten
  <1>5. CASE FilesNext
    <2>1. CASE Ftp!Next
      BY <1>2, <1>3, <1>4, <2>1 DEF Ftp!Next
    <2>2. Ftp!Next \/ UNCHANGED ftpVars
      BY <1>5 DEF FilesNext
    <2> QED BY <1>1, <2>1, <2>2
  <1>6. CASE UNCHANGED <<protocol, smbVars, ftpVars>>
    BY <1>1, <1>6
  <1> QED BY <1>5, <1>6

LEMMA SureAssembled == FtpInv /\ SureInv => CompleteTransferIsAssembled
  <1> SUFFICES ASSUME FtpEnv, SureInv,
                      Ftp!Cardinality(Ftp!SessionsOf(ftpTransfers)) <= FtpSessionPoolSize,
                      NEW t \in ftpSure, ftpShown[t] = Ftp!Frames, Ftp!IsFile(t)
               PROVE  Ftp!Cardinality(Ftp!Assemblers(t)) = 1
    BY DEF CompleteTransferIsAssembled, Ftp!CompleteTransferIsAssembled, FtpInv
  <1>1. IsFiniteSet(Ftp!SessionsOf(ftpTransfers))
    <2>1. IsFiniteSet(ftpTransfers)
      BY FtpCapturesAssumption DEF FtpEnv
    <2> DEFINE f == [u \in ftpTransfers |-> u.session]
               S == Ftp!SessionsOf(ftpTransfers)
    <2>2. f \in Surjection(ftpTransfers, S)
      BY DEF Surjection, Ftp!SessionsOf
    <2> HIDE DEF f, S
    <2>3. IsFiniteSet(S)
      BY <2>1, <2>2, FS_Surjection
    <2> QED BY <2>3 DEF S
  <1>2. FewSessions
    BY <1>1, FtpCardinality DEF FewSessions, FtpEnv
  <1>3. FtpShape(ftp) /\ Settled(ftp, t)
    BY <1>2 DEF SureInv, SureEnv, IsSure
  <1>4. DOMAIN ftp.assemblers = 1..Len(ftp.assemblers)
    BY <1>3 DEF FtpShape
  <1>5. Ftp!Assemblers(t) = AssemblersOf(ftp, t)
    BY <1>4 DEF Ftp!Assemblers, AssemblersOf
  <1> QED BY <1>3, <1>5, FtpCardinality DEF Settled

\* However the frames of sessions interleave, and whatever is missed, repeated or
\* forgotten: a file's transfer whose three frames were seen and that nothing
\* disturbed, as the history says, has exactly one assembler, whichever of its command
\* and connection came first.
THEOREM CompleteTransfersAreAssembled == FilesSpec => []CompleteTransferIsAssembled
  <1>1. FilesInit => FtpInv /\ SureInv
    BY FtpStarts, SureStarts
  <1>2. (FtpInv /\ SureInv) /\ [FilesNext]_<<protocol, smbVars, ftpVars>> => (FtpInv /\ SureInv)'
    BY FtpPreserved, SurePreserved
  <1>3. FtpInv /\ SureInv => CompleteTransferIsAssembled
    BY SureAssembled
  <1> QED BY <1>1, <1>2, <1>3, PTL DEF FilesSpec
=============================================================================

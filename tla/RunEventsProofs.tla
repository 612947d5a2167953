----------------------------- MODULE RunEventsProofs -----------------------------
(***************************************************************************)
(* Proofs about RunEvents, for any number of writers and stamps.           *)
(*                                                                         *)
(* What makes the cursor safe for the events of transactions that hold the *)
(* run: while one holds it nothing else can commit, so its stamp is later  *)
(* than everything that was ever committed, and so than any cursor.        *)
(***************************************************************************)
EXTENDS RunEvents, TLAPS, SequenceTheorems

\* Stamps are given once, and not beyond the clock.
StampsAreGiven ==
  /\ \A e \in events : e.at <= clock
  /\ \A w \in Writers : txn[w] # NoTxn => txn[w].at <= clock

StampsDiffer ==
  /\ \A e, f \in events : e.at = f.at => e = f
  /\ \A w \in Writers, e \in events : txn[w] # NoTxn => e.at # txn[w].at
  /\ \A v, w \in Writers :
       v # w /\ txn[v] # NoTxn /\ txn[w] # NoTxn /\ txn[v].at = txn[w].at => txn[v].at = 0

\* A transaction that works on the run is stamped while it holds it, not before.
HeldIsStamped ==
  /\ \A w \in Writers : Holds(w) => txn[w].at # 0
  /\ \A w \in Writers :
       txn[w] # NoTxn /\ ~ txn[w].held /\ Locking(txn[w].kind) => txn[w].at = 0

\* A transaction that holds the run for update is later than what is committed.
HolderIsLatest ==
  \A w \in Writers, e \in events :
    Holds(w) /\ Locking(txn[w].kind) => e.at < txn[w].at

WriterInv == TypeOK /\ StampsAreGiven /\ StampsDiffer /\ HeldIsStamped /\ HolderIsLatest

\* What was fetched is committed, after the cursor, and complete up to its end.
FetchedIsNext ==
  /\ stream.fetched \subseteq events
  /\ \A e \in stream.fetched : e.at > Cursor
  /\ \A e \in events, f \in stream.fetched :
       Locking(e.kind) /\ Cursor < e.at /\ e.at <= f.at => e \in stream.fetched

GotIsCommitted == \A i \in DOMAIN got : got[i] \in events

StreamInv == GotIsCommitted /\ InOrderOnce /\ FetchedIsNext /\ NothingOvertaken

IInv == WriterInv /\ StreamInv

-------------------------------------------------------------------------------
(* The writers.                                                            *)

LEMMA TxnTyped ==
  ASSUME TypeOK, NEW w \in Writers, txn[w] # NoTxn
  PROVE  /\ txn[w].kind \in Kinds
         /\ txn[w].at \in 0 .. MaxStamp
         /\ txn[w].held \in BOOLEAN
         /\ txn[w] = [kind |-> txn[w].kind, at |-> txn[w].at, held |-> txn[w].held]
BY DEF TypeOK, Txns

LEMMA WriterInitially == Init => WriterInv
<1> SUFFICES ASSUME Init PROVE WriterInv
  OBVIOUS
<1>1. TypeOK
  BY StampAssumption DEF Init, TypeOK, Settled, Holds
<1>2. StampsAreGiven /\ StampsDiffer
  BY DEF Init, StampsAreGiven, StampsDiffer
<1>3. HeldIsStamped /\ HolderIsLatest
  BY DEF Init, HeldIsStamped, HolderIsLatest, Holds
<1> QED
  BY <1>1, <1>2, <1>3 DEF WriterInv

\* Types and stamps are about the writers' variables; the stream keeps them.
LEMMA BeginKeeps ==
  ASSUME WriterInv, NEW w \in Writers, NEW kind \in Kinds, Begin(w, kind)
  PROVE  WriterInv'
<1> DEFINE at == IF StampsFirst(kind) THEN clock + 1 ELSE 0
           opened == [kind |-> kind, at |-> at, held |-> FALSE]
<1>1. clock \in 0 .. MaxStamp - 1 /\ clock' \in 0 .. MaxStamp /\ clock <= clock'
  BY StampAssumption DEF Begin, WriterInv, TypeOK
<1>2. at \in 0 .. MaxStamp /\ at <= clock' /\ (at = 0 \/ at > clock)
  BY <1>1, StampAssumption DEF Begin
<1>3. txn' = [txn EXCEPT ![w] = opened] /\ txn[w] = NoTxn
  BY DEF Begin
<1>4. opened \in Txns
  BY <1>2 DEF Txns
<1>5. opened.at = at /\ opened.kind = kind /\ opened.held = FALSE /\ opened # NoTxn
  BY <1>4, NullAssumption
<1>6. /\ txn \in [Writers -> Txns \cup {NoTxn}]
      /\ txn'[w] = opened
      /\ \A v \in Writers \ {w} : txn'[v] = txn[v]
  BY <1>3 DEF WriterInv, TypeOK
<1>7. events' = events /\ events \subseteq Events /\ run' = run /\ stream' = stream /\ got' = got
  BY DEF Begin, WriterInv, TypeOK
<1> HIDE DEF at, opened
<1>8. \A v \in Writers : Holds(v)' => v # w /\ Holds(v)
  BY <1>5, <1>6 DEF Holds
<1>9. TypeOK'
  <2>1. txn' \in [Writers -> Txns \cup {NoTxn}]
    BY <1>3, <1>4, <1>6
  <2>2. \A v, u \in Writers : v # u /\ Holds(v)' /\ Holds(u)' =>
          ~ Locking(txn'[v].kind) /\ ~ Locking(txn'[u].kind)
    BY <1>6, <1>8 DEF WriterInv, TypeOK
  <2> QED
    BY <1>1, <1>7, <2>1, <2>2 DEF WriterInv, TypeOK, Holds, Locking
<1>10. StampsAreGiven'
  BY <1>1, <1>2, <1>5, <1>6, <1>7 DEF WriterInv, StampsAreGiven, TypeOK, Events, Txns, Stamps
<1>11. StampsDiffer'
  <2>1. \A e \in events : e.at \in Stamps /\ e.at <= clock
    BY DEF WriterInv, TypeOK, Events, StampsAreGiven
  <2>2. \A v \in Writers : txn[v] # NoTxn => txn[v].at \in 0 .. MaxStamp /\ txn[v].at <= clock
    BY TxnTyped DEF WriterInv, StampsAreGiven
  <2>3. \A e \in events : e.at # at
    BY <1>1, <1>2, <2>1 DEF Stamps
  <2>4. \A v \in Writers : txn[v] # NoTxn /\ txn[v].at = at => at = 0
    BY <1>1, <1>2, <2>2
  <2> QED
    BY <1>5, <1>6, <1>7, <2>3, <2>4 DEF WriterInv, StampsDiffer
<1>12. Locking(kind) => at = 0
  BY DEF StampsFirst, at
<1>13. HeldIsStamped'
  BY <1>5, <1>6, <1>8, <1>12 DEF WriterInv, HeldIsStamped, Holds
<1>14. HolderIsLatest'
  BY <1>6, <1>7, <1>8 DEF WriterInv, HolderIsLatest, Holds
<1> QED
  BY <1>9, <1>10, <1>11, <1>13, <1>14 DEF WriterInv

LEMMA AcquireKeeps ==
  ASSUME WriterInv, NEW w \in Writers, Acquire(w)
  PROVE  WriterInv'
<1> DEFINE at == IF txn[w].at # 0 THEN txn[w].at ELSE clock + 1
           held == [kind |-> txn[w].kind, at |-> at, held |-> TRUE]
<1>1. txn[w] # NoTxn /\ Compatible(w)
  BY DEF Acquire
<1>2. txn[w].kind \in Kinds /\ txn[w].at \in 0 .. MaxStamp /\ txn[w].at <= clock
  BY <1>1, TxnTyped DEF WriterInv, StampsAreGiven
<1>3. clock \in 0 .. MaxStamp /\ clock' \in 0 .. MaxStamp /\ clock <= clock'
  BY StampAssumption DEF Acquire, WriterInv, TypeOK
<1>4. at \in 1 .. MaxStamp /\ at <= clock' /\ (at = txn[w].at \/ at > clock)
  BY <1>2, <1>3, StampAssumption DEF Acquire
<1>5. txn' = [txn EXCEPT ![w] = held]
  BY DEF Acquire
<1>6. held \in Txns
  BY <1>2, <1>4 DEF Txns
<1>7. held.at = at /\ held.kind = txn[w].kind /\ held.held = TRUE /\ held # NoTxn
  BY <1>6, NullAssumption
<1>8. /\ txn \in [Writers -> Txns \cup {NoTxn}]
      /\ txn'[w] = held
      /\ \A v \in Writers \ {w} : txn'[v] = txn[v]
  BY <1>5 DEF WriterInv, TypeOK
<1>9. events' = events /\ events \subseteq Events /\ run' = run /\ stream' = stream /\ got' = got
  BY DEF Acquire, WriterInv, TypeOK
<1>10. \A e \in events : e.at \in Stamps /\ e.at <= clock
  BY DEF WriterInv, TypeOK, Events, StampsAreGiven
<1>11. ~ txn[w].held
  BY DEF Acquire
<1>12. Locking(txn[w].kind) => at > clock
  <2>1. Locking(txn[w].kind) => txn[w].at = 0
    BY <1>1, <1>11 DEF WriterInv, HeldIsStamped
  <2> QED
    BY <1>3, <2>1 DEF at
<1> HIDE DEF at, held
<1>13. \A v \in Writers : Holds(v)' <=> v = w \/ Holds(v)
  BY <1>7, <1>8 DEF Holds
<1>14. \A v \in Writers \ {w} : Holds(v) =>
         ~ Locking(txn[v].kind) /\ ~ Locking(txn[w].kind)
  BY <1>1 DEF Compatible
<1>15. TypeOK'
  <2>1. txn' \in [Writers -> Txns \cup {NoTxn}]
    BY <1>5, <1>6, <1>8
  <2>2. \A v, u \in Writers : v # u /\ Holds(v)' /\ Holds(u)' =>
          ~ Locking(txn'[v].kind) /\ ~ Locking(txn'[u].kind)
    BY <1>7, <1>8, <1>13, <1>14 DEF WriterInv, TypeOK
  <2> QED
    BY <1>3, <1>9, <2>1, <2>2 DEF WriterInv, TypeOK, Holds, Locking
<1>16. StampsAreGiven'
  BY <1>3, <1>4, <1>7, <1>8, <1>9, <1>10 DEF WriterInv, StampsAreGiven, TypeOK, Txns, Stamps
<1>17. StampsDiffer'
  <2>1. \A v \in Writers : txn[v] # NoTxn => txn[v].at \in 0 .. MaxStamp /\ txn[v].at <= clock
    BY TxnTyped DEF WriterInv, StampsAreGiven
  <2>2. \A e \in events : e.at # at
    BY <1>1, <1>3, <1>4, <1>10 DEF WriterInv, StampsDiffer, Stamps
  <2>3. \A v \in Writers \ {w} : txn[v] # NoTxn => txn[v].at # at
    BY <1>1, <1>3, <1>4, <2>1 DEF WriterInv, StampsDiffer
  <2> QED
    BY <1>7, <1>8, <1>9, <2>2, <2>3 DEF WriterInv, StampsDiffer
<1>18. HeldIsStamped'
  BY <1>4, <1>7, <1>8, <1>13 DEF WriterInv, HeldIsStamped, Holds
<1>19. HolderIsLatest'
  <2>1. \A e \in events : Locking(txn[w].kind) => e.at < at
    BY <1>3, <1>4, <1>10, <1>12 DEF Stamps
  <2> QED
    BY <1>7, <1>8, <1>9, <1>13, <2>1 DEF WriterInv, HolderIsLatest
<1> QED
  BY <1>15, <1>16, <1>17, <1>18, <1>19 DEF WriterInv

LEMMA CommitKeeps ==
  ASSUME WriterInv, NEW w \in Writers, Commit(w)
  PROVE  WriterInv'
<1> DEFINE new == [at |-> txn[w].at, kind |-> txn[w].kind]
<1>1. Holds(w) /\ txn[w] # NoTxn
  BY DEF Commit, Holds
<1>2. txn[w].kind \in Kinds /\ txn[w].at \in 1 .. MaxStamp /\ txn[w].at <= clock
  <2>1. txn[w].kind \in Kinds /\ txn[w].at \in 0 .. MaxStamp
    BY <1>1, TxnTyped DEF WriterInv
  <2>2. txn[w].at <= clock /\ txn[w].at # 0
    BY <1>1 DEF WriterInv, StampsAreGiven, HeldIsStamped
  <2> QED
    BY <2>1, <2>2, StampAssumption
<1>3. new \in Events /\ new.at = txn[w].at /\ new.kind = txn[w].kind
  BY <1>2 DEF Events, Stamps
<1>4. events' = events \cup {new} /\ clock' = clock /\ stream' = stream /\ got' = got
  BY DEF Commit
<1>5. txn' = [txn EXCEPT ![w] = NoTxn]
  BY DEF Commit
<1>6. /\ txn \in [Writers -> Txns \cup {NoTxn}]
      /\ txn'[w] = NoTxn
      /\ \A v \in Writers \ {w} : txn'[v] = txn[v]
  BY <1>5 DEF WriterInv, TypeOK
<1> HIDE DEF new
<1>7. \A v \in Writers : Holds(v)' => v # w /\ Holds(v)
  BY <1>6 DEF Holds
<1>8. run' \in [status : Settled \cup {"active"}, version : 0 .. MaxStamp]
  <2>1. PICK s \in Outcomes(txn[w].kind) :
          run' = IF txn[w].kind \in {"settles", "reopens"}
                 THEN [status |-> s, version |-> txn[w].at] ELSE run
    BY DEF Commit
  <2>2. CASE txn[w].kind = "settles"
    BY <1>2, <2>1, <2>2 DEF Outcomes
  <2>3. CASE txn[w].kind = "reopens"
    BY <1>2, <2>1, <2>3 DEF Outcomes
  <2>4. CASE txn[w].kind \notin {"settles", "reopens"}
    BY <2>1, <2>4 DEF WriterInv, TypeOK
  <2> QED
    BY <2>2, <2>3, <2>4
<1>9. TypeOK'
  <2>1. txn' \in [Writers -> Txns \cup {NoTxn}]
    BY <1>5, <1>6
  <2>2. \A v, u \in Writers : v # u /\ Holds(v)' /\ Holds(u)' =>
          ~ Locking(txn'[v].kind) /\ ~ Locking(txn'[u].kind)
    BY <1>6, <1>7 DEF WriterInv, TypeOK
  <2> QED
    BY <1>3, <1>4, <1>8, <2>1, <2>2 DEF WriterInv, TypeOK, Holds, Locking
<1>10. StampsAreGiven'
  BY <1>2, <1>3, <1>4, <1>6 DEF WriterInv, StampsAreGiven
<1>11. StampsDiffer'
  <2>1. \A e \in events : e.at # new.at
    BY <1>1, <1>3 DEF WriterInv, StampsDiffer
  <2>2. \A v \in Writers \ {w} : txn[v] # NoTxn => txn[v].at # new.at
    BY <1>1, <1>2, <1>3 DEF WriterInv, StampsDiffer
  <2> QED
    BY <1>4, <1>6, <2>1, <2>2 DEF WriterInv, StampsDiffer
<1>12. HeldIsStamped'
  BY <1>6, <1>7 DEF WriterInv, HeldIsStamped, Holds
<1>13. HolderIsLatest'
  <2>1. \A v \in Writers : Holds(v)' => ~ Locking(txn[v].kind)
    BY <1>1, <1>7 DEF WriterInv, TypeOK
  <2> QED
    BY <1>6, <1>7, <2>1 DEF HolderIsLatest
<1> QED
  BY <1>9, <1>10, <1>11, <1>12, <1>13 DEF WriterInv

LEMMA AbortKeeps ==
  ASSUME WriterInv, NEW w \in Writers, Abort(w)
  PROVE  WriterInv'
<1>1. txn' = [txn EXCEPT ![w] = NoTxn]
  BY DEF Abort
<1>2. UNCHANGED <<run, clock, events, stream, got>>
  BY DEF Abort
<1>3. /\ txn \in [Writers -> Txns \cup {NoTxn}]
      /\ txn'[w] = NoTxn
      /\ \A v \in Writers \ {w} : txn'[v] = txn[v]
  BY <1>1 DEF WriterInv, TypeOK
<1>4. \A v \in Writers : Holds(v)' => v # w /\ Holds(v)
  BY <1>3 DEF Holds
<1>5. TypeOK'
  <2>1. txn' \in [Writers -> Txns \cup {NoTxn}]
    BY <1>1, <1>3
  <2>2. \A v, u \in Writers : v # u /\ Holds(v)' /\ Holds(u)' =>
          ~ Locking(txn'[v].kind) /\ ~ Locking(txn'[u].kind)
    BY <1>3, <1>4 DEF WriterInv, TypeOK
  <2> QED
    BY <1>2, <2>1, <2>2 DEF WriterInv, TypeOK, Holds, Locking
<1>6. StampsAreGiven' /\ StampsDiffer'
  BY <1>2, <1>3 DEF WriterInv, StampsAreGiven, StampsDiffer
<1>7. HeldIsStamped' /\ HolderIsLatest'
  BY <1>2, <1>3, <1>4 DEF WriterInv, HeldIsStamped, HolderIsLatest, Holds
<1> QED
  BY <1>5, <1>6, <1>7 DEF WriterInv

LEMMA StreamKeepsWriters ==
  ASSUME WriterInv, UNCHANGED <<run, clock, events, txn>>, Serve \/ Select \/ Resume \/ Drop
  PROVE  WriterInv'
<1>1. StampsAreGiven' /\ StampsDiffer' /\ HeldIsStamped' /\ HolderIsLatest'
  BY DEF WriterInv, StampsAreGiven, StampsDiffer, HeldIsStamped, HolderIsLatest, Holds
<1>2. TypeOK'
  <2>1. stream' \in [step : {"run", "events", "sending", "ended", "closed"}, terminal : BOOLEAN,
                     version : 0 .. MaxStamp, fetched : SUBSET Events]
    <3>1. stream.terminal \in BOOLEAN /\ stream.version \in 0 .. MaxStamp
          /\ stream.fetched \subseteq Events /\ events \subseteq Events
          /\ run.version \in 0 .. MaxStamp /\ 0 \in 0 .. MaxStamp
      BY StampAssumption DEF WriterInv, TypeOK
    <3>2. ReadOrder[1] = "run" /\ Following("run") = "events" /\ Following("events") = "sending"
      BY DEF ReadOrder, Following
    <3>3. AfterCursor \subseteq Events
      BY <3>1 DEF AfterCursor
    <3>4. CASE Select \/ Resume \/ Drop
      <4>1. PICK step \in {"run", "closed"} :
              stream' = [step |-> step, terminal |-> FALSE, version |-> 0, fetched |-> {}]
        BY <3>2, <3>4 DEF Select, Resume, Drop
      <4>2. step \in {"run", "events", "sending", "ended", "closed"}
        OBVIOUS
      <4>3. {} \in SUBSET Events /\ FALSE \in BOOLEAN
        OBVIOUS
      <4> QED
        BY <3>1, <4>1, <4>2, <4>3
    <3>5. CASE ReadRun
      BY <3>1, <3>2, <3>5 DEF ReadRun
    <3>6. CASE ReadEvents
      BY <3>1, <3>2, <3>3, <3>6 DEF ReadEvents
    <3>7. CASE Send
      BY <3>1, <3>7 DEF Send
    <3>8. CASE Sent
      BY <3>1, <3>2, <3>8 DEF Sent, AfterSending
    <3> QED
      BY <3>4, <3>5, <3>6, <3>7, <3>8 DEF Serve
  <2>2. got' \in Seq(Events)
    <3>1. CASE Send
      BY <3>1 DEF Send, WriterInv, TypeOK
    <3>2. CASE ~ Send
      <4>1. got' = got \/ got' = <<>>
        BY <3>2 DEF Serve, ReadRun, ReadEvents, Sent, Select, Resume, Drop
      <4>2. got \in Seq(Events) /\ <<>> \in Seq(Events)
        BY EmptySeq DEF WriterInv, TypeOK
      <4> QED
        BY <4>1, <4>2
    <3> QED
      BY <3>1, <3>2
  <2> QED
    BY <2>1, <2>2 DEF WriterInv, TypeOK, Holds
<1> QED
  BY <1>1, <1>2 DEF WriterInv

Writes(w) == (\E kind \in Kinds : Begin(w, kind)) \/ Acquire(w) \/ Commit(w) \/ Abort(w)

LEMMA WriterInvariant == WriterInv /\ [Next]_vars => WriterInv'
<1> SUFFICES ASSUME WriterInv, [Next]_vars PROVE WriterInv'
  OBVIOUS
<1>1. ASSUME NEW w \in Writers, Writes(w) PROVE WriterInv'
  BY <1>1, BeginKeeps, AcquireKeeps, CommitKeeps, AbortKeeps DEF Writes
<1>2. CASE Serve \/ Select \/ Resume \/ Drop
  <2>1. UNCHANGED <<run, clock, events, txn>>
    BY <1>2 DEF Serve, ReadRun, ReadEvents, Send, Sent, Select, Resume, Drop
  <2> QED
    BY <1>2, <2>1, StreamKeepsWriters
<1>3. CASE UNCHANGED vars
  BY <1>3 DEF vars, WriterInv, TypeOK, StampsAreGiven, StampsDiffer, HeldIsStamped,
              HolderIsLatest, Holds
<1> QED
  BY <1>1, <1>2, <1>3 DEF Next, Writes

\* For any number of writers, nobody holds the row of the run beside one who
\* holds it for update, and every variable keeps its type.
THEOREM EventsTypeCorrect == Spec => []TypeOK
<1>1. WriterInv => TypeOK
  BY DEF WriterInv
<1> QED
  BY <1>1, WriterInitially, WriterInvariant, PTL DEF Spec

-------------------------------------------------------------------------------
(* The stream.                                                             *)

LEMMA EventStamp ==
  ASSUME TypeOK, NEW e \in events
  PROVE  e.at \in Nat /\ e.at >= 1
BY StampAssumption DEF TypeOK, Events, Stamps

\* The cursor is the latest of what was received.
LEMMA CursorIsLatest ==
  ASSUME TypeOK, GotIsCommitted, InOrderOnce
  PROVE  /\ Cursor \in Nat
         /\ \A i \in DOMAIN got : got[i].at <= Cursor
         /\ got # <<>> => \E i \in DOMAIN got : got[i].at = Cursor
<1>1. got \in Seq(Events) /\ Len(got) \in Nat /\ DOMAIN got = 1 .. Len(got)
  BY LenProperties DEF TypeOK
<1>2. CASE got = <<>>
  BY <1>1, <1>2 DEF Cursor
<1>3. CASE got # <<>>
  <2>1. Len(got) \in DOMAIN got /\ Cursor = got[Len(got)].at
    BY <1>1, <1>3, EmptySeq DEF Cursor
  <2>2. \A i \in DOMAIN got : got[i].at \in Nat
    BY EventStamp DEF GotIsCommitted
  <2>3. \A i \in DOMAIN got : i = Len(got) \/ i < Len(got)
    BY <1>1
  <2> QED
    BY <2>1, <2>2, <2>3 DEF InOrderOnce
<1> QED
  BY <1>2, <1>3

LEMMA CommitKeepsStream ==
  ASSUME IInv, NEW w \in Writers, Commit(w)
  PROVE  StreamInv'
<1> DEFINE new == [at |-> txn[w].at, kind |-> txn[w].kind]
<1>1. events' = events \cup {new} /\ stream' = stream /\ got' = got
  BY DEF Commit
<1>2. TypeOK /\ GotIsCommitted /\ InOrderOnce /\ Cursor \in Nat
  BY CursorIsLatest DEF IInv, WriterInv, StreamInv
<1>3. new.at \in Nat /\ new.kind = txn[w].kind
  <2>1. txn[w] # NoTxn
    BY DEF Commit, Holds
  <2>2. txn[w].at \in 0 .. MaxStamp
    BY <1>2, <2>1, TxnTyped
  <2> QED
    BY <2>2, StampAssumption
<1>4. Locking(new.kind) => \A e \in events : e.at < new.at
  BY DEF IInv, WriterInv, HolderIsLatest, Commit
<1>5. Locking(new.kind) => Cursor < new.at
  <2>1. CASE got = <<>>
    <3>1. Holds(w) => txn[w].at # 0
      BY DEF IInv, WriterInv, HeldIsStamped
    <3> QED
      BY <1>3, <2>1, <3>1 DEF Cursor, Commit
  <2>2. CASE got # <<>>
    BY <1>2, <1>4, <2>2, CursorIsLatest DEF GotIsCommitted
  <2> QED
    BY <2>1, <2>2
<1>6. Cursor' = Cursor
  BY <1>1 DEF Cursor
<1> HIDE DEF new
<1>7. GotIsCommitted' /\ InOrderOnce'
  BY <1>1, <1>2 DEF GotIsCommitted, InOrderOnce
<1>8. FetchedIsNext'
  <2>1. \A f \in stream.fetched : f \in events /\ f.at \in Nat
    BY <1>2, EventStamp DEF IInv, StreamInv, FetchedIsNext
  <2>2. \A f \in stream.fetched : Locking(new.kind) => ~ (new.at <= f.at)
    BY <1>3, <1>4, <2>1
  <2> QED
    BY <1>1, <1>6, <2>1, <2>2 DEF IInv, StreamInv, FetchedIsNext
<1>9. NothingOvertaken'
  <2>1. Locking(new.kind) => ~ (new.at <= Cursor)
    BY <1>2, <1>3, <1>5
  <2> QED
    BY <1>1, <1>6, <2>1 DEF IInv, StreamInv, NothingOvertaken
<1> QED
  BY <1>7, <1>8, <1>9 DEF StreamInv

LEMMA SendKeepsStream ==
  ASSUME IInv, Send
  PROVE  StreamInv'
<1>1. PICK e \in stream.fetched :
        /\ \A f \in stream.fetched : e.at <= f.at
        /\ got' = Append(got, e)
        /\ stream' = [step |-> "sending", terminal |-> stream.terminal,
                      version |-> stream.version, fetched |-> stream.fetched \ {e}]
  BY DEF Send
<1>2. events' = events /\ stream'.fetched = stream.fetched \ {e}
  BY <1>1 DEF Send
<1>3. TypeOK /\ GotIsCommitted /\ InOrderOnce /\ Cursor \in Nat
      /\ \A i \in DOMAIN got : got[i].at <= Cursor
  BY CursorIsLatest DEF IInv, WriterInv, StreamInv
<1>4. got \in Seq(Events) /\ Len(got) \in Nat /\ DOMAIN got = 1 .. Len(got)
  BY <1>3, LenProperties DEF TypeOK
<1>5. e \in events /\ e \in Events /\ e.at \in Nat /\ e.at > Cursor
  BY <1>3, EventStamp DEF IInv, StreamInv, FetchedIsNext, TypeOK
<1>6. /\ Len(got') = Len(got) + 1 /\ DOMAIN got' = 1 .. Len(got) + 1
      /\ got'[Len(got) + 1] = e
      /\ \A i \in DOMAIN got : got'[i] = got[i]
  BY <1>1, <1>4, <1>5
<1>7. Cursor' = e.at
  BY <1>4, <1>6, EmptySeq DEF Cursor
<1>8. GotIsCommitted'
  <2> SUFFICES ASSUME NEW i \in DOMAIN got' PROVE got'[i] \in events
    BY <1>2 DEF GotIsCommitted
  <2>1. i \in DOMAIN got \/ i = Len(got) + 1
    BY <1>4, <1>6
  <2> QED
    BY <1>3, <1>5, <1>6, <2>1 DEF GotIsCommitted
<1>9. InOrderOnce'
  <2> SUFFICES ASSUME NEW i \in DOMAIN got', NEW j \in DOMAIN got', i < j
               PROVE  got'[i].at < got'[j].at
    BY DEF InOrderOnce
  <2>1. i \in DOMAIN got /\ (j \in DOMAIN got \/ j = Len(got) + 1)
    BY <1>4, <1>6
  <2>2. CASE j \in DOMAIN got
    BY <1>3, <1>6, <2>1, <2>2 DEF InOrderOnce
  <2>3. CASE j = Len(got) + 1
    <3>1. got[i].at \in Nat /\ got[i].at <= Cursor
      BY <1>3, <2>1, EventStamp DEF GotIsCommitted
    <3> QED
      BY <1>3, <1>5, <1>6, <2>1, <2>3, <3>1
  <2> QED
    BY <2>1, <2>2, <2>3
<1>10. \A f \in events : f.at = e.at => f = e
  BY <1>5 DEF IInv, WriterInv, StampsDiffer
<1>11. \A f \in events : f.at \in Nat
  BY <1>3, EventStamp
<1>12. stream.fetched \subseteq events
  BY DEF IInv, StreamInv, FetchedIsNext
<1>13. FetchedIsNext'
  <2>1. \A f \in stream.fetched \ {e} : f.at > e.at
    BY <1>1, <1>5, <1>10, <1>11, <1>12
  <2>2. ASSUME NEW g \in events, NEW f \in stream.fetched \ {e},
               Locking(g.kind), e.at < g.at, g.at <= f.at
        PROVE  g \in stream.fetched \ {e}
    <3>1. Cursor < g.at
      BY <1>3, <1>5, <1>11, <2>2
    <3>2. g \in stream.fetched
      BY <2>2, <3>1 DEF IInv, StreamInv, FetchedIsNext
    <3> QED
      BY <1>5, <1>11, <2>2, <3>2
  <2> QED
    BY <1>2, <1>7, <1>12, <2>1, <2>2 DEF FetchedIsNext
<1>14. NothingOvertaken'
  <2> SUFFICES ASSUME NEW g \in events, Locking(g.kind), g.at <= e.at
               PROVE  \E i \in DOMAIN got' : got'[i] = g
    BY <1>2, <1>7 DEF NothingOvertaken
  <2>1. CASE g.at <= Cursor
    <3>1. PICK i \in DOMAIN got : got[i] = g
      BY <2>1 DEF IInv, StreamInv, NothingOvertaken
    <3> QED
      BY <1>4, <1>6, <3>1
  <2>2. CASE ~ (g.at <= Cursor)
    <3>1. Cursor < g.at
      BY <1>3, <1>11, <2>2
    <3>2. g \in stream.fetched
      BY <3>1 DEF IInv, StreamInv, FetchedIsNext
    <3>3. g = e
      BY <1>1, <1>5, <1>10, <1>11, <3>2
    <3> QED
      BY <1>4, <1>6, <3>3
  <2> QED
    BY <2>1, <2>2
<1> QED
  BY <1>8, <1>9, <1>13, <1>14 DEF StreamInv

\* Nothing is pending when a stream starts or breaks, and a read fetches all.
LEMMA ReadingKeepsStream ==
  ASSUME IInv, ReadRun \/ ReadEvents \/ Sent \/ Resume \/ Drop \/ Select
  PROVE  StreamInv'
<1>1. events' = events
  BY DEF ReadRun, ReadEvents, Sent, Resume, Drop, Select
<1>2. CASE Select
  <2>1. got' = <<>> /\ stream'.fetched = {} /\ DOMAIN got' = {}
    BY <1>2 DEF Select
  <2>2. Cursor' = 0
    BY <2>1 DEF Cursor
  <2>3. \A e \in events : ~ (e.at <= 0)
    BY EventStamp DEF IInv, WriterInv
  <2> QED
    BY <1>1, <2>1, <2>2, <2>3
    DEF StreamInv, GotIsCommitted, InOrderOnce, FetchedIsNext, NothingOvertaken
<1>3. CASE ~ Select
  <2>1. got' = got
    BY <1>3 DEF ReadRun, ReadEvents, Sent, Resume, Drop
  <2>2. Cursor' = Cursor
    BY <2>1 DEF Cursor
  <2>3. stream'.fetched \in {stream.fetched, {}, AfterCursor}
    BY <1>3 DEF ReadRun, ReadEvents, Sent, Resume, Drop
  <2>4. FetchedIsNext'
    <3>1. CASE stream'.fetched = stream.fetched
      BY <1>1, <2>2, <3>1 DEF IInv, StreamInv, FetchedIsNext
    <3>2. CASE stream'.fetched = {}
      BY <3>2 DEF FetchedIsNext
    <3>3. CASE stream'.fetched = AfterCursor
      <4>1. Cursor \in Nat /\ \A e \in events : e.at \in Nat
        BY CursorIsLatest, EventStamp DEF IInv, WriterInv, StreamInv
      <4> QED
        BY <1>1, <2>2, <3>3, <4>1 DEF FetchedIsNext, AfterCursor
    <3> QED
      BY <2>3, <3>1, <3>2, <3>3
  <2> QED
    BY <1>1, <2>1, <2>2, <2>4 DEF IInv, StreamInv, GotIsCommitted, InOrderOnce, NothingOvertaken
<1> QED
  BY <1>2, <1>3

LEMMA StreamInvariant == IInv /\ [Next]_vars => StreamInv'
<1> SUFFICES ASSUME IInv, [Next]_vars PROVE StreamInv'
  OBVIOUS
<1>1. ASSUME UNCHANGED <<events, stream, got>> PROVE StreamInv'
  BY <1>1 DEF IInv, StreamInv, GotIsCommitted, InOrderOnce, FetchedIsNext, NothingOvertaken, Cursor
<1>2. ASSUME NEW w \in Writers, Writes(w) PROVE StreamInv'
  <2>1. CASE Commit(w)
    BY <2>1, CommitKeepsStream
  <2>2. CASE ~ Commit(w)
    <3>1. UNCHANGED <<events, stream, got>>
      BY <1>2, <2>2 DEF Writes, Begin, Acquire, Abort
    <3> QED
      BY <1>1, <3>1
  <2> QED
    BY <2>1, <2>2
<1>3. CASE Serve \/ Select \/ Resume \/ Drop
  BY <1>3, SendKeepsStream, ReadingKeepsStream DEF Serve
<1>4. CASE UNCHANGED vars
  BY <1>1, <1>4 DEF vars
<1> QED
  BY <1>2, <1>3, <1>4 DEF Next, Writes

LEMMA Initially == Init => IInv
<1> SUFFICES ASSUME Init PROVE StreamInv
  BY WriterInitially DEF IInv
<1> QED
  BY DEF Init, StreamInv, GotIsCommitted, InOrderOnce, FetchedIsNext, NothingOvertaken

LEMMA Invariant == IInv /\ [Next]_vars => IInv'
BY WriterInvariant, StreamInvariant DEF IInv

\* For any writers and any subscriber, over any connections: the events come
\* in the order of their stamps and none twice.
THEOREM AlwaysInOrderOnce == Spec => []InOrderOnce
<1>1. IInv => InOrderOnce
  BY DEF IInv, StreamInv
<1> QED
  BY <1>1, Initially, Invariant, PTL DEF Spec

\* The cursor never passes an unread event of a transaction that holds the run.
THEOREM NothingEverOvertaken == Spec => []NothingOvertaken
<1>1. IInv => NothingOvertaken
  BY DEF IInv, StreamInv
<1> QED
  BY <1>1, Initially, Invariant, PTL DEF Spec


-------------------------------------------------------------------------------
(* The end of a stream.  The run is read before the events, so that what   *)
(* settled it is committed by the time they are read: it is either beyond  *)
(* the cursor and fetched, or it was received on an earlier connection.    *)

SettlingEvent(t) == [at |-> t, kind |-> "settles"]
IsReceived(e) == \E i \in DOMAIN got : got[i] = e

\* A settled run was settled by a committed event.
RunTellsWhy == run.status \in Settled => SettlingEvent(run.version) \in events

\* So was the run that an open stream has found settled; and what it has
\* fetched, with what was received before, has that event.
StreamTellsWhy ==
  /\ stream.step = "run" => ~ stream.terminal
  /\ stream.step \in {"events", "sending", "ended"} /\ stream.terminal =>
       SettlingEvent(stream.version) \in events
  /\ stream.step = "sending" /\ stream.terminal =>
       \/ SettlingEvent(stream.version) \in stream.fetched
       \/ IsReceived(SettlingEvent(stream.version))
  /\ stream.step = "ended" =>
       stream.terminal /\ IsReceived(SettlingEvent(stream.version))

EndInv == RunTellsWhy /\ StreamTellsWhy

LEMMA CommitTellsWhy ==
  ASSUME IInv, EndInv, NEW w \in Writers, Commit(w)
  PROVE  EndInv'
<1> DEFINE new == [at |-> txn[w].at, kind |-> txn[w].kind]
<1>1. events' = events \cup {new} /\ stream' = stream /\ got' = got
  BY DEF Commit
<1>2. txn[w].kind \in Kinds
  BY TxnTyped DEF IInv, WriterInv, Commit, Holds
<1>3. PICK s \in Outcomes(txn[w].kind) :
        run' = IF txn[w].kind \in {"settles", "reopens"}
               THEN [status |-> s, version |-> txn[w].at] ELSE run
  BY DEF Commit
<1>4. RunTellsWhy'
  <2>1. CASE txn[w].kind = "settles"
    BY <1>1, <1>3, <2>1 DEF RunTellsWhy, SettlingEvent
  <2>2. CASE txn[w].kind = "reopens"
    <3>1. run'.status = "active"
      BY <1>3, <2>2 DEF Outcomes
    <3> QED
      BY <3>1 DEF RunTellsWhy, Settled
  <2>3. CASE txn[w].kind \notin {"settles", "reopens"}
    BY <1>1, <1>3, <2>3 DEF EndInv, RunTellsWhy, SettlingEvent
  <2> QED
    BY <2>1, <2>2, <2>3
<1> HIDE DEF new
<1>5. StreamTellsWhy'
  BY <1>1 DEF EndInv, StreamTellsWhy, IsReceived, SettlingEvent
<1> QED
  BY <1>4, <1>5 DEF EndInv

LEMMA ServeTellsWhy ==
  ASSUME IInv, EndInv, Serve
  PROVE  EndInv'
<1>1. events' = events /\ run' = run
  BY DEF Serve, ReadRun, ReadEvents, Send, Sent
<1>2. RunTellsWhy'
  BY <1>1 DEF EndInv, RunTellsWhy, SettlingEvent
<1>3. ReadOrder[1] = "run" /\ Following("run") = "events" /\ Following("events") = "sending"
  BY DEF ReadOrder, Following
<1> DEFINE why == SettlingEvent(stream.version)
<1>4. CASE ReadRun
  <2>1. stream'.step = "events" /\ stream'.version = run.version
        /\ stream'.terminal = (run.status \in Settled)
    BY <1>3, <1>4 DEF ReadRun
  <2> QED
    BY <1>1, <1>2, <2>1 DEF EndInv, RunTellsWhy, StreamTellsWhy, SettlingEvent
<1>5. CASE ReadEvents
  <2>1. /\ stream.step = "events" /\ stream'.step = "sending" /\ got' = got
        /\ stream'.version = stream.version /\ stream'.terminal = stream.terminal
        /\ stream'.fetched = AfterCursor
    BY <1>3, <1>5 DEF ReadEvents
  <2>2. ASSUME stream.terminal PROVE why \in AfterCursor \/ IsReceived(why)
    <3>1. why \in events
      BY <2>1, <2>2 DEF EndInv, StreamTellsWhy
    <3>2. why.kind = "settles" /\ Locking(why.kind)
      BY DEF SettlingEvent, Locking
    <3>3. Cursor \in Nat /\ why.at \in Nat
      BY <3>1, CursorIsLatest, EventStamp DEF IInv, WriterInv, StreamInv
    <3>4. CASE why.at > Cursor
      BY <3>1, <3>4 DEF AfterCursor
    <3>5. CASE why.at <= Cursor
      BY <3>1, <3>2, <3>5 DEF IInv, StreamInv, NothingOvertaken, IsReceived
    <3> QED
      BY <3>3, <3>4, <3>5
  <2> QED
    BY <1>1, <1>2, <2>1, <2>2 DEF EndInv, StreamTellsWhy, IsReceived, SettlingEvent
<1>6. CASE Send
  <2>1. PICK e \in stream.fetched :
          /\ got' = Append(got, e)
          /\ stream' = [step |-> "sending", terminal |-> stream.terminal,
                        version |-> stream.version, fetched |-> stream.fetched \ {e}]
    BY <1>6 DEF Send
  <2>2. got \in Seq(Events) /\ e \in Events
    BY <2>1 DEF IInv, WriterInv, TypeOK
  <2>3. /\ Len(got') \in DOMAIN got' /\ got'[Len(got')] = e
        /\ \A i \in DOMAIN got : i \in DOMAIN got' /\ got'[i] = got[i]
    BY <2>1, <2>2
  <2>4. \A f : IsReceived(f) \/ f = e => IsReceived(f)'
    BY <2>3 DEF IsReceived
  <2>5. stream.step = "sending"
    BY <1>6 DEF Send
  <2>6. stream.terminal => why \in stream'.fetched \/ IsReceived(why)'
    BY <2>1, <2>4, <2>5 DEF EndInv, StreamTellsWhy
  <2> QED
    BY <1>1, <1>2, <2>1, <2>5, <2>6 DEF EndInv, StreamTellsWhy, SettlingEvent, IsReceived
<1>7. CASE Sent
  <2>1. /\ stream.step = "sending" /\ stream.fetched = {} /\ got' = got
        /\ stream'.step = (IF stream.terminal THEN "ended" ELSE "run")
        /\ stream'.version = stream.version /\ stream'.terminal = stream.terminal
    BY <1>3, <1>7 DEF Sent, AfterSending
  <2>2. stream.terminal => why \in events /\ IsReceived(why)
    BY <2>1 DEF EndInv, StreamTellsWhy
  <2> QED
    BY <1>1, <1>2, <2>1, <2>2 DEF EndInv, StreamTellsWhy, SettlingEvent, IsReceived
<1> QED
  BY <1>4, <1>5, <1>6, <1>7 DEF Serve

LEMMA EndInvariant == IInv /\ EndInv /\ [Next]_vars => EndInv'
<1> SUFFICES ASSUME IInv, EndInv, [Next]_vars PROVE EndInv'
  OBVIOUS
<1>1. ASSUME UNCHANGED <<run, events, stream, got>> PROVE EndInv'
  BY <1>1 DEF EndInv, RunTellsWhy, StreamTellsWhy, SettlingEvent, IsReceived
<1>2. ASSUME NEW w \in Writers, Writes(w) PROVE EndInv'
  <2>1. CASE Commit(w)
    BY <2>1, CommitTellsWhy
  <2>2. CASE ~ Commit(w)
    <3>1. UNCHANGED <<run, events, stream, got>>
      BY <1>2, <2>2 DEF Writes, Begin, Acquire, Abort
    <3> QED
      BY <1>1, <3>1
  <2> QED
    BY <2>1, <2>2
<1>3. CASE Select \/ Resume \/ Drop
  <2>1. run' = run /\ events' = events /\ stream'.step \in {"run", "closed"}
        /\ ~ stream'.terminal
    BY <1>3 DEF Select, Resume, Drop, ReadOrder
  <2> QED
    BY <2>1 DEF EndInv, RunTellsWhy, StreamTellsWhy, SettlingEvent
<1>4. CASE UNCHANGED vars
  BY <1>1, <1>4 DEF vars
<1> QED
  BY <1>2, <1>3, <1>4, ServeTellsWhy DEF Next, Writes

\* For any writers, and over any connections: whatever commits between the
\* two reads of a poll, a stream that ends has sent the event that settled
\* the run as it found it.
THEOREM EndAlwaysTellsWhy == Spec => []EndTellsWhy
<1>1. Init => EndInv
  BY DEF Init, EndInv, RunTellsWhy, StreamTellsWhy, Settled
<1>2. EndInv => EndTellsWhy
  BY DEF EndInv, StreamTellsWhy, EndTellsWhy, IsReceived, SettlingEvent
<1> QED
  BY <1>1, <1>2, Initially, Invariant, EndInvariant, PTL DEF Spec

===============================================================================

------------------------------- MODULE RunEvents -------------------------------
(***************************************************************************)
(* The event stream of one run:                                            *)
(*   infrastructure/database/models.py            utc_now, audit_events    *)
(*   infrastructure/database/job_queue.py and the services    the writers  *)
(*   infrastructure/database/workspace_service.py events_after             *)
(*   api/routes/workspace.py                      run_events               *)
(*   apps/web/src/App.tsx                         the subscriber           *)
(*                                                                         *)
(* An event is stamped when its row is inserted, and readable when its     *)
(* transaction commits.  A transaction that works on the run holds its row *)
(* for update from before the stamp to the commit.  One that only reports  *)
(* about the run (a capture, a confirmed pack) stamps first; its insert    *)
(* then waits for the foreign key's share of the row.                      *)
(*                                                                         *)
(* All processes are taken to read one clock, and no two stamps of a run   *)
(* to be equal.                                                            *)
(***************************************************************************)
EXTENDS Naturals, Sequences

CONSTANTS
  Writers,   \* the transactions that may be open at once
  MaxStamp,  \* BOUND: the stamps that are given
  NoTxn      \* a writer without an open transaction

ASSUME StampAssumption == MaxStamp \in Nat \ {0}

VARIABLES
  run,     \* the run's status, and the stamp of the event that set it (its version)
  clock,   \* the last stamp given
  events,  \* the committed events
  txn,     \* txn[w]: the open transaction of writer w
  stream,  \* the response of run_events
  got      \* the events the subscriber has received since it selected the run

vars == <<run, clock, events, txn, stream, got>>

Settled == {"succeeded", "needs_attention"}

\* complete and the last failure settle the run, a retry reopens it; claims,
\* failures and results work on it, and reports only name it.
Kinds == {"settles", "reopens", "works", "reports"}
Stamps == 1 .. MaxStamp
Events == [at : Stamps, kind : Kinds]
Txns == [kind : Kinds, at : 0 .. MaxStamp, held : BOOLEAN]

Locking(kind) == kind # "reports"

ASSUME NullAssumption == NoTxn \notin Txns

Holds(w) == txn[w] # NoTxn /\ txn[w].held

\* The types; above all, nobody holds the row beside one who holds it for update.
TypeOK ==
  /\ run \in [status : Settled \cup {"active"}, version : 0 .. MaxStamp]
  /\ clock \in 0 .. MaxStamp
  /\ events \subseteq Events
  /\ txn \in [Writers -> Txns \cup {NoTxn}]
  /\ \A v, w \in Writers :
       v # w /\ Holds(v) /\ Holds(w) => ~ Locking(txn[v].kind) /\ ~ Locking(txn[w].kind)
  /\ stream \in [step : {"run", "events", "sending", "ended", "closed"}, terminal : BOOLEAN,
                 version : 0 .. MaxStamp, fetched : SUBSET Events]
  /\ got \in Seq(Events)

Init ==
  /\ run = [status |-> "active", version |-> 0]
  /\ clock = 0
  /\ events = {}
  /\ txn = [w \in Writers |-> NoTxn]
  /\ stream = [step |-> "closed", terminal |-> FALSE, version |-> 0, fetched |-> {}]
  /\ got = <<>>

-------------------------------------------------------------------------------
(* The writers.                                                            *)

\* FAULT: the event is built, and stamped, before the run is locked.
StampsAlwaysFirst(kind) == TRUE

\* Whether the stamp is taken before the row of the run is.
StampsFirst(kind) == ~ Locking(kind)

Begin(w, kind) ==
  /\ txn[w] = NoTxn
  /\ clock < MaxStamp
  /\ IF StampsFirst(kind)
     THEN /\ clock' = clock + 1
          /\ txn' = [txn EXCEPT ![w] = [kind |-> kind, at |-> clock', held |-> FALSE]]
     ELSE /\ txn' = [txn EXCEPT ![w] = [kind |-> kind, at |-> 0, held |-> FALSE]]
          /\ UNCHANGED clock
  /\ UNCHANGED <<run, events, stream, got>>

\* FAULT: the share that a foreign key takes excludes nobody.
CompatibleWithShares(w) ==
  \A v \in Writers \ {w} :
    Holds(v) => ~ Locking(txn[v].kind) \/ ~ Locking(txn[w].kind)

\* FOR UPDATE excludes every other holder, FOR KEY SHARE only FOR UPDATE.
Compatible(w) ==
  \A v \in Writers \ {w} :
    Holds(v) => ~ Locking(txn[v].kind) /\ ~ Locking(txn[w].kind)

Acquire(w) ==
  /\ txn[w] # NoTxn
  /\ ~ txn[w].held
  /\ Compatible(w)
  /\ IF txn[w].at # 0
     THEN /\ txn' = [txn EXCEPT ![w] = [kind |-> txn[w].kind, at |-> txn[w].at, held |-> TRUE]]
          /\ UNCHANGED clock
     ELSE /\ clock < MaxStamp
          /\ clock' = clock + 1
          /\ txn' = [txn EXCEPT ![w] = [kind |-> txn[w].kind, at |-> clock', held |-> TRUE]]
  /\ UNCHANGED <<run, events, stream, got>>

\* What a commit makes of the run's status.
Outcomes(kind) ==
  CASE kind = "settles" -> {s \in Settled : run.status = "active"}
    [] kind = "reopens" -> {s \in {"active"} : run.status = "needs_attention"}
    [] kind \in {"works", "reports"} -> {run.status}

Commit(w) ==
  /\ Holds(w)
  /\ \E s \in Outcomes(txn[w].kind) :
       run' = IF txn[w].kind \in {"settles", "reopens"}
              THEN [status |-> s, version |-> txn[w].at] ELSE run
  /\ events' = events \cup {[at |-> txn[w].at, kind |-> txn[w].kind]}
  /\ txn' = [txn EXCEPT ![w] = NoTxn]
  /\ UNCHANGED <<clock, stream, got>>

\* The status forbids the operation, or the transaction fails.
Abort(w) ==
  /\ txn[w] # NoTxn
  /\ txn' = [txn EXCEPT ![w] = NoTxn]
  /\ UNCHANGED <<run, clock, events, stream, got>>

-------------------------------------------------------------------------------
(* The stream.                                                             *)

\* FAULT: the events are read before the run.
EventsFirst == <<"events", "run">>

\* The two reads of events_after; each sees what is committed by then.
ReadOrder == <<"run", "events">>

Following(step) == IF step = ReadOrder[1] THEN ReadOrder[2] ELSE "sending"

\* The event the subscriber has received last; 0 before the first.
Cursor == IF got = <<>> THEN 0 ELSE got[Len(got)].at

Open == stream.step \notin {"ended", "closed"}

\* The page selects the run: a new stream without a cursor, an empty list.  A
\* stream that was open is closed first (Drop).
Select ==
  /\ ~ Open
  /\ stream' = [step |-> ReadOrder[1], terminal |-> FALSE, version |-> 0, fetched |-> {}]
  /\ got' = <<>>
  /\ UNCHANGED <<run, clock, events, txn>>

\* A subscriber comes back with the Last-Event-ID it received.
Resume ==
  /\ ~ Open
  /\ got # <<>>
  /\ stream' = [step |-> ReadOrder[1], terminal |-> FALSE, version |-> 0, fetched |-> {}]
  /\ UNCHANGED <<run, clock, events, txn, got>>

ReadRun ==
  /\ stream.step = "run"
  /\ stream' = [step |-> Following("run"), terminal |-> run.status \in Settled,
                version |-> run.version, fetched |-> stream.fetched]
  /\ UNCHANGED <<run, clock, events, txn, got>>

\* FAULT: an event with the time of the cursor is read again.
FromCursor == {e \in events : e.at >= Cursor}

AfterCursor == {e \in events : e.at > Cursor}

ReadEvents ==
  /\ stream.step = "events"
  /\ stream' = [step |-> Following("events"), terminal |-> stream.terminal,
                version |-> stream.version, fetched |-> AfterCursor]
  /\ UNCHANGED <<run, clock, events, txn, got>>

\* The events are sent in the order of their stamps.
Send ==
  /\ stream.step = "sending"
  /\ \E e \in stream.fetched :
       /\ \A f \in stream.fetched : e.at <= f.at
       /\ got' = Append(got, e)
       /\ stream' = [step |-> "sending", terminal |-> stream.terminal,
                     version |-> stream.version, fetched |-> stream.fetched \ {e}]
  /\ UNCHANGED <<run, clock, events, txn>>

\* FAULT: the stream waits for good once it has sent what there was.
WaitsForGood == IF stream.terminal THEN "ended" ELSE "sending"

AfterSending == IF stream.terminal THEN "ended" ELSE ReadOrder[1]

Sent ==
  /\ stream.step = "sending"
  /\ stream.fetched = {}
  /\ stream' = [step |-> AfterSending, terminal |-> stream.terminal,
                version |-> stream.version, fetched |-> {}]
  /\ UNCHANGED <<run, clock, events, txn, got>>

\* The connection breaks, or the page closes it: what was fetched is lost.
Drop ==
  /\ Open
  /\ stream' = [step |-> "closed", terminal |-> FALSE, version |-> 0, fetched |-> {}]
  /\ UNCHANGED <<run, clock, events, txn, got>>

Serve == ReadRun \/ ReadEvents \/ Send \/ Sent

Next ==
  \/ \E w \in Writers :
       (\E kind \in Kinds : Begin(w, kind)) \/ Acquire(w) \/ Commit(w) \/ Abort(w)
  \/ Select \/ Resume \/ Serve \/ Drop

Spec == Init /\ [][Next]_vars

\* run_events polls every second as long as the connection stands.
FairSpec == Spec /\ WF_vars(Serve)

-------------------------------------------------------------------------------
(* Properties.                                                             *)

\* Over any number of polls and resumed connections the subscriber receives
\* the events in the order of their stamps and none twice (Last-Event-ID).
InOrderOnce == \A i, j \in DOMAIN got : i < j => got[i].at < got[j].at

\* An event of a transaction that holds the run is never overtaken: once a
\* later one was received, it was too.  (A report may be overtaken, and is
\* then never sent: its stamp is older than its place among the commits.)
NothingOvertaken ==
  \A e \in events : Locking(e.kind) /\ e.at <= Cursor => \E i \in DOMAIN got : got[i] = e

\* A stream does not end before it has sent the event that settled the run,
\* whatever commits between its two reads, and again for each reopening.
EndTellsWhy ==
  stream.step = "ended" => \E i \in DOMAIN got :
    got[i].kind = "settles" /\ got[i].at = stream.version

\* While the connection stands, whatever a transaction that holds the run has
\* committed is sent; the writers never starve the subscriber.
Committed(t) == \E e \in events : e.at = t /\ Locking(e.kind)
Received(t) == \E i \in DOMAIN got : got[i].at = t
OpenStreamDelivers ==
  \A t \in Stamps : Committed(t) /\ Open ~> Received(t) \/ ~ Open

===============================================================================

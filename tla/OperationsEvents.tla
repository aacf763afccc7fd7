--------------------------- MODULE OperationsEvents ---------------------------
(***************************************************************************)
(* OperationsEventsService: the event streams (SSE) of one user, over the  *)
(* OperationEvent rows the sales transactions write.                       *)
(*                                                                         *)
(* The server is one event loop, so the code between two awaits is one     *)
(* action; what a query reads and what is done with its answer are two.    *)
(* A client is a browser's EventSource: when its connection breaks it      *)
(* connects again with the id of the last frame it received.               *)
(*                                                                         *)
(* An event's id is taken from a sequence when its row is inserted and can *)
(* be read when its transaction commits, in any order.  Only the event     *)
(* types the code produces are modelled: every role that may connect gets  *)
(* them.                                                                   *)
(*                                                                         *)
(* An operator introduced by "Faulty:" is not part of the specification:   *)
(* it is the operator below it with a plausible mistake.                   *)
(***************************************************************************)
EXTENDS Integers, FiniteSetsExt, SequencesExt

CONSTANTS
    Clients,            \* the browsers of the user, each with its own session
    Writers,            \* transactions that may be writing an event together
    MaxEvents,          \* bound: events written in a behaviour
    ReplayLimit,        \* events a replay may have (1000)
    ConnectionLimit,    \* streams a user may have (3)
    MaxFrames           \* bound: with this many frames received a client stops reconnecting

ASSUME ClientsAssumption == IsFiniteSet(Clients)
ASSUME MaxEventsAssumption == MaxEvents \in Nat
ASSUME MaxFramesAssumption == MaxFrames \in Nat
ASSUME ReplayLimitAssumption == ReplayLimit \in Nat \ {0}
ASSUME ConnectionLimitAssumption == ConnectionLimit \in Nat \ {0}

VARIABLES
    allocated,      \* last value of the id sequence
    writing,        \* id each writer inserted and has not committed, 0 if none
    committed,      \* ids of the OperationEvent rows
    aged,           \* those whose createdAt is more than 24 hours ago
    revoked,        \* sessions revoked, or whose user was deactivated or changed role
    lapsed,         \* sessions whose JWT has expired
    connections,    \* connections.get(user.id)
    stream,         \* the closure of each client's connect call
    received        \* the frames each client has received

databaseVars == <<allocated, writing, committed, aged>>
sessionVars == <<revoked, lapsed>>
vars == <<databaseVars, sessionVars, connections, stream, received>>

Ids == 1..MaxEvents

(***************************************************************************)
(* drain: where the reading side waits.  saved and resuming are start-up:  *)
(* the lookup of the client's cursor and the resync after it; check is the *)
(* session check, query the read of events, answered its rows under way,   *)
(* resync the read of the latest id.                                       *)
(* check: the shared session query, not asked, asked, or its row read.     *)
(* monitor: the 2-second check, joined to a query in progress or fresh.    *)
(***************************************************************************)
Stream == [
    phase: {"idle", "validating", "open"},
    cursor: 0..MaxEvents,
    drain: {"idle", "saved", "resuming", "check", "query", "answered", "resync"},
    rows: SUBSET Ids,
    queued: BOOLEAN,
    subscribed: BOOLEAN,
    check: {"none", "asked", "valid", "invalid"},
    monitor: {"idle", "joined", "fresh"},
    startedRevoked: BOOLEAN,    \* history: the session was revoked when the monitor's round began
    lateReplays: 0..3,          \* history: rounds replayed after the revocation
    base: Nat]                  \* history: frames received before this connection

NoStream == [phase |-> "idle", cursor |-> 0, drain |-> "idle", rows |-> {},
             queued |-> FALSE, subscribed |-> FALSE, check |-> "none",
             monitor |-> "idle", startedRevoked |-> FALSE, lateReplays |-> 0, base |-> 0]

Frame == [id: 0..MaxEvents, resync: BOOLEAN]

TypeOK ==
    /\ allocated \in 0..MaxEvents
    /\ writing \in [Writers -> 0..MaxEvents]
    /\ committed \in SUBSET Ids
    /\ aged \in SUBSET committed
    /\ revoked \in SUBSET Clients
    /\ lapsed \in SUBSET Clients
    /\ connections \in Nat
    /\ stream \in [Clients -> Stream]
    /\ received \in [Clients -> Seq(Frame)]

Init ==
    /\ allocated = 0
    /\ writing = [w \in Writers |-> 0]
    /\ committed = {}
    /\ aged = {}
    /\ revoked = {}
    /\ lapsed = {}
    /\ connections = 0
    /\ stream = [c \in Clients |-> NoStream]
    /\ received = [c \in Clients |-> <<>>]

Open(c) == stream[c].phase = "open"
LastId(c) == IF received[c] = <<>> THEN 0 ELSE Last(received[c]).id
Latest == Max(committed \cup {0})
Becomes(c, s) == stream' = [stream EXCEPT ![c] = s]

-----------------------------------------------------------------------------
(* The sales transactions, the retention window and the sessions. *)

InsertEvent(w) ==
    /\ writing[w] = 0
    /\ allocated < MaxEvents
    /\ allocated' = allocated + 1
    /\ writing' = [writing EXCEPT ![w] = allocated + 1]
    /\ UNCHANGED <<committed, aged, sessionVars, connections, stream, received>>

CommitEvent(w) ==
    /\ writing[w] # 0
    /\ committed' = committed \cup {writing[w]}
    /\ writing' = [writing EXCEPT ![w] = 0]
    /\ UNCHANGED <<allocated, aged, sessionVars, connections, stream, received>>

\* The id stays used.
RollBackEvent(w) ==
    /\ writing[w] # 0
    /\ writing' = [writing EXCEPT ![w] = 0]
    /\ UNCHANGED <<allocated, committed, aged, sessionVars, connections, stream, received>>

AgeEvent(e) ==
    /\ e \in committed \ aged
    /\ aged' = aged \cup {e}
    /\ UNCHANGED <<allocated, writing, committed, sessionVars, connections, stream, received>>

Revoke(c) ==
    /\ c \notin revoked
    /\ revoked' = revoked \cup {c}
    /\ UNCHANGED <<databaseVars, lapsed, connections, stream, received>>

Lapse(c) ==
    /\ c \notin lapsed
    /\ lapsed' = lapsed \cup {c}
    /\ UNCHANGED <<databaseVars, revoked, connections, stream, received>>

-----------------------------------------------------------------------------
(* Parts of the stream's steps. *)

\* close of an open stream, which also cancels what it waits for.
Close(c) ==
    /\ Becomes(c, NoStream)
    /\ connections' = connections - 1

\* The stream ends and its client hears so or not: session.invalid carries no id.
End(c) == Close(c) /\ UNCHANGED received

\* validSession: the query in progress is shared.
AskSession(s) == IF s.check = "none" THEN [s EXCEPT !.check = "asked"] ELSE s

\* Faulty: only the first round checks the session.
StartRoundUnchecked(s) ==
    IF s.subscribed THEN [s EXCEPT !.drain = "query", !.queued = FALSE]
                    ELSE [AskSession(s) EXCEPT !.drain = "check", !.queued = FALSE]

\* A round of drain starts by checking the session.
StartRound(s) == [AskSession(s) EXCEPT !.drain = "check", !.queued = FALSE]

\* Faulty: nobody subscribes the stream.
FinishRoundUnsubscribed(s) ==
    IF s.queued THEN StartRound(s) ELSE [s EXCEPT !.drain = "idle"]

\* The end of drain's loop: again if it was woken meanwhile; the first drain
\* is followed by the subscription.
FinishRound(s) ==
    IF s.queued THEN StartRound(s)
                ELSE [s EXCEPT !.drain = "idle", !.subscribed = TRUE]

\* The ids of a set, each once, in increasing order.
IsInOrder(ids, f) == \A i, j \in 1..Cardinality(ids) : i < j => f[i] < f[j]
InOrder(ids) == CHOOSE f \in [1..Cardinality(ids) -> ids] : IsInOrder(ids, f)

\* write of a frame per id, refused when the JWT has expired.
Deliver(c, ids, resync) ==
    received' = [received EXCEPT ![c] = @ \o
        [i \in 1..Cardinality(ids) |-> [id |-> InOrder(ids)[i], resync |-> resync]]]

-----------------------------------------------------------------------------
(* connect. *)

\* The second conjunct is the bound.
Connect(c) ==
    /\ stream[c].phase = "idle"
    /\ Len(received[c]) < MaxFrames
    /\ Becomes(c, [NoStream EXCEPT !.phase = "validating", !.check = "asked",
                      !.cursor = LastId(c), !.base = Len(received[c])])
    /\ UNCHANGED <<databaseVars, sessionVars, connections, received>>

\* Faulty: revokedAt is not looked at.
ReadSessionIfAny(c) ==
    /\ stream[c].check = "asked"
    /\ Becomes(c, [stream[c] EXCEPT !.check = "valid"])
    /\ UNCHANGED <<databaseVars, sessionVars, connections, received>>

\* The session's row is read; its answer is under way.
ReadSession(c) ==
    /\ stream[c].check = "asked"
    /\ Becomes(c, [stream[c] EXCEPT !.check = IF c \in revoked THEN "invalid" ELSE "valid"])
    /\ UNCHANGED <<databaseVars, sessionVars, connections, received>>

SessionIsValid(c) == stream[c].check = "valid" /\ c \notin lapsed
SessionIsInvalid(c) ==
    stream[c].check = "invalid" \/ (stream[c].check = "valid" /\ c \in lapsed)

\* Faulty: the limit was checked before the session was validated.
AcceptUncounted(c) ==
    LET s == [stream[c] EXCEPT !.phase = "open", !.check = "none"]
    IN  /\ stream[c].phase = "validating"
        /\ SessionIsValid(c)
        /\ connections' = connections + 1
        /\ Becomes(c, IF s.cursor > 0 THEN [s EXCEPT !.drain = "saved"] ELSE StartRound(s))
        /\ UNCHANGED <<databaseVars, sessionVars, received>>

\* The first check has passed: the slot is counted and start-up goes on.
Accept(c) ==
    LET s == [stream[c] EXCEPT !.phase = "open", !.check = "none"]
    IN  /\ stream[c].phase = "validating"
        /\ SessionIsValid(c)
        /\ connections < ConnectionLimit
        /\ connections' = connections + 1
        /\ Becomes(c, IF s.cursor > 0 THEN [s EXCEPT !.drain = "saved"] ELSE StartRound(s))
        /\ UNCHANGED <<databaseVars, sessionVars, received>>

\* Faulty: a slot that was not taken is given back.
RejectReleasing(c) ==
    /\ stream[c].phase = "validating"
    /\ Becomes(c, NoStream)
    /\ connections' = connections - 1
    /\ UNCHANGED <<databaseVars, sessionVars, received>>

\* Invalid session, deadline, no slot, or the client has gone.
Reject(c) ==
    /\ stream[c].phase = "validating"
    /\ Becomes(c, NoStream)
    /\ UNCHANGED <<databaseVars, sessionVars, connections, received>>

\* The lookup of the client's cursor: too old a cursor is resynchronised.
ReadSaved(c) ==
    /\ stream[c].drain = "saved"
    /\ Becomes(c, IF stream[c].cursor \in aged
                  THEN [stream[c] EXCEPT !.drain = "resuming"]
                  ELSE StartRound(stream[c]))
    /\ UNCHANGED <<databaseVars, sessionVars, connections, received>>

-----------------------------------------------------------------------------
(* The session checks of an open stream. *)

\* Faulty: a joined check that was valid is enough.
MonitorAfterTrusting(s) ==
    IF s.monitor = "idle" THEN s ELSE [s EXCEPT !.monitor = "idle"]

\* The monitor after an answer: a joined one may be of a row read before its
\* round began, so it asks again.
MonitorAfter(s) ==
    CASE s.monitor = "joined" -> [AskSession(s) EXCEPT !.monitor = "fresh"]
      [] s.monitor = "fresh"  -> [s EXCEPT !.monitor = "idle"]
      [] s.monitor = "idle"   -> s

\* A valid answer resumes those who waited for it.
SessionAnswersValid(c) ==
    LET s == [stream[c] EXCEPT !.check = "none"]
    IN  /\ Open(c)
        /\ SessionIsValid(c)
        /\ Becomes(c, MonitorAfter(IF s.drain = "check" THEN [s EXCEPT !.drain = "query"]
                                                        ELSE s))
        /\ UNCHANGED <<databaseVars, sessionVars, connections, received>>

SessionAnswersInvalid(c) ==
    /\ Open(c)
    /\ SessionIsInvalid(c)
    /\ End(c)
    /\ UNCHANGED <<databaseVars, sessionVars>>

\* Every 2 seconds; a check has a deadline of 1 second, so that a round, of two
\* at most, is over when the next begins.
Monitor(c) ==
    /\ Open(c)
    /\ stream[c].monitor = "idle"
    /\ Becomes(c, [AskSession(stream[c]) EXCEPT
            !.monitor = IF stream[c].check = "none" THEN "fresh" ELSE "joined",
            !.startedRevoked = c \in revoked])
    /\ UNCHANGED <<databaseVars, sessionVars, connections, received>>

\* The timer at the expiry of the JWT, or a heartbeat after it.
Expiry(c) ==
    /\ Open(c)
    /\ c \in lapsed
    /\ End(c)
    /\ UNCHANGED <<databaseVars, sessionVars>>

-----------------------------------------------------------------------------
(* drain. *)

\* A notification or the 2-second poll.
Wake(c) ==
    /\ Open(c)
    /\ stream[c].subscribed
    /\ Becomes(c, IF stream[c].drain = "idle" THEN StartRound(stream[c])
                  ELSE [stream[c] EXCEPT !.queued = TRUE])
    /\ UNCHANGED <<databaseVars, sessionVars, connections, received>>

ReadEvents(c) ==
    /\ stream[c].drain = "query"
    /\ Becomes(c, [stream[c] EXCEPT !.drain = "answered",
            !.rows = {e \in committed \ aged : e > stream[c].cursor}])
    /\ UNCHANGED <<databaseVars, sessionVars, connections, received>>

\* Faulty: the cursor stays behind the frames.
SendEventsAgain(c) ==
    LET s == stream[c]
    IN  /\ s.drain = "answered"
        /\ Cardinality(s.rows) <= ReplayLimit
        /\ s.rows = {} \/ c \notin lapsed
        /\ Deliver(c, s.rows, FALSE)
        /\ Becomes(c, FinishRound([s EXCEPT !.rows = {}]))
        /\ UNCHANGED <<databaseVars, sessionVars, connections>>

\* The rows arrive: a frame for each, in order.
SendEvents(c) ==
    LET s == stream[c]
    IN  /\ s.drain = "answered"
        /\ Cardinality(s.rows) <= ReplayLimit
        /\ s.rows = {} \/ c \notin lapsed
        /\ Deliver(c, s.rows, FALSE)
        /\ Becomes(c, FinishRound([s EXCEPT !.rows = {},
                !.cursor = Max(s.rows \cup {@}),
                !.lateReplays = IF c \in revoked THEN Min({@ + 1, 3}) ELSE @]))
        /\ UNCHANGED <<databaseVars, sessionVars, connections>>

TooManyEvents(c) ==
    /\ stream[c].drain = "answered"
    /\ Cardinality(stream[c].rows) > ReplayLimit
    /\ Becomes(c, [stream[c] EXCEPT !.drain = "resync", !.rows = {}])
    /\ UNCHANGED <<databaseVars, sessionVars, connections, received>>

\* Faulty: the client is not told.
ResyncSilently(c) ==
    LET s == [stream[c] EXCEPT !.cursor = Latest]
    IN  /\ s.drain \in {"resync", "resuming"}
        /\ c \notin lapsed
        /\ Becomes(c, IF s.drain = "resync" THEN FinishRound(s) ELSE StartRound(s))
        /\ UNCHANGED <<databaseVars, sessionVars, connections, received>>

\* resync: the cursor jumps to the latest event and the client is told to
\* read everything again.
Resync(c) ==
    LET s == [stream[c] EXCEPT !.cursor = Latest]
    IN  /\ s.drain \in {"resync", "resuming"}
        /\ c \notin lapsed
        /\ Deliver(c, {Latest}, TRUE)
        /\ Becomes(c, IF s.drain = "resync" THEN FinishRound(s) ELSE StartRound(s))
        /\ UNCHANGED <<databaseVars, sessionVars, connections>>

\* A frame refused because the JWT has expired.
WriteRefused(c) ==
    /\ c \in lapsed
    /\ \/ stream[c].drain \in {"resync", "resuming"}
       \/ /\ stream[c].drain = "answered"
          /\ stream[c].rows # {}
          /\ Cardinality(stream[c].rows) <= ReplayLimit
    /\ End(c)
    /\ UNCHANGED <<databaseVars, sessionVars>>

\* A deadline or an error of a query, the shutdown or stop of the process, a
\* failed write, the client's disconnection: frames not yet received are lost.
Disconnect(c) ==
    /\ Open(c)
    /\ \E n \in stream[c].base..Len(received[c]) :
        received' = [received EXCEPT ![c] = SubSeq(@, 1, n)]
    /\ Close(c)
    /\ UNCHANGED <<databaseVars, sessionVars>>

SessionStep(c) ==
    ReadSession(c) \/ Accept(c) \/ SessionAnswersValid(c) \/ SessionAnswersInvalid(c)

DrainStep(c) ==
    \/ ReadSaved(c) \/ ReadEvents(c) \/ SendEvents(c)
    \/ TooManyEvents(c) \/ Resync(c) \/ WriteRefused(c)

Next ==
    \/ \E w \in Writers : InsertEvent(w) \/ CommitEvent(w) \/ RollBackEvent(w)
    \/ \E e \in Ids : AgeEvent(e)
    \/ \E c \in Clients :
        \/ Revoke(c) \/ Lapse(c)
        \/ Connect(c) \/ Reject(c) \/ Disconnect(c)
        \/ SessionStep(c) \/ DrainStep(c)
        \/ Monitor(c) \/ Expiry(c) \/ Wake(c)

Spec == Init /\ [][Next]_vars

\* The event loop runs and the database answers (or the deadline disconnects),
\* and the two intervals keep firing.
Fairness ==
    \A c \in Clients :
        /\ WF_vars(SessionStep(c))
        /\ WF_vars(DrainStep(c))
        /\ WF_vars(Monitor(c))
        /\ WF_vars(Wake(c))

FairSpec == Spec /\ Fairness

-----------------------------------------------------------------------------
\* Slots are neither leaked nor given twice, and the limit holds although
\* every connection is validated before it is counted.
ConnectionsAreCounted ==
    /\ connections = Cardinality({c \in Clients : Open(c)})
    /\ connections <= ConnectionLimit

\* A client receives events in the order of their ids and none twice, also
\* over reconnections, lost frames and replays.
FramesInOrder ==
    \A c \in Clients : \A i, j \in DOMAIN received[c] :
        i < j => /\ received[c][i].id <= received[c][j].id
                 /\ ~received[c][j].resync => received[c][i].id < received[c][j].id

\* A client that has received some id has been sent every event up to it that
\* is not older than 24 hours, or was told to read everything again after it.
NothingSkipped ==
    \A c \in Clients : \A e \in committed \ aged :
        e <= LastId(c) =>
            \E i \in DOMAIN received[c] :
                \/ received[c][i] = [id |-> e, resync |-> FALSE]
                \/ received[c][i].resync /\ received[c][i].id >= e

\* Once its session is revoked a stream writes at most two more replays: one
\* of a round already checked, one of a round that joins an older check.
RevocationBoundsReplays ==
    \A c \in Clients : stream[c].lateReplays <= 2

\* A round that began after the revocation ends with its stream.
RoundSeesRevocation ==
    \A c \in Clients :
        /\ Open(c)
        /\ stream[c].monitor # "idle"
        /\ stream[c].startedRevoked
        /\ stream'[c].monitor = "idle"
        => stream'[c].phase # "open"

\* A round of the monitor that begins after the revocation does not end with
\* the stream open, whatever query it joins and whatever the drain waits for.
MonitorSeesRevocation == [][RoundSeesRevocation]_vars

\* A stream that stays open passes every event committed, whether its
\* notification is heard or lost.
EventsAreReached ==
    \A c \in Clients, e \in Ids :
        (Open(c) /\ e \in committed) ~>
            (~Open(c) \/ stream[c].cursor >= e \/ e \in aged)

\* The stream of a session that is not valid any more ends.
RevokedStreamsEnd ==
    \A c \in Clients : (c \in revoked /\ Open(c)) ~> ~Open(c)
===============================================================================

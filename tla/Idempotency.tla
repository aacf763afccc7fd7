----------------------------- MODULE Idempotency -----------------------------
(***************************************************************************)
(* IdempotencyService.execute around the three calls that move stock or    *)
(* end a sale (confirm, void, close): attempts of the same call, made at   *)
(* the same time or again after an answer was lost, reserve a key, run the *)
(* operation and store its response in one serializable transaction.       *)
(*                                                                         *)
(* The operation itself is left open: it may succeed, be refused, or fail, *)
(* at any time, so nothing here relies on the ticket's own status checks.  *)
(*                                                                         *)
(* An operator introduced by "Faulty:" is not part of the specification:   *)
(* it is the operator below it with a plausible mistake.                   *)
(***************************************************************************)
EXTENDS Integers, Sequences

CONSTANTS
    Attempts,               \* HTTP requests that may be in progress together
    Keys,                   \* user, operation, ticket and Idempotency-Key, hashed
    Bodies,                 \* request bodies up to the order of their fields
    None,                   \* no key, no response
    OPTIMISTIC_VERSIONING,  \* the feature flag: a key is required
    MaxRetries,             \* DEFAULT_TRANSACTION_RETRIES
    MaxExecutions           \* bound: operations committed in a behaviour

ASSUME KeysAssumption == None \notin Keys
ASSUME FlagAssumption == OPTIMISTIC_VERSIONING \in BOOLEAN
ASSUME RetriesAssumption == MaxRetries \in Nat
ASSUME MaxExecutionsAssumption == MaxExecutions \in Nat
ASSUME NoneAssumption == None \notin Nat \cup Bodies

VARIABLES
    records,    \* IdempotencyRecord rows by keyHash
    executions, \* history: the operations committed, in commit order
    attempt,    \* how far the server is with each request
    answer      \* the last answer each request's client received

vars == <<records, executions, attempt, answer>>

\* The response of an operation is its place among the executions; a record
\* without response can only come from an earlier version of the program.
Record == [body: Bodies, response: Nat \cup {None}]
NoRecord == [body |-> None, response |-> None]

\* calling: the transaction is to be begun; running: it has found no record;
\* collided: a unique index refused it; committed: the answer is under way.
Stages == {"idle", "calling", "running", "collided", "committed"}
Attempt == [stage: Stages, key: Keys \cup {None}, body: Bodies \cup {None},
            tries: 0..MaxRetries]
NoAttempt == [stage |-> "idle", key |-> None, body |-> None, tries |-> 0]

Outcomes == {"none", "ok", "refused", "key reused", "incomplete", "error"}
Answer == [outcome: Outcomes, key: Keys \cup {None}, body: Bodies \cup {None},
           response: Nat \cup {None}]

TypeOK ==
    /\ records \in [Keys -> Record \cup {NoRecord}]
    /\ executions \in Seq([key: Keys \cup {None}, body: Bodies])
    /\ attempt \in [Attempts -> Attempt]
    /\ answer \in [Attempts -> Answer]

Init ==
    /\ records \in [Keys -> {NoRecord} \cup [body: Bodies, response: {None}]]
    /\ executions = <<>>
    /\ attempt = [r \in Attempts |-> NoAttempt]
    /\ answer = [r \in Attempts |->
        [outcome |-> "none", key |-> None, body |-> None, response |-> None]]

Found(r) == attempt[r].key # None /\ records[attempt[r].key] # NoRecord

To(r, stage) == attempt' = [attempt EXCEPT ![r].stage = stage]

\* The request is over and its client is told so.
Reply(r, outcome, response) ==
    /\ answer' = [answer EXCEPT ![r] =
            [outcome |-> outcome, key |-> attempt[r].key, body |-> attempt[r].body,
             response |-> response]]
    /\ attempt' = [attempt EXCEPT ![r] = NoAttempt]

\* Faulty: the hash of the body is not compared.
ReplayAnyBody(r) ==
    LET record == records[attempt[r].key]
    IN  IF record.response # None
        THEN Reply(r, "ok", record.response)
        ELSE Reply(r, "incomplete", None)

\* replay: expiresAt only chooses between two refusals of an incomplete record.
Replay(r) ==
    LET record == records[attempt[r].key]
    IN  \/ /\ record.body # attempt[r].body
           /\ Reply(r, "key reused", None)
        \/ /\ record.body = attempt[r].body
           /\ record.response # None
           /\ Reply(r, "ok", record.response)
        \/ /\ record.body = attempt[r].body
           /\ record.response = None
           /\ Reply(r, "incomplete", None)

-----------------------------------------------------------------------------
\* A client calls, for the first time or again, with a key or without.
Call(r, key, body) ==
    /\ attempt[r].stage = "idle"
    /\ key = None => ~OPTIMISTIC_VERSIONING
    /\ attempt' = [attempt EXCEPT ![r] =
            [stage |-> "calling", key |-> key, body |-> body, tries |-> 0]]
    /\ UNCHANGED <<records, executions, answer>>

\* Faulty: an expired reservation is taken over.
BeginOverIncomplete(r) ==
    /\ attempt[r].stage = "calling"
    /\ \/ /\ Found(r)
          /\ records[attempt[r].key].response # None
          /\ Replay(r)
          /\ UNCHANGED <<records, executions>>
       \/ /\ Found(r) => records[attempt[r].key].response = None
          /\ To(r, "running")
          /\ records' = [k \in Keys |->
                IF k = attempt[r].key THEN NoRecord ELSE records[k]]
          /\ UNCHANGED <<executions, answer>>

\* The transaction looks for a record: it replays it or goes on to run.
Begin(r) ==
    /\ attempt[r].stage = "calling"
    /\ \/ Found(r) /\ Replay(r)
       \/ ~Found(r) /\ To(r, "running") /\ UNCHANGED answer
    /\ UNCHANGED <<records, executions>>

\* Faulty: the insertion overwrites the record of the other attempt.
CommitOver(r) ==
    /\ attempt[r].stage = "running"
    /\ Len(executions) < MaxExecutions
    /\ executions' = Append(executions,
                            [key |-> attempt[r].key, body |-> attempt[r].body])
    /\ records' = [k \in Keys |->
            IF k = attempt[r].key
            THEN [body |-> attempt[r].body, response |-> Len(executions) + 1]
            ELSE records[k]]
    /\ To(r, "committed")
    /\ UNCHANGED answer

\* create, run and update commit together; keyHash is unique, so only while
\* there is still no record.  Without a key the operation runs alone.
Commit(r) ==
    /\ attempt[r].stage = "running"
    /\ ~Found(r)
    /\ Len(executions) < MaxExecutions
    /\ executions' = Append(executions,
                            [key |-> attempt[r].key, body |-> attempt[r].body])
    /\ records' = [k \in Keys |->
            IF k = attempt[r].key
            THEN [body |-> attempt[r].body, response |-> Len(executions) + 1]
            ELSE records[k]]
    /\ To(r, "committed")
    /\ UNCHANGED answer

\* The operation throws (4xx): the reservation is rolled back with it.
Refuse(r) ==
    /\ attempt[r].stage = "running"
    /\ Reply(r, "refused", None)
    /\ UNCHANGED <<records, executions>>

\* Faulty: one retry too many.
SerializationFailureOnceMore(r) ==
    /\ attempt[r].stage = "running"
    /\ \/ /\ attempt[r].tries <= MaxRetries
          /\ attempt' = [attempt EXCEPT ![r].stage = "calling", ![r].tries = @ + 1]
          /\ UNCHANGED answer
       \/ attempt[r].tries = MaxRetries + 1 /\ Reply(r, "error", None)
    /\ UNCHANGED <<records, executions>>

\* P2034, for this key or for rows the operation touches: from the beginning
\* again, at most MaxRetries times.
SerializationFailure(r) ==
    /\ attempt[r].stage = "running"
    /\ \/ /\ attempt[r].tries < MaxRetries
          /\ attempt' = [attempt EXCEPT ![r].stage = "calling", ![r].tries = @ + 1]
          /\ UNCHANGED answer
       \/ attempt[r].tries = MaxRetries /\ Reply(r, "error", None)
    /\ UNCHANGED <<records, executions>>

\* P2002: the key was inserted by another attempt, or the operation hit
\* another unique index.
UniqueViolation(r) ==
    /\ attempt[r].stage = "running"
    /\ \/ attempt[r].key # None /\ To(r, "collided") /\ UNCHANGED answer
       \/ attempt[r].key = None /\ Reply(r, "error", None)
    /\ UNCHANGED <<records, executions>>

\* Faulty: who loses the key is told the operation was done.
ReadWinnerTrusting(r) ==
    /\ attempt[r].stage = "collided"
    /\ Reply(r, "ok", Len(executions))
    /\ UNCHANGED <<records, executions>>

\* After the rollback the winner's record is read, outside of any transaction.
ReadWinner(r) ==
    /\ attempt[r].stage = "collided"
    /\ \/ Found(r) /\ Replay(r)
       \/ ~Found(r) /\ Reply(r, "error", None)
    /\ UNCHANGED <<records, executions>>

Respond(r) ==
    /\ attempt[r].stage = "committed"
    /\ Reply(r, "ok", IF attempt[r].key # None THEN records[attempt[r].key].response
                                               ELSE None)
    /\ UNCHANGED <<records, executions>>

\* The process stops or the connection breaks: a transaction in progress is
\* rolled back, a committed one stands, and the client hears nothing.
Lose(r) ==
    /\ attempt[r].stage # "idle"
    /\ attempt' = [attempt EXCEPT ![r] = NoAttempt]
    /\ UNCHANGED <<records, executions, answer>>

Next ==
    \E r \in Attempts :
        \/ \E key \in Keys \cup {None}, body \in Bodies : Call(r, key, body)
        \/ Begin(r) \/ Commit(r) \/ Refuse(r)
        \/ SerializationFailure(r) \/ UniqueViolation(r) \/ ReadWinner(r)
        \/ Respond(r) \/ Lose(r)

Spec == Init /\ [][Next]_vars

-----------------------------------------------------------------------------
\* However many times a call is made, and whoever makes it at the same time,
\* its operation is committed at most once per key; and a key has an operation
\* exactly when its record has the response to replay.
OncePerKey ==
    \A k \in Keys : \A i \in DOMAIN executions :
        executions[i].key = k =>
            records[k] = [body |-> executions[i].body, response |-> i]

\* A client told that the call succeeded has the response of the one operation
\* committed for its own key and body, also when another attempt committed it.
SuccessIsOfThisCall ==
    \A r \in Attempts :
        answer[r].outcome = "ok" /\ answer[r].key # None =>
            /\ answer[r].response \in DOMAIN executions
            /\ executions[answer[r].response] =
                    [key |-> answer[r].key, body |-> answer[r].body]

\* A key once recorded is never freed, given another body or another response:
\* an incomplete record of an earlier version is never taken over either.
RecordsAreFinal ==
    [][\A k \in Keys : records[k] # NoRecord => records'[k] = records[k]]_vars
==============================================================================

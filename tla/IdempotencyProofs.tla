-------------------------- MODULE IdempotencyProofs --------------------------
(***************************************************************************)
(* Theorems about Idempotency for every set of attempts, keys and bodies   *)
(* and any number of retries.                                              *)
(***************************************************************************)
EXTENDS Idempotency, TLAPS

\* A response to replay is the one of an execution of that key and body.
RecordsHaveExecutions ==
    \A k \in Keys :
        records[k].response # None =>
            /\ records[k].response \in DOMAIN executions
            /\ executions[records[k].response] = [key |-> k, body |-> records[k].body]

\* An attempt whose answer is under way finds its response in its record.
CommittedIsRecorded ==
    \A r \in Attempts :
        attempt[r].stage = "committed" /\ attempt[r].key # None =>
            /\ records[attempt[r].key].body = attempt[r].body
            /\ records[attempt[r].key].response # None

AttemptsHaveBodies ==
    \A r \in Attempts : attempt[r].stage # "idle" => attempt[r].body \in Bodies

IInv ==
    /\ TypeOK
    /\ AttemptsHaveBodies
    /\ OncePerKey
    /\ RecordsHaveExecutions
    /\ CommittedIsRecorded
    /\ SuccessIsOfThisCall

\* The invariant holds before the first call, also with records left incomplete.
LEMMA IInvInit == Init => IInv
<1> SUFFICES ASSUME Init PROVE IInv
    OBVIOUS
<1>1. records \in [Keys -> Record \cup {NoRecord}]
    BY DEF Init, Record
<1>2. NoAttempt \in Attempt
    BY RetriesAssumption DEF NoAttempt, Attempt, Stages
<1>3. TypeOK
    BY <1>1, <1>2 DEF Init, TypeOK, Answer, Outcomes
<1>4. \A k \in Keys : records[k].response = None
    BY DEF Init, NoRecord
<1>5. QED
    BY <1>3, <1>4 DEF Init, IInv, AttemptsHaveBodies, OncePerKey, RecordsHaveExecutions,
       CommittedIsRecorded, SuccessIsOfThisCall, NoAttempt

\* A record found has the body of a call; NoRecord has no response.
LEMMA RecordShape ==
    ASSUME TypeOK, NEW k \in Keys
    PROVE  /\ records[k] # NoRecord => records[k] \in Record
           /\ records[k] = NoRecord => records[k].response = None
           /\ records[k].response \in Nat \cup {None}
BY DEF TypeOK, Record, NoRecord

\* Telling a client keeps the invariant when a success is told only of the
\* execution of the client's own call (Reply).
LEMMA ReplyKeeps ==
    ASSUME IInv, NEW r \in Attempts, NEW outcome \in Outcomes,
           NEW response \in Nat \cup {None},
           Reply(r, outcome, response),
           UNCHANGED <<records, executions>>,
           outcome = "ok" /\ attempt[r].key # None =>
               /\ response \in DOMAIN executions
               /\ executions[response] = [key |-> attempt[r].key, body |-> attempt[r].body]
    PROVE  IInv'
<1> DEFINE told == [outcome |-> outcome, key |-> attempt[r].key,
                    body |-> attempt[r].body, response |-> response]
<1>1. attempt[r] \in Attempt /\ NoAttempt \in Attempt
    BY RetriesAssumption DEF IInv, TypeOK, NoAttempt, Attempt, Stages
<1>2. told \in Answer
    BY <1>1 DEF Attempt, Answer
<1>3. /\ answer' = [answer EXCEPT ![r] = told]
      /\ attempt' = [attempt EXCEPT ![r] = NoAttempt]
    BY DEF Reply
<1>4. TypeOK'
    BY <1>1, <1>2, <1>3 DEF IInv, TypeOK
<1>5. AttemptsHaveBodies' /\ CommittedIsRecorded'
    BY <1>3 DEF IInv, TypeOK, AttemptsHaveBodies, CommittedIsRecorded, NoAttempt
<1>6. OncePerKey' /\ RecordsHaveExecutions'
    BY DEF IInv, OncePerKey, RecordsHaveExecutions
<1>7. SuccessIsOfThisCall'
    BY <1>3 DEF IInv, TypeOK, SuccessIsOfThisCall
<1>8. QED
    BY <1>4, <1>5, <1>6, <1>7 DEF IInv

\* Moving an attempt to a stage in which nothing is committed keeps the invariant.
LEMMA StageKeeps ==
    ASSUME IInv, NEW r \in Attempts, NEW a \in Attempt,
           attempt' = [attempt EXCEPT ![r] = a],
           a.stage # "committed",
           a.stage # "idle" => a.body \in Bodies,
           UNCHANGED <<records, executions, answer>>
    PROVE  IInv'
<1>1. TypeOK'
    BY DEF IInv, TypeOK
<1>2. AttemptsHaveBodies' /\ CommittedIsRecorded'
    BY DEF IInv, TypeOK, AttemptsHaveBodies, CommittedIsRecorded
<1>3. OncePerKey' /\ RecordsHaveExecutions' /\ SuccessIsOfThisCall'
    BY DEF IInv, OncePerKey, RecordsHaveExecutions, SuccessIsOfThisCall
<1>4. QED
    BY <1>1, <1>2, <1>3 DEF IInv

\* The three answers of a replay are true of the call that gets them.
LEMMA ReplayKeeps ==
    ASSUME IInv, NEW r \in Attempts, Found(r), Replay(r),
           UNCHANGED <<records, executions>>
    PROVE  IInv'
<1> DEFINE k == attempt[r].key
<1>1. k \in Keys
    BY DEF IInv, TypeOK, Attempt, Found
<1>2. CASE records[k].body # attempt[r].body /\ Reply(r, "key reused", None)
    BY <1>2, ReplyKeeps DEF Outcomes
<1>3. CASE /\ records[k].body = attempt[r].body
           /\ records[k].response # None
           /\ Reply(r, "ok", records[k].response)
    <2>1. /\ records[k].response \in DOMAIN executions
          /\ executions[records[k].response] = [key |-> k, body |-> attempt[r].body]
        BY <1>1, <1>3 DEF IInv, RecordsHaveExecutions
    <2>2. records[k].response \in Nat \cup {None}
        BY <1>1, RecordShape DEF IInv
    <2>3. QED
        BY <1>3, <2>1, <2>2, ReplyKeeps DEF Outcomes
<1>4. CASE records[k].response = None /\ Reply(r, "incomplete", None)
    BY <1>4, ReplyKeeps DEF Outcomes
<1>5. QED
    BY <1>2, <1>3, <1>4 DEF Replay

\* A commit adds the one execution of its key and records its response.
LEMMA CommitKeeps ==
    ASSUME IInv, NEW r \in Attempts, Commit(r)
    PROVE  IInv'
<1> DEFINE k == attempt[r].key
           n == Len(executions) + 1
           made == [key |-> k, body |-> attempt[r].body]
<1>1. /\ attempt[r] \in Attempt
      /\ attempt[r].body \in Bodies
      /\ k \in Keys \cup {None}
      /\ executions \in Seq([key: Keys \cup {None}, body: Bodies])
      /\ n \in Nat \ {0}
    BY DEF IInv, TypeOK, Attempt, Commit, AttemptsHaveBodies
<1>2. /\ executions' \in Seq([key: Keys \cup {None}, body: Bodies])
      /\ DOMAIN executions' = DOMAIN executions \cup {n}
      /\ n \notin DOMAIN executions
      /\ executions'[n] = made
      /\ \A i \in DOMAIN executions : executions'[i] = executions[i]
    BY <1>1 DEF Commit
<1>3. \A q \in Keys : records'[q] = IF q = k THEN [body |-> attempt[r].body, response |-> n]
                                            ELSE records[q]
    BY DEF Commit
<1>4. k \in Keys => records[k] = NoRecord
    BY KeysAssumption DEF Commit, Found
<1>5. records' \in [Keys -> Record \cup {NoRecord}]
    <2>1. [body |-> attempt[r].body, response |-> n] \in Record
        BY <1>1 DEF Record
    <2>2. QED
        BY <2>1 DEF IInv, TypeOK, Commit
<1>6. attempt' = [attempt EXCEPT ![r].stage = "committed"] /\ UNCHANGED answer
    BY DEF Commit, To
<1>7. TypeOK'
    <2>1. attempt' \in [Attempts -> Attempt]
        BY <1>6 DEF IInv, TypeOK, Attempt, Stages
    <2>2. QED
        BY <1>2, <1>5, <1>6, <2>1 DEF IInv, TypeOK
<1>8. AttemptsHaveBodies'
    BY <1>1, <1>6 DEF IInv, TypeOK, AttemptsHaveBodies
<1>9. OncePerKey'
    <2> SUFFICES ASSUME NEW q \in Keys, NEW i \in DOMAIN executions', executions'[i].key = q
                 PROVE  records'[q] = [body |-> executions'[i].body, response |-> i]
        BY DEF OncePerKey
    <2>1. CASE i = n
        BY <2>1, <1>2, <1>3
    <2>2. CASE i \in DOMAIN executions
        <3>1. records[q] = [body |-> executions[i].body, response |-> i]
            BY <2>2, <1>2 DEF IInv, OncePerKey
        <3>2. i # None
            BY <2>2, <1>1, NoneAssumption
        <3>3. q # k
            BY <3>1, <3>2, <1>4 DEF NoRecord
        <3>4. QED
            BY <3>1, <3>3, <2>2, <1>2, <1>3
    <2>3. QED
        BY <2>1, <2>2, <1>2
<1>10. RecordsHaveExecutions'
    <2> SUFFICES ASSUME NEW q \in Keys, records'[q].response # None
                 PROVE  /\ records'[q].response \in DOMAIN executions'
                        /\ executions'[records'[q].response] =
                                [key |-> q, body |-> records'[q].body]
        BY DEF RecordsHaveExecutions
    <2>1. CASE q = k
        BY <2>1, <1>2, <1>3
    <2>2. CASE q # k
        BY <2>2, <1>2, <1>3 DEF IInv, RecordsHaveExecutions
    <2>3. QED
        BY <2>1, <2>2
<1>11. CommittedIsRecorded'
    <2> SUFFICES ASSUME NEW u \in Attempts, attempt'[u].stage = "committed",
                        attempt'[u].key # None
                 PROVE  /\ records'[attempt'[u].key].body = attempt'[u].body
                        /\ records'[attempt'[u].key].response # None
        BY DEF CommittedIsRecorded
    <2>1. attempt'[u].key = attempt[u].key /\ attempt'[u].body = attempt[u].body
        BY <1>6 DEF IInv, TypeOK
    <2>2. attempt[u].key \in Keys
        BY <2>1 DEF IInv, TypeOK, Attempt
    <2>3. CASE u = r
        BY <2>1, <2>2, <2>3, <1>1, <1>3, NoneAssumption
    <2>4. CASE u # r
        <3>1. attempt[u].stage = "committed"
            BY <2>4, <1>6 DEF IInv, TypeOK
        <3>2. /\ records[attempt[u].key].body = attempt[u].body
              /\ records[attempt[u].key].response # None
            BY <2>1, <3>1 DEF IInv, CommittedIsRecorded
        <3>3. attempt[u].key # k
            BY <3>2, <2>2, <1>4 DEF NoRecord
        <3>4. QED
            BY <3>2, <3>3, <2>1, <2>2, <1>3
    <2>5. QED
        BY <2>3, <2>4
<1>12. SuccessIsOfThisCall'
    BY <1>2, <1>6 DEF IInv, SuccessIsOfThisCall
<1>13. QED
    BY <1>7, <1>8, <1>9, <1>10, <1>11, <1>12 DEF IInv

\* Every step keeps the invariant.
LEMMA IInvStep == IInv /\ [Next]_vars => IInv'
<1> SUFFICES ASSUME IInv, [Next]_vars PROVE IInv'
    OBVIOUS
<1>1. ASSUME NEW r \in Attempts, NEW key \in Keys \cup {None}, NEW body \in Bodies,
             Call(r, key, body)
      PROVE  IInv'
    <2> DEFINE a == [stage |-> "calling", key |-> key, body |-> body, tries |-> 0]
    <2>1. a \in Attempt
        BY RetriesAssumption DEF Attempt, Stages
    <2>2. QED
        BY <1>1, <2>1, StageKeeps DEF Call
<1>2. ASSUME NEW r \in Attempts, Begin(r) PROVE IInv'
    <2>1. CASE Found(r) /\ Replay(r)
        BY <1>2, <2>1, ReplayKeeps DEF Begin
    <2>2. CASE ~Found(r) /\ To(r, "running") /\ UNCHANGED answer
        <3> DEFINE a == [attempt[r] EXCEPT !.stage = "running"]
        <3>1. a \in Attempt /\ a.stage = "running" /\ a.body \in Bodies
            BY <1>2 DEF IInv, TypeOK, Attempt, Stages, AttemptsHaveBodies, Begin
        <3>2. attempt' = [attempt EXCEPT ![r] = a]
            BY <2>2 DEF To
        <3>3. QED
            BY <1>2, <2>2, <3>1, <3>2, StageKeeps DEF Begin
    <2>3. QED
        BY <1>2, <2>1, <2>2 DEF Begin
<1>3. ASSUME NEW r \in Attempts, Commit(r) PROVE IInv'
    BY <1>3, CommitKeeps
<1>4. ASSUME NEW r \in Attempts, Refuse(r) PROVE IInv'
    BY <1>4, ReplyKeeps DEF Refuse, Outcomes
<1>5. ASSUME NEW r \in Attempts, SerializationFailure(r) PROVE IInv'
    <2>1. CASE attempt[r].tries = MaxRetries /\ Reply(r, "error", None)
        BY <1>5, <2>1, ReplyKeeps DEF SerializationFailure, Outcomes
    <2>2. CASE /\ attempt[r].tries < MaxRetries
               /\ attempt' = [attempt EXCEPT ![r].stage = "calling", ![r].tries = @ + 1]
               /\ UNCHANGED answer
        <3> DEFINE a == [attempt[r] EXCEPT !.stage = "calling", !.tries = @ + 1]
        <3>1. a \in Attempt /\ a.stage = "calling" /\ a.body \in Bodies
            BY <1>5, <2>2, RetriesAssumption
            DEF IInv, TypeOK, Attempt, Stages, AttemptsHaveBodies, SerializationFailure
        <3>2. attempt' = [attempt EXCEPT ![r] = a]
            BY <2>2 DEF IInv, TypeOK
        <3>3. QED
            BY <1>5, <2>2, <3>1, <3>2, StageKeeps DEF SerializationFailure
    <2>3. QED
        BY <1>5, <2>1, <2>2 DEF SerializationFailure
<1>6. ASSUME NEW r \in Attempts, UniqueViolation(r) PROVE IInv'
    <2>1. CASE Reply(r, "error", None)
        BY <1>6, <2>1, ReplyKeeps DEF UniqueViolation, Outcomes
    <2>2. CASE To(r, "collided") /\ UNCHANGED answer
        <3> DEFINE a == [attempt[r] EXCEPT !.stage = "collided"]
        <3>1. a \in Attempt /\ a.stage = "collided" /\ a.body \in Bodies
            BY <1>6 DEF IInv, TypeOK, Attempt, Stages, AttemptsHaveBodies, UniqueViolation
        <3>2. attempt' = [attempt EXCEPT ![r] = a]
            BY <2>2 DEF To
        <3>3. QED
            BY <1>6, <2>2, <3>1, <3>2, StageKeeps DEF UniqueViolation
    <2>3. QED
        BY <1>6, <2>1, <2>2 DEF UniqueViolation
<1>7. ASSUME NEW r \in Attempts, ReadWinner(r) PROVE IInv'
    <2>1. CASE Found(r) /\ Replay(r)
        BY <1>7, <2>1, ReplayKeeps DEF ReadWinner
    <2>2. CASE Reply(r, "error", None)
        BY <1>7, <2>2, ReplyKeeps DEF ReadWinner, Outcomes
    <2>3. QED
        BY <1>7, <2>1, <2>2 DEF ReadWinner
<1>8. ASSUME NEW r \in Attempts, Respond(r) PROVE IInv'
    <2> DEFINE k == attempt[r].key
               response == IF k # None THEN records[k].response ELSE None
    <2>1. k \in Keys \cup {None}
        BY DEF IInv, TypeOK, Attempt
    <2>2. k # None =>
            /\ response \in DOMAIN executions
            /\ executions[response] = [key |-> k, body |-> attempt[r].body]
        BY <1>8, <2>1 DEF IInv, Respond, CommittedIsRecorded, RecordsHaveExecutions
    <2>3. response \in Nat \cup {None}
        BY <2>1, RecordShape DEF IInv
    <2>4. Reply(r, "ok", response) /\ UNCHANGED <<records, executions>>
        BY <1>8 DEF Respond
    <2> HIDE DEF response
    <2>5. QED
        BY <2>2, <2>3, <2>4, ReplyKeeps DEF Outcomes
<1>9. ASSUME NEW r \in Attempts, Lose(r) PROVE IInv'
    <2>1. NoAttempt \in Attempt /\ NoAttempt.stage = "idle"
        BY RetriesAssumption DEF NoAttempt, Attempt, Stages
    <2>2. QED
        BY <1>9, <2>1, StageKeeps DEF Lose
<1>10. CASE UNCHANGED vars
    BY <1>10 DEF vars, IInv, TypeOK, AttemptsHaveBodies, OncePerKey, RecordsHaveExecutions,
       CommittedIsRecorded, SuccessIsOfThisCall
<1>11. QED
    BY <1>1, <1>2, <1>3, <1>4, <1>5, <1>6, <1>7, <1>8, <1>9, <1>10 DEF Next

\* The invariant holds always.
LEMMA IInvariant == Spec => []IInv
BY IInvInit, IInvStep, PTL DEF Spec

\* Records, attempts and their answers keep their types: in particular no attempt
\* is answered from a record that is not there (IdempotencyService.execute).
THEOREM TypeCorrect == Spec => []TypeOK
BY IInvariant, PTL DEF IInv

\* Whatever is called, lost, retried or run at the same time, an operation is
\* committed at most once per key (IdempotencyService.execute).
THEOREM OnceCorrect == Spec => []OncePerKey
BY IInvariant, PTL DEF IInv

\* Success is told only of the execution of the caller's own key and body: a
\* replay never answers with another call (IdempotencyService.replay).
THEOREM SuccessCorrect == Spec => []SuccessIsOfThisCall
BY IInvariant, PTL DEF IInv

\* A record once committed is final: no expiry, retry or other body changes it.
THEOREM RecordsFinal == Spec => RecordsAreFinal
<1>1. Next => \A k \in Keys : records[k] # NoRecord => records'[k] = records[k]
    <2> SUFFICES ASSUME NEW k \in Keys, records[k] # NoRecord, Next
                 PROVE  records'[k] = records[k]
        OBVIOUS
    <2>1. ASSUME NEW r \in Attempts, Commit(r) PROVE records'[k] = records[k]
        BY <2>1, KeysAssumption DEF Commit, Found
    <2>2. ASSUME UNCHANGED records PROVE records'[k] = records[k]
        BY <2>2
    <2>3. QED
        BY <2>1, <2>2 DEF Next, Call, Begin, Refuse, SerializationFailure,
           UniqueViolation, ReadWinner, Respond, Lose
<1>2. QED
    BY <1>1, PTL DEF Spec, RecordsAreFinal
==============================================================================

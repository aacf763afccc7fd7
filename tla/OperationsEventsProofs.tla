------------------------ MODULE OperationsEventsProofs ------------------------
(***************************************************************************)
(* Theorems about OperationsEvents for any number of browsers, writers,    *)
(* events and slots.                                                       *)
(***************************************************************************)
EXTENDS OperationsEvents, FiniteSetTheorems, SequenceTheorems, WellFoundedInduction,
        TLAPS

-----------------------------------------------------------------------------
(* Sets of ids. *)

\* A set of naturals has a least one.
LEMMA LeastOfSet ==
    ASSUME NEW T \in SUBSET Nat, T # {}
    PROVE  \E x \in T : \A y \in T : x <= y
<1>1. PICK x \in T : \A y \in T : ~(<<y, x>> \in OpToRel(<, Nat))
    BY WFMin, NatLessThanWellFounded
<1>2. \A y \in T : ~(y < x)
    BY <1>1, Zenon DEF OpToRel
<1>3. \A y \in T : x <= y
    BY <1>2
<1>4. QED
    BY <1>3

\* A set of ids has a greatest one, and Max returns it.
LEMMA MaxOfIds ==
    ASSUME NEW S \in SUBSET (0..MaxEvents), S # {}
    PROVE  Max(S) \in S /\ \A y \in S : y <= Max(S)
<1> DEFINE T == {MaxEvents - x : x \in S}
<1>1. T \in SUBSET Nat /\ T # {}
    BY MaxEventsAssumption
<1>2. PICK t \in T : \A y \in T : t <= y
    BY <1>1, LeastOfSet
<1>3. PICK m \in S : t = MaxEvents - m
    BY <1>2
<1>4. ASSUME NEW y \in S PROVE m >= y
    <2>1. MaxEvents - y \in T
        OBVIOUS
    <2>2. t <= MaxEvents - y
        BY <1>2, <2>1
    <2>3. QED
        BY <1>3, <2>2, MaxEventsAssumption
<1>5. \E x \in S : \A y \in S : x >= y
    BY <1>4
<1>6. Max(S) \in S /\ \A y \in S : Max(S) >= y
    BY <1>5 DEF Max
<1>7. QED
    BY <1>6, MaxEventsAssumption

\* Ids are finitely many.
LEMMA IdsAreFinite ==
    ASSUME NEW S \in SUBSET (0..MaxEvents)
    PROVE  IsFiniteSet(S) /\ Cardinality(S) \in Nat
<1>1. IsFiniteSet(0..MaxEvents)
    BY FS_Interval, MaxEventsAssumption
<1>2. IsFiniteSet(S)
    BY <1>1, FS_Subset
<1>3. QED
    BY <1>2, FS_CardinalityType

\* Every set of ids can be put in order: put the greatest behind the others.
LEMMA OrderExists ==
    ASSUME NEW S \in SUBSET (0..MaxEvents)
    PROVE  \E f \in [1..Cardinality(S) -> S] : IsInOrder(S, f)
<1> DEFINE Ordered(T) == \E f \in [1..Cardinality(T) -> T] : IsInOrder(T, f)
           Bad == {n \in Nat : \E T \in SUBSET (0..MaxEvents) :
                        Cardinality(T) = n /\ ~Ordered(T)}
<1>1. SUFFICES ASSUME Bad # {} PROVE FALSE
    BY IdsAreFinite
<1>2. PICK n \in Bad : \A k \in Bad : n <= k
    BY <1>1, LeastOfSet
<1>3. PICK T \in SUBSET (0..MaxEvents) : Cardinality(T) = n /\ ~Ordered(T)
    BY <1>2
<1>4. CASE T = {}
    <2>1. Cardinality(T) = 0
        BY <1>4, FS_EmptySet
    <2>2. [i \in 1..0 |-> 0] \in [1..0 -> T]
        OBVIOUS
    <2>3. IsInOrder(T, [i \in 1..0 |-> 0])
        BY <2>1 DEF IsInOrder
    <2>4. QED
        BY <1>3, <2>1, <2>2, <2>3
<1>5. CASE T # {}
    <2> DEFINE m == Max(T)
               R == T \ {m}
    <2>1. m \in T /\ \A y \in T : y <= m
        BY <1>5, MaxOfIds
    <2>2. Cardinality(R) = n - 1 /\ n \in Nat \ {0}
        <3>1. Cardinality(R) = n - 1
            BY <1>3, <2>1, IdsAreFinite, FS_RemoveElement
        <3>2. Cardinality(R) \in Nat /\ n \in Nat
            BY <1>2, IdsAreFinite
        <3>3. QED
            BY <3>1, <3>2
    <2>3. PICK f \in [1..(n - 1) -> R] : IsInOrder(R, f)
        <3>1. n - 1 \notin Bad
            BY <1>2, <2>2
        <3>2. R \in SUBSET (0..MaxEvents)
            OBVIOUS
        <3> n - 1 \in Nat
            BY ONLY <2>2
        <3>3. Ordered(R)
            BY <3>1, <3>2, <2>2
        <3>4. QED
            BY <3>3, <2>2
    <2> DEFINE g == [i \in 1..n |-> IF i = n THEN m ELSE f[i]]
    <2>4. g \in [1..n -> T]
        BY <2>1, <2>2
    <2>5. IsInOrder(T, g)
        <3> SUFFICES ASSUME NEW i \in 1..n, NEW j \in 1..n, i < j PROVE g[i] < g[j]
            BY <1>3 DEF IsInOrder
        <3>1. i \in 1..(n - 1) /\ f[i] \in R /\ g[i] = f[i]
            BY <2>2
        <3>2. CASE j = n
            <4>1. f[i] \in T /\ f[i] # m /\ f[i] <= m
                BY <2>1, <3>1
            <4>2. g[i] = f[i] /\ g[j] = m
                BY <3>1, <3>2
            <4>3. f[i] \in 0..MaxEvents /\ m \in 0..MaxEvents
                BY <2>1, <4>1
            <4> HIDE DEF m, R, g
            <4>4. QED
                BY <4>1, <4>2, <4>3, MaxEventsAssumption
        <3>3. CASE j # n
            <4>1. j \in 1..(n - 1) /\ g[j] = f[j]
                BY <2>2, <3>3
            <4>2. f[i] < f[j]
                BY <2>2, <2>3, <3>1, <4>1 DEF IsInOrder
            <4>3. QED
                BY <3>1, <4>1, <4>2
        <3>4. QED
            BY <3>2, <3>3
    <2>6. QED
        BY <1>3, <2>4, <2>5
<1>6. QED
    BY <1>4, <1>5

\* What InOrder returns.
LEMMA InOrderCorrect ==
    ASSUME NEW S \in SUBSET (0..MaxEvents)
    PROVE  /\ InOrder(S) \in [1..Cardinality(S) -> S]
           /\ \A i, j \in 1..Cardinality(S) : i < j => InOrder(S)[i] < InOrder(S)[j]
BY OrderExists DEF InOrder, IsInOrder

-----------------------------------------------------------------------------
(* The records of streams. *)

\* A record that asks for the session, starts or finishes a round, or goes on
\* with its monitor, is of the same stream and as far as before.
SameStream(s, new) ==
    /\ new \in Stream
    /\ new.phase = s.phase /\ new.cursor = s.cursor /\ new.rows = s.rows
    /\ new.lateReplays = s.lateReplays /\ new.startedRevoked = s.startedRevoked

\* The check of a stream that wants the session looked at.
Asked(check) == IF check = "none" THEN "asked" ELSE check

\* Asking changes the check only.
LEMMA AskSessionIs ==
    ASSUME NEW s \in Stream
    PROVE  /\ SameStream(s, AskSession(s))
           /\ AskSession(s).check = Asked(s.check)
           /\ AskSession(s).drain = s.drain /\ AskSession(s).monitor = s.monitor
           /\ AskSession(s).subscribed = s.subscribed
BY DEF SameStream, AskSession, Stream, Asked

\* A round begins with the check.
LEMMA StartRoundIs ==
    ASSUME NEW s \in Stream
    PROVE  /\ SameStream(s, StartRound(s))
           /\ StartRound(s).check = Asked(s.check)
           /\ StartRound(s).drain = "check" /\ StartRound(s).monitor = s.monitor
           /\ StartRound(s).subscribed = s.subscribed
BY DEF SameStream, StartRound, AskSession, Stream, Asked

\* A round ends, or the next begins.
LEMMA FinishRoundIs ==
    ASSUME NEW s \in Stream
    PROVE  /\ SameStream(s, FinishRound(s))
           /\ FinishRound(s).check \in {s.check, Asked(s.check)}
           /\ FinishRound(s).drain \in {"check", "idle"}
           /\ FinishRound(s).monitor = s.monitor
<1>1. CASE s.queued
    BY <1>1, StartRoundIs DEF FinishRound
<1>2. CASE ~s.queued
    BY <1>2 DEF FinishRound, SameStream, Stream
<1>3. QED
    BY <1>1, <1>2

\* The monitor goes from a joined check to a fresh one, and ends with it.
LEMMA MonitorAfterIs ==
    ASSUME NEW s \in Stream
    PROVE  /\ SameStream(s, MonitorAfter(s))
           /\ MonitorAfter(s).check \in {s.check, Asked(s.check)}
           /\ MonitorAfter(s).drain = s.drain
           /\ MonitorAfter(s).monitor = IF s.monitor = "joined" THEN "fresh" ELSE "idle"
BY DEF MonitorAfter, SameStream, AskSession, Stream, Asked

-----------------------------------------------------------------------------
(* Types and slots. *)

TypeInv == TypeOK /\ ConnectionsAreCounted

Streaming == {c \in Clients : Open(c)}

\* There are none at first.
LEMMA TypeInvInit == Init => TypeInv
<1> SUFFICES ASSUME Init PROVE TypeInv
    OBVIOUS
<1>1. NoStream \in Stream
    BY MaxEventsAssumption DEF NoStream, Stream
<1>2. TypeOK
    BY <1>1, MaxEventsAssumption DEF Init, TypeOK
<1>3. {c \in Clients : Open(c)} = {}
    BY DEF Init, Open, NoStream
<1>4. ConnectionsAreCounted
    BY <1>3, FS_EmptySet, ConnectionLimitAssumption DEF Init, ConnectionsAreCounted
<1>5. QED
    BY <1>2, <1>4 DEF TypeInv

\* A step of a stream that neither opens nor closes it takes and gives no slot.
LEMMA KeepsSlots ==
    ASSUME TypeInv, NEW c \in Clients, NEW s \in Stream, Becomes(c, s),
           (s.phase = "open") <=> Open(c), UNCHANGED connections
    PROVE  stream' \in [Clients -> Stream] /\ ConnectionsAreCounted'
<1>1. stream' \in [Clients -> Stream]
    BY DEF Becomes, TypeInv, TypeOK
<1>2. {d \in Clients : Open(d)}' = {d \in Clients : Open(d)}
    BY DEF Becomes, Open, TypeInv, TypeOK
<1>3. QED
    BY <1>1, <1>2 DEF TypeInv, ConnectionsAreCounted

\* A stream that closes gives its slot back.
LEMMA CloseGivesBack ==
    ASSUME TypeInv, NEW c \in Clients, Open(c), Close(c)
    PROVE  /\ stream' \in [Clients -> Stream] /\ connections' \in Nat
           /\ ConnectionsAreCounted'
<1>1. stream' \in [Clients -> Stream]
    BY MaxEventsAssumption DEF Close, Becomes, TypeInv, TypeOK, NoStream, Stream
<1>2. Streaming' = Streaming \ {c} /\ c \in Streaming
    BY DEF Streaming, Close, Becomes, Open, TypeInv, TypeOK, NoStream
<1>3. IsFiniteSet(Streaming)
    BY ClientsAssumption, FS_Subset DEF Streaming
<1>4. Cardinality(Streaming \ {c}) = Cardinality(Streaming) - 1
    BY <1>2, <1>3, FS_RemoveElement
<1>5. Cardinality(Streaming \ {c}) \in Nat
    BY <1>3, FS_RemoveElement, FS_CardinalityType
<1>6. connections = Cardinality(Streaming) /\ connections <= ConnectionLimit /\ connections \in Nat
    BY DEF TypeInv, TypeOK, ConnectionsAreCounted, Streaming
<1>7. connections' = Cardinality(Streaming') /\ connections' <= ConnectionLimit
      /\ connections' \in Nat
    BY <1>2, <1>4, <1>5, <1>6, ConnectionLimitAssumption DEF Close
<1>8. QED
    BY <1>1, <1>7 DEF ConnectionsAreCounted, Streaming

\* An accepted stream is open, with its check answered or asked again.
LEMMA AcceptIs ==
    ASSUME TypeOK, NEW c \in Clients, Accept(c)
    PROVE  \E s \in Stream :
            /\ Becomes(c, s) /\ s.phase = "open"
            /\ s.cursor = stream[c].cursor /\ s.rows = stream[c].rows
            /\ s.drain \in {"saved", "check"} /\ s.check \in {"none", "asked"}
            /\ s.monitor = stream[c].monitor /\ s.startedRevoked = stream[c].startedRevoked
            /\ s.lateReplays = stream[c].lateReplays
            /\ stream[c].phase = "validating" /\ stream[c].check = "valid"
<1> DEFINE s == [stream[c] EXCEPT !.phase = "open", !.check = "none"]
           saved == [s EXCEPT !.drain = "saved"]
<1>1. /\ s \in Stream /\ s.phase = "open" /\ s.check = "none"
      /\ s.cursor = stream[c].cursor /\ s.rows = stream[c].rows
      /\ s.monitor = stream[c].monitor /\ s.startedRevoked = stream[c].startedRevoked
      /\ s.lateReplays = stream[c].lateReplays
    <2>1. stream[c] \in Stream
        BY DEF TypeOK
    <2>2. QED
        BY <2>1 DEF Stream
<1>2. /\ saved \in Stream /\ saved.phase = "open" /\ saved.check = "none"
      /\ saved.cursor = s.cursor /\ saved.rows = s.rows /\ saved.drain = "saved"
      /\ saved.monitor = s.monitor /\ saved.startedRevoked = s.startedRevoked
      /\ saved.lateReplays = s.lateReplays
    <2> HIDE DEF s
    <2>1. QED
        BY <1>1 DEF Stream
<1>3. stream[c].phase = "validating" /\ stream[c].check = "valid"
    BY DEF Accept, SessionIsValid
<1>4. Becomes(c, saved) \/ Becomes(c, StartRound(s))
    BY DEF Accept
<1> HIDE DEF s, saved
<1>5. CASE Becomes(c, saved)
    BY <1>1, <1>2, <1>3, <1>5
<1>6. CASE Becomes(c, StartRound(s))
    BY <1>1, <1>3, <1>6, StartRoundIs DEF SameStream, Asked
<1>7. QED
    BY <1>4, <1>5, <1>6

\* The slot of an accepted stream was free when it was counted.
LEMMA AcceptTakesSlot ==
    ASSUME TypeInv, NEW c \in Clients, Accept(c)
    PROVE  TypeInv'
<1>1. TypeOK
    BY DEF TypeInv
<1>2. PICK new \in Stream :
        Becomes(c, new) /\ new.phase = "open" /\ stream[c].phase = "validating"
    BY <1>1, AcceptIs
<1>3. connections' = connections + 1 /\ connections < ConnectionLimit
      /\ UNCHANGED <<databaseVars, sessionVars, received>>
    BY DEF Accept
<1>4. stream' \in [Clients -> Stream]
    BY <1>2, <1>3 DEF Becomes, TypeInv, TypeOK
<1>5. Streaming' = Streaming \cup {c} /\ c \notin Streaming
    BY <1>2, <1>3 DEF Streaming, Becomes, Open, TypeInv, TypeOK
<1>6. Cardinality(Streaming \cup {c}) = Cardinality(Streaming) + 1
    <2>1. IsFiniteSet(Streaming)
        BY ClientsAssumption, FS_Subset DEF Streaming
    <2>2. QED
        BY <1>5, <2>1, FS_AddElement
<1>7. connections = Cardinality(Streaming) /\ connections \in Nat
    BY DEF TypeInv, TypeOK, ConnectionsAreCounted, Streaming
<1>8. connections' \in Nat /\ connections' = Cardinality(Streaming')
      /\ connections' <= ConnectionLimit
    BY <1>3, <1>5, <1>6, <1>7, ConnectionLimitAssumption
<1>9. QED
    BY <1>3, <1>4, <1>8 DEF TypeInv, TypeOK, ConnectionsAreCounted, Streaming,
                            databaseVars, sessionVars

-----------------------------------------------------------------------------
(* Frames. *)

\* The frames of a replay or of a resync come behind those received before.
Delivered(c, ids, resync) ==
    LET n == Len(received[c])
    IN  /\ received' \in [Clients -> Seq(Frame)]
        /\ \A d \in Clients \ {c} : received'[d] = received[d]
        /\ Len(received'[c]) = n + Cardinality(ids)
        /\ \A i \in 1..n : received'[c][i] = received[c][i]
        /\ \A i \in 1..Cardinality(ids) : received'[c][n + i] = [id |-> InOrder(ids)[i], resync |-> resync]

LEMMA DeliverIs ==
    ASSUME TypeOK, NEW c \in Clients, NEW ids \in SUBSET (0..MaxEvents),
           NEW resync \in BOOLEAN, Deliver(c, ids, resync)
    PROVE  Delivered(c, ids, resync)
<1> DEFINE new == [i \in 1..Cardinality(ids) |-> [id |-> InOrder(ids)[i], resync |-> resync]]
<1>1. Cardinality(ids) \in Nat
    BY IdsAreFinite
<1>2. \A i \in 1..Cardinality(ids) : InOrder(ids)[i] \in 0..MaxEvents
    BY InOrderCorrect
<1>3. new \in Seq(Frame) /\ Len(new) = Cardinality(ids)
    <2>1. new \in [1..Cardinality(ids) -> Frame]
        BY <1>2 DEF Frame
    <2> HIDE DEF new
    <2>2. new \in Seq(Frame)
        BY <1>1, <2>1, SeqDef
    <2>3. DOMAIN new = 1..Cardinality(ids) /\ DOMAIN new = 1..Len(new) /\ Len(new) \in Nat
        BY <2>1, <2>2, LenProperties
    <2>4. QED
        BY <1>1, <2>2, <2>3
<1>4. received[c] \in Seq(Frame) /\ received \in [Clients -> Seq(Frame)]
    BY DEF TypeOK
<1>5. received' = [received EXCEPT ![c] = received[c] \o new]
    BY DEF Deliver
<1>6. \A i \in 1..Cardinality(ids) : new[i] = [id |-> InOrder(ids)[i], resync |-> resync]
    OBVIOUS
<1> HIDE DEF new
<1>7. received'[c] = received[c] \o new /\ \A d \in Clients \ {c} : received'[d] = received[d]
    BY <1>4, <1>5
<1>8. received[c] \o new \in Seq(Frame) /\ received' \in [Clients -> Seq(Frame)]
    BY <1>3, <1>4, <1>5
<1>9. \A i \in 1..Cardinality(ids) : received'[c][Len(received[c]) + i] = new[i]
    BY <1>1, <1>3, <1>4, <1>7
<1>10. /\ Len(received'[c]) = Len(received[c]) + Cardinality(ids)
       /\ \A i \in 1..Len(received[c]) : received'[c][i] = received[c][i]
    <2> DEFINE old == received[c]
    <2>1. old \in Seq(Frame) /\ Len(old) \in Nat
        BY <1>4
    <2>2. received'[c] = old \o new
        BY <1>7
    <2> HIDE DEF old
    <2>3. /\ Len(old \o new) = Len(old) + Len(new)
          /\ \A i \in 1..Len(old) + Len(new) : i <= Len(old) => (old \o new)[i] = old[i]
        BY <1>3, <2>1, ConcatProperties
    <2>4. \A i \in 1..Len(old) : i \in 1..Len(old) + Len(new) /\ i <= Len(old)
        BY <1>1, <1>3, <2>1
    <2>5. /\ Len(received'[c]) = Len(old) + Cardinality(ids)
          /\ \A i \in 1..Len(old) : received'[c][i] = old[i]
        BY <1>3, <2>2, <2>3, <2>4
    <2>6. QED
        BY <2>5 DEF old
<1>11. QED
    BY <1>6, <1>7, <1>8, <1>9, <1>10 DEF Delivered

\* The id a client would connect with again.
LEMMA LastIdIs ==
    ASSUME TypeOK, NEW c \in Clients
    PROVE  /\ LastId(c) \in 0..MaxEvents
           /\ received[c] = <<>> => LastId(c) = 0
           /\ received[c] # <<>> => LastId(c) = received[c][Len(received[c])].id
<1>1. received[c] \in Seq(Frame)
    BY DEF TypeOK
<1>2. CASE received[c] = <<>>
    BY <1>2, MaxEventsAssumption DEF LastId
<1>3. CASE received[c] # <<>>
    <2>1. LastId(c) = received[c][Len(received[c])].id
        BY <1>3 DEF LastId, Last
    <2>2. received[c][Len(received[c])] \in Frame
        BY <1>1, <1>3
    <2>3. QED
        BY <1>3, <2>1, <2>2 DEF Frame
<1>4. QED
    BY <1>2, <1>3

\* The latest event, or 0 before the first.
LEMMA LatestIs ==
    ASSUME TypeOK
    PROVE  /\ Latest \in committed \cup {0} /\ Latest \in 0..MaxEvents
           /\ \A e \in committed \cup {0} : e <= Latest
<1>1. committed \cup {0} \in SUBSET (0..MaxEvents)
    BY MaxEventsAssumption DEF TypeOK, Ids
<1>2. QED
    BY <1>1, MaxOfIds DEF Latest

\* The frames of a connection that breaks are a beginning of those sent.
LEMMA DisconnectKeepsBeginning ==
    ASSUME TypeOK, NEW c \in Clients, NEW n \in stream[c].base..Len(received[c]),
           received' = [received EXCEPT ![c] = SubSeq(@, 1, n)]
    PROVE  /\ received' \in [Clients -> Seq(Frame)]
           /\ \A d \in Clients \ {c} : received'[d] = received[d]
           /\ n \in Nat /\ Len(received'[c]) = n /\ n <= Len(received[c])
           /\ \A i \in 1..n : received'[c][i] = received[c][i]
<1>1. received \in [Clients -> Seq(Frame)] /\ received[c] \in Seq(Frame)
      /\ stream[c].base \in Nat
    BY DEF TypeOK, Stream
<1>2. n \in Nat /\ n <= Len(received[c])
    BY <1>1
<1>3. received'[c] = SubSeq(received[c], 1, n) /\ \A d \in Clients \ {c} : received'[d] = received[d]
    BY <1>1
<1>4. /\ SubSeq(received[c], 1, n) \in Seq(Frame)
      /\ Len(SubSeq(received[c], 1, n)) = n
      /\ \A i \in 1..n : SubSeq(received[c], 1, n)[i] = received[c][i]
    BY <1>1, <1>2
<1>5. QED
    BY <1>1, <1>2, <1>3, <1>4

-----------------------------------------------------------------------------
(* What the longer steps make of their stream. *)

\* The stream of c is new, and the rest of the system is as it was.
LEMMA BecomesIs ==
    ASSUME TypeOK, NEW c \in Clients, NEW s, Becomes(c, s)
    PROVE  stream'[c] = s /\ \A d \in Clients \ {c} : stream'[d] = stream[d]
BY DEF Becomes, TypeOK

\* A replay: the cursor moves to the last frame.
LEMMA SendEventsIs ==
    ASSUME TypeOK, NEW c \in Clients, SendEvents(c)
    PROVE  /\ stream'[c] \in Stream /\ Becomes(c, stream'[c])
           /\ stream'[c].phase = stream[c].phase
           /\ stream[c].rows \cup {stream[c].cursor} \in SUBSET (0..MaxEvents)
           /\ stream'[c].cursor = Max(stream[c].rows \cup {stream[c].cursor})
           /\ stream'[c].rows = {} /\ stream'[c].drain \in {"check", "idle"}
           /\ stream'[c].check \in {stream[c].check, Asked(stream[c].check)}
           /\ stream'[c].monitor = stream[c].monitor
           /\ stream'[c].startedRevoked = stream[c].startedRevoked
           /\ stream'[c].lateReplays = IF c \in revoked /\ stream[c].lateReplays < 3
                                       THEN stream[c].lateReplays + 1 ELSE stream[c].lateReplays
           /\ Delivered(c, stream[c].rows, FALSE)
<1> DEFINE s == stream[c]
           late == IF c \in revoked THEN Min({s.lateReplays + 1, 3}) ELSE s.lateReplays
           sent == [s EXCEPT !.rows = {}, !.cursor = Max(s.rows \cup {@}),
                             !.lateReplays = IF c \in revoked THEN Min({@ + 1, 3}) ELSE @]
<1>1. s \in Stream
    BY DEF TypeOK
<1>2. s.rows \cup {s.cursor} \in SUBSET (0..MaxEvents)
    BY <1>1 DEF Stream, Ids
<1>3. Max(s.rows \cup {s.cursor}) \in 0..MaxEvents
    BY <1>2, MaxOfIds
<1>4. late = IF c \in revoked /\ s.lateReplays < 3 THEN s.lateReplays + 1 ELSE s.lateReplays
    <2>1. s.lateReplays \in 0..3
        BY <1>1 DEF Stream
    <2> HIDE DEF s
    <2>2. CASE c \in revoked
        <3>1. CASE s.lateReplays < 3
            <4>1. \A x \in {s.lateReplays + 1, 3} : s.lateReplays + 1 <= x
                BY <2>1, <3>1
            <4>2. Min({s.lateReplays + 1, 3}) = s.lateReplays + 1
                BY <2>1, <4>1 DEF Min
            <4>3. QED
                BY <2>2, <3>1, <4>2
        <3>2. CASE s.lateReplays = 3
            <4>1. Min({4, 3}) = 3
                BY DEF Min
            <4>2. QED
                BY <2>2, <3>2, <4>1
        <3>3. QED
            BY <2>1, <3>1, <3>2
    <2>3. CASE c \notin revoked
        BY <2>3
    <2>4. QED
        BY <2>2, <2>3
<1>5. late \in 0..3
    <2>1. s.lateReplays \in 0..3
        BY <1>1 DEF Stream
    <2>2. QED
        BY <1>4, <2>1
<1>6. sent = [s EXCEPT !.rows = {}, !.cursor = Max(s.rows \cup {s.cursor}), !.lateReplays = late]
    OBVIOUS
<1>7. Deliver(c, s.rows, FALSE) /\ Becomes(c, FinishRound(sent)) /\ s.drain = "answered"
    BY DEF SendEvents
<1> HIDE DEF s, late, sent
<1>8. /\ sent \in Stream /\ sent.phase = s.phase /\ sent.rows = {} /\ sent.check = s.check
      /\ sent.cursor = Max(s.rows \cup {s.cursor}) /\ sent.monitor = s.monitor
      /\ sent.startedRevoked = s.startedRevoked /\ sent.lateReplays = late
    BY <1>1, <1>3, <1>5, <1>6 DEF Stream
<1>9. stream'[c] = FinishRound(sent)
    BY <1>7, BecomesIs
<1>10. s.rows \in SUBSET (0..MaxEvents)
    BY <1>2
<1>11. Delivered(c, s.rows, FALSE)
    BY <1>7, <1>10, DeliverIs
<1>12. QED
    BY <1>2, <1>4, <1>7, <1>8, <1>9, <1>11, FinishRoundIs DEF SameStream, s

\* A resync: the cursor moves to the latest event.
LEMMA ResyncIs ==
    ASSUME TypeOK, NEW c \in Clients, Resync(c)
    PROVE  /\ stream'[c] \in Stream /\ Becomes(c, stream'[c])
           /\ stream'[c].phase = stream[c].phase /\ stream'[c].rows = stream[c].rows
           /\ stream'[c].cursor = Latest
           /\ stream'[c].drain \in {"check", "idle"} /\ stream[c].drain # "idle"
           /\ stream'[c].check \in {stream[c].check, Asked(stream[c].check)}
           /\ stream'[c].monitor = stream[c].monitor
           /\ stream'[c].startedRevoked = stream[c].startedRevoked
           /\ stream'[c].lateReplays = stream[c].lateReplays
           /\ Delivered(c, {Latest}, TRUE)
<1> DEFINE s == [stream[c] EXCEPT !.cursor = Latest]
<1>1. stream[c] \in Stream /\ Latest \in 0..MaxEvents
    BY LatestIs DEF TypeOK
<1>2. /\ s \in Stream /\ s.phase = stream[c].phase /\ s.rows = stream[c].rows
      /\ s.cursor = Latest /\ s.drain = stream[c].drain /\ s.check = stream[c].check
      /\ s.monitor = stream[c].monitor /\ s.startedRevoked = stream[c].startedRevoked
      /\ s.lateReplays = stream[c].lateReplays
    BY <1>1 DEF Stream
<1>3. /\ s.drain \in {"resync", "resuming"} /\ Deliver(c, {Latest}, TRUE)
      /\ Becomes(c, FinishRound(s)) \/ Becomes(c, StartRound(s))
    BY DEF Resync
<1> HIDE DEF s
<1>4. stream'[c] = FinishRound(s) \/ stream'[c] = StartRound(s)
    BY <1>3, BecomesIs
<1>5. {Latest} \in SUBSET (0..MaxEvents)
    BY <1>1
<1>6. Delivered(c, {Latest}, TRUE)
    BY <1>3, <1>5, DeliverIs
<1>7. Becomes(c, stream'[c])
    BY <1>3, BecomesIs
<1>8. /\ SameStream(s, stream'[c]) /\ stream'[c].drain \in {"check", "idle"}
      /\ stream'[c].check \in {s.check, Asked(s.check)} /\ stream'[c].monitor = s.monitor
    <2>1. CASE stream'[c] = FinishRound(s)
        BY <1>2, <2>1, FinishRoundIs
    <2>2. CASE stream'[c] = StartRound(s)
        BY <1>2, <2>2, StartRoundIs
    <2>3. QED
        BY <1>4, <2>1, <2>2
<1>9. stream[c].drain # "idle"
    BY <1>2, <1>3
<1>10. QED
    BY <1>2, <1>6, <1>7, <1>8, <1>9 DEF SameStream

\* A valid answer: the drain and the monitor that waited go on.
LEMMA SessionAnswersValidIs ==
    ASSUME TypeOK, NEW c \in Clients, SessionAnswersValid(c)
    PROVE  /\ stream'[c] \in Stream /\ Becomes(c, stream'[c])
           /\ stream'[c].phase = "open" /\ stream[c].phase = "open"
           /\ stream'[c].rows = stream[c].rows /\ stream'[c].cursor = stream[c].cursor
           /\ stream[c].check = "valid" /\ stream'[c].check \in {"none", "asked"}
           /\ stream'[c].drain = IF stream[c].drain = "check" THEN "query" ELSE stream[c].drain
           /\ stream'[c].monitor = IF stream[c].monitor = "joined" THEN "fresh" ELSE "idle"
           /\ stream'[c].startedRevoked = stream[c].startedRevoked
           /\ stream'[c].lateReplays = stream[c].lateReplays
<1> DEFINE s == [stream[c] EXCEPT !.check = "none"]
           t == IF s.drain = "check" THEN [s EXCEPT !.drain = "query"] ELSE s
<1>1. stream[c] \in Stream
    BY DEF TypeOK
<1>2. /\ t \in Stream /\ t.phase = stream[c].phase /\ t.rows = stream[c].rows
      /\ t.cursor = stream[c].cursor /\ t.check = "none"
      /\ t.drain = IF stream[c].drain = "check" THEN "query" ELSE stream[c].drain
      /\ t.monitor = stream[c].monitor /\ t.startedRevoked = stream[c].startedRevoked
      /\ t.lateReplays = stream[c].lateReplays
    BY <1>1 DEF Stream
<1>3. Becomes(c, MonitorAfter(t)) /\ stream[c].phase = "open" /\ stream[c].check = "valid"
    BY DEF SessionAnswersValid, Open, SessionIsValid
<1> HIDE DEF s, t
<1>4. stream'[c] = MonitorAfter(t)
    BY <1>3, BecomesIs
<1>5. QED
    BY <1>2, <1>3, <1>4, MonitorAfterIs DEF SameStream, Asked

-----------------------------------------------------------------------------
(* Every step. *)

\* A step of a stream that keeps its phase, whatever it sends.
LEMMA StepKeepsTypes ==
    ASSUME TypeInv, NEW c \in Clients, NEW s \in Stream, Becomes(c, s),
           (s.phase = "open") <=> Open(c),
           UNCHANGED <<databaseVars, sessionVars, connections>>,
           received' \in [Clients -> Seq(Frame)]
    PROVE  TypeInv'
<1>1. stream' \in [Clients -> Stream] /\ ConnectionsAreCounted'
    BY KeepsSlots
<1>2. QED
    BY <1>1 DEF TypeInv, TypeOK, databaseVars, sessionVars

\* A step that ends a stream.
LEMMA CloseKeepsTypes ==
    ASSUME TypeInv, NEW c \in Clients, Open(c), Close(c),
           UNCHANGED <<databaseVars, sessionVars>>, received' \in [Clients -> Seq(Frame)]
    PROVE  TypeInv'
<1>1. stream' \in [Clients -> Stream] /\ connections' \in Nat /\ ConnectionsAreCounted'
    BY CloseGivesBack
<1>2. QED
    BY <1>1 DEF TypeInv, TypeOK, databaseVars, sessionVars

\* The steps by which one stream ends.
Ends(c) ==
    SessionAnswersInvalid(c) \/ Expiry(c) \/ WriteRefused(c) \/ Disconnect(c)

\* Only an open stream drains.
DrainsWhenOpen ==
    \A c \in Clients : stream[c].phase # "open" =>
        stream[c].drain = "idle" /\ stream[c].monitor = "idle" /\ ~stream[c].subscribed

\* Whichever way a stream ends it was open, and the database is as it was.
LEMMA EndsIs ==
    ASSUME TypeOK, DrainsWhenOpen, NEW c \in Clients, Ends(c)
    PROVE  /\ Open(c) /\ Close(c) /\ UNCHANGED <<databaseVars, sessionVars>>
           /\ received' \in [Clients -> Seq(Frame)]
           /\ \/ UNCHANGED received
              \/ \E n \in stream[c].base..Len(received[c]) :
                    received' = [received EXCEPT ![c] = SubSeq(@, 1, n)]
<1>1. CASE SessionAnswersInvalid(c) \/ Expiry(c)
    BY <1>1 DEF SessionAnswersInvalid, Expiry, End, TypeOK
<1>2. CASE WriteRefused(c)
    BY <1>2 DEF WriteRefused, End, TypeOK, DrainsWhenOpen, Open
<1>3. CASE Disconnect(c)
    <2>1. PICK n \in stream[c].base..Len(received[c]) :
            received' = [received EXCEPT ![c] = SubSeq(@, 1, n)]
        BY <1>3 DEF Disconnect
    <2>2. received' \in [Clients -> Seq(Frame)]
        BY <2>1, DisconnectKeepsBeginning
    <2>3. QED
        BY <1>3, <2>1, <2>2 DEF Disconnect
<1>4. QED
    BY <1>1, <1>2, <1>3 DEF Ends

\* The steps of the others: writers, retention, sessions.
Outside ==
    \/ \E w \in Writers : InsertEvent(w) \/ CommitEvent(w) \/ RollBackEvent(w)
    \/ \E e \in Ids : AgeEvent(e)
    \/ \E c \in Clients : Revoke(c) \/ Lapse(c)

\* They leave the streams alone, and what was committed or revoked stays so.
LEMMA OutsideIs ==
    ASSUME TypeInv, Outside
    PROVE  /\ TypeInv' /\ UNCHANGED <<connections, stream, received>>
           /\ committed \subseteq committed' /\ revoked \subseteq revoked'
<1>1. UNCHANGED <<connections, stream, received>>
    BY DEF Outside, InsertEvent, CommitEvent, RollBackEvent, AgeEvent, Revoke, Lapse
<1>2. committed \subseteq committed' /\ revoked \subseteq revoked'
    BY DEF Outside, InsertEvent, CommitEvent, RollBackEvent, AgeEvent, Revoke, Lapse,
           sessionVars, databaseVars
<1>3. ConnectionsAreCounted'
    BY <1>1 DEF TypeInv, ConnectionsAreCounted, Open
<1>4. TypeOK'
    <2>1. CASE \E w \in Writers : InsertEvent(w) \/ CommitEvent(w) \/ RollBackEvent(w)
        <3>1. PICK w \in Writers : InsertEvent(w) \/ CommitEvent(w) \/ RollBackEvent(w)
            BY <2>1
        <3>2. allocated' \in 0..MaxEvents
            BY <3>1, MaxEventsAssumption DEF InsertEvent, CommitEvent, RollBackEvent, TypeInv, TypeOK
        <3>3. writing' \in [Writers -> 0..MaxEvents]
            BY <3>1, MaxEventsAssumption DEF InsertEvent, CommitEvent, RollBackEvent, TypeInv, TypeOK
        <3>4. committed' \in SUBSET Ids
            <4>1. writing[w] \in 0..MaxEvents /\ committed \in SUBSET Ids
                BY DEF TypeInv, TypeOK
            <4>2. committed' = committed \/ (writing[w] # 0 /\ committed' = committed \cup {writing[w]})
                BY <3>1 DEF InsertEvent, CommitEvent, RollBackEvent
            <4>3. writing[w] # 0 => writing[w] \in Ids
                BY <4>1, MaxEventsAssumption DEF Ids
            <4>4. QED
                BY <4>1, <4>2, <4>3
        <3>5. aged' \in SUBSET committed' /\ UNCHANGED sessionVars
            BY <1>2, <3>1 DEF InsertEvent, CommitEvent, RollBackEvent, TypeInv, TypeOK
        <3>6. QED
            BY <1>1, <3>2, <3>3, <3>4, <3>5 DEF TypeInv, TypeOK, sessionVars
    <2>2. CASE \E e \in Ids : AgeEvent(e)
        BY <1>1, <2>2 DEF AgeEvent, TypeInv, TypeOK, sessionVars
    <2>3. CASE \E c \in Clients : Revoke(c) \/ Lapse(c)
        BY <1>1, <2>3 DEF Revoke, Lapse, TypeInv, TypeOK, databaseVars
    <2>4. QED
        BY <2>1, <2>2, <2>3 DEF Outside
<1>5. QED
    BY <1>1, <1>2, <1>3, <1>4 DEF TypeInv

\* The steps of one stream that send nothing and leave it open, or not.
Quiet(c) ==
    \/ Connect(c) \/ Reject(c) \/ ReadSession(c) \/ SessionAnswersValid(c)
    \/ ReadSaved(c) \/ ReadEvents(c) \/ TooManyEvents(c) \/ Monitor(c) \/ Wake(c)

\* They give the stream a record of the same phase, but for the first two.
LEMMA QuietIs ==
    ASSUME TypeOK, NEW c \in Clients, Quiet(c)
    PROVE  /\ stream'[c] \in Stream /\ Becomes(c, stream'[c])
           /\ (stream'[c].phase = "open") <=> Open(c)
           /\ UNCHANGED <<databaseVars, sessionVars, connections, received>>
<1>1. stream[c] \in Stream
    BY DEF TypeOK
<1>2. CASE Connect(c)
    <2> DEFINE s == [NoStream EXCEPT !.phase = "validating", !.check = "asked",
                        !.cursor = LastId(c), !.base = Len(received[c])]
    <2>1. LastId(c) \in 0..MaxEvents /\ Len(received[c]) \in Nat
        BY LastIdIs DEF TypeOK
    <2> DEFINE last == LastId(c)
               n == Len(received[c])
    <2>2. s \in Stream /\ s.phase = "validating"
        <3>1. s = [NoStream EXCEPT !.phase = "validating", !.check = "asked",
                      !.cursor = last, !.base = n]
            OBVIOUS
        <3>2. NoStream \in Stream
            BY MaxEventsAssumption DEF NoStream, Stream
        <3> HIDE DEF last, n, s
        <3>3. QED
            BY <2>1, <3>1, <3>2 DEF Stream, last, n
    <2>3. Becomes(c, s) /\ stream[c].phase = "idle"
          /\ UNCHANGED <<databaseVars, sessionVars, connections, received>>
        BY <1>2 DEF Connect
    <2> HIDE DEF s
    <2>4. QED
        BY <2>2, <2>3, BecomesIs DEF Open
<1>3. CASE Reject(c)
    <2>1. NoStream \in Stream /\ NoStream.phase = "idle"
        BY MaxEventsAssumption DEF NoStream, Stream
    <2>2. QED
        BY <1>3, <2>1, BecomesIs DEF Reject, Open
<1>4. CASE ReadSession(c)
    <2> DEFINE s == [stream[c] EXCEPT !.check = IF c \in revoked THEN "invalid" ELSE "valid"]
    <2>1. s \in Stream /\ s.phase = stream[c].phase
        BY <1>1 DEF Stream
    <2>2. Becomes(c, s) /\ UNCHANGED <<databaseVars, sessionVars, connections, received>>
        BY <1>4 DEF ReadSession
    <2> HIDE DEF s
    <2>3. QED
        BY <2>1, <2>2, BecomesIs DEF Open
<1>5. CASE SessionAnswersValid(c)
    BY <1>5, SessionAnswersValidIs DEF SessionAnswersValid, Open
<1>6. CASE ReadSaved(c)
    <2> DEFINE s == [stream[c] EXCEPT !.drain = "resuming"]
    <2>1. s \in Stream /\ s.phase = stream[c].phase
        BY <1>1 DEF Stream
    <2>2. Becomes(c, s) \/ Becomes(c, StartRound(stream[c]))
        BY <1>6 DEF ReadSaved
    <2>3. UNCHANGED <<databaseVars, sessionVars, connections, received>>
        BY <1>6 DEF ReadSaved
    <2>4. StartRound(stream[c]) \in Stream /\ StartRound(stream[c]).phase = stream[c].phase
        BY <1>1, StartRoundIs DEF SameStream
    <2> HIDE DEF s
    <2>5. QED
        BY <2>1, <2>2, <2>3, <2>4, BecomesIs DEF Open
<1>7. CASE ReadEvents(c)
    <2> DEFINE s == [stream[c] EXCEPT !.drain = "answered",
                        !.rows = {e \in committed \ aged : e > stream[c].cursor}]
    <2>1. s \in Stream /\ s.phase = stream[c].phase
        <3>1. {e \in committed \ aged : e > stream[c].cursor} \in SUBSET Ids
            BY DEF TypeOK
        <3>2. QED
            BY <1>1, <3>1 DEF Stream
    <2>2. Becomes(c, s) /\ UNCHANGED <<databaseVars, sessionVars, connections, received>>
        BY <1>7 DEF ReadEvents
    <2> HIDE DEF s
    <2>3. QED
        BY <2>1, <2>2, BecomesIs DEF Open
<1>8. CASE TooManyEvents(c)
    <2> DEFINE s == [stream[c] EXCEPT !.drain = "resync", !.rows = {}]
    <2>1. s \in Stream /\ s.phase = stream[c].phase
        BY <1>1 DEF Stream
    <2>2. Becomes(c, s) /\ UNCHANGED <<databaseVars, sessionVars, connections, received>>
        BY <1>8 DEF TooManyEvents
    <2> HIDE DEF s
    <2>3. QED
        BY <2>1, <2>2, BecomesIs DEF Open
<1>9. CASE Monitor(c)
    <2> DEFINE s == [AskSession(stream[c]) EXCEPT
                        !.monitor = IF stream[c].check = "none" THEN "fresh" ELSE "joined",
                        !.startedRevoked = c \in revoked]
    <2>1. AskSession(stream[c]) \in Stream /\ AskSession(stream[c]).phase = stream[c].phase
        BY <1>1, AskSessionIs DEF SameStream
    <2> DEFINE started == c \in revoked
    <2>2. s \in Stream /\ s.phase = stream[c].phase
        <3>1. started \in BOOLEAN
            OBVIOUS
        <3>2. s = [AskSession(stream[c]) EXCEPT
                      !.monitor = IF stream[c].check = "none" THEN "fresh" ELSE "joined",
                      !.startedRevoked = started]
            OBVIOUS
        <3> HIDE DEF started, s
        <3>3. QED
            BY <2>1, <3>1, <3>2 DEF Stream
    <2>3. Becomes(c, s) /\ UNCHANGED <<databaseVars, sessionVars, connections, received>>
        BY <1>9 DEF Monitor
    <2> HIDE DEF s
    <2>4. QED
        BY <2>2, <2>3, BecomesIs DEF Open
<1>10. CASE Wake(c)
    <2> DEFINE s == [stream[c] EXCEPT !.queued = TRUE]
    <2>1. s \in Stream /\ s.phase = stream[c].phase
        BY <1>1 DEF Stream
    <2>2. Becomes(c, s) \/ Becomes(c, StartRound(stream[c]))
        BY <1>10 DEF Wake
    <2>3. UNCHANGED <<databaseVars, sessionVars, connections, received>>
        BY <1>10 DEF Wake
    <2>4. StartRound(stream[c]) \in Stream /\ StartRound(stream[c]).phase = stream[c].phase
        BY <1>1, StartRoundIs DEF SameStream
    <2> HIDE DEF s
    <2>5. QED
        BY <2>1, <2>2, <2>3, <2>4, BecomesIs DEF Open
<1>11. QED
    BY <1>2, <1>3, <1>4, <1>5, <1>6, <1>7, <1>8, <1>9, <1>10 DEF Quiet

\* A step is one of these.
LEMMA NextIs ==
    ASSUME Next
    PROVE  \/ Outside
           \/ \E c \in Clients : Quiet(c) \/ Ends(c) \/ Accept(c) \/ SendEvents(c) \/ Resync(c)
BY DEF Next, Outside, Quiet, Ends, SessionStep, DrainStep

\* Every step keeps the types, the count and who drains.
LEMMA TypeNext ==
    TypeInv /\ DrainsWhenOpen /\ [Next]_vars => TypeInv' /\ DrainsWhenOpen'
<1> SUFFICES ASSUME TypeInv, DrainsWhenOpen, [Next]_vars PROVE TypeInv' /\ DrainsWhenOpen'
    OBVIOUS
<1>0. TypeOK
    BY DEF TypeInv
<1>1. CASE UNCHANGED vars
    BY <1>1 DEF vars, databaseVars, sessionVars, TypeInv, TypeOK, ConnectionsAreCounted, Open,
                DrainsWhenOpen
<1>2. CASE Outside
    BY <1>2, OutsideIs DEF DrainsWhenOpen
<1>3. ASSUME NEW c \in Clients, Quiet(c) PROVE TypeInv' /\ DrainsWhenOpen'
    <2>1. TypeInv'
        <3>1. /\ stream'[c] \in Stream /\ Becomes(c, stream'[c])
              /\ (stream'[c].phase = "open") <=> Open(c)
              /\ UNCHANGED <<databaseVars, sessionVars, connections, received>>
            BY <1>0, <1>3, QuietIs
        <3>2. received' \in [Clients -> Seq(Frame)]
            BY <1>0, <3>1 DEF TypeOK
        <3>3. QED
            BY <3>1, <3>2, StepKeepsTypes
    <2>2. stream'[c].phase # "open" =>
            stream'[c].drain = "idle" /\ stream'[c].monitor = "idle" /\ ~stream'[c].subscribed
        <3>1. SUFFICES ASSUME stream'[c].phase # "open"
                       PROVE  /\ stream'[c].drain = "idle" /\ stream'[c].monitor = "idle"
                              /\ ~stream'[c].subscribed
            OBVIOUS
        <3>2. ~Open(c) /\ stream[c].drain = "idle" /\ stream[c].monitor = "idle"
              /\ ~stream[c].subscribed
            BY <1>0, <1>3, <3>1, QuietIs DEF DrainsWhenOpen, Open
        <3>3. Connect(c) \/ Reject(c) \/ ReadSession(c)
            BY <1>3, <3>2 DEF Quiet, SessionAnswersValid, ReadSaved, ReadEvents,
                              TooManyEvents, Monitor, Wake
        <3>4. CASE Connect(c) \/ Reject(c)
            <4>1. NoStream.drain = "idle" /\ NoStream.monitor = "idle" /\ ~NoStream.subscribed
                BY DEF NoStream
            <4>2. CASE Connect(c)
                <5>1. stream'[c] = [NoStream EXCEPT !.phase = "validating", !.check = "asked",
                                        !.cursor = LastId(c), !.base = Len(received[c])]
                    BY <1>0, <4>2, BecomesIs DEF Connect
                <5>2. QED
                    BY <4>1, <5>1 DEF NoStream
            <4>3. CASE Reject(c)
                BY <1>0, <4>1, <4>3, BecomesIs DEF Reject
            <4>4. QED
                BY <3>4, <4>2, <4>3
        <3>5. CASE ReadSession(c)
            BY <1>0, <3>2, <3>5 DEF ReadSession, Becomes, TypeOK, Stream
        <3>6. QED
            BY <3>3, <3>4, <3>5
    <2>3. \A d \in Clients \ {c} : stream'[d] = stream[d]
        BY <1>0, <1>3, QuietIs, BecomesIs
    <2>4. QED
        BY <2>1, <2>2, <2>3 DEF DrainsWhenOpen
<1>4. ASSUME NEW c \in Clients, Ends(c) PROVE TypeInv' /\ DrainsWhenOpen'
    <2>1. /\ Open(c) /\ Close(c) /\ UNCHANGED <<databaseVars, sessionVars>>
          /\ received' \in [Clients -> Seq(Frame)]
        BY <1>0, <1>4, EndsIs
    <2>2. TypeInv'
        BY <2>1, CloseKeepsTypes
    <2>3. DrainsWhenOpen'
        BY <1>0, <2>1 DEF DrainsWhenOpen, Close, Becomes, NoStream, TypeOK
    <2>4. QED
        BY <2>2, <2>3
<1>5. ASSUME NEW c \in Clients, Accept(c) PROVE TypeInv' /\ DrainsWhenOpen'
    <2>1. TypeInv'
        BY <1>5, AcceptTakesSlot
    <2>2. PICK s \in Stream : Becomes(c, s) /\ s.phase = "open"
        BY <1>0, <1>5, AcceptIs
    <2>3. QED
        BY <1>0, <2>1, <2>2, BecomesIs DEF DrainsWhenOpen
<1>6. ASSUME NEW c \in Clients, SendEvents(c) \/ Resync(c) PROVE TypeInv' /\ DrainsWhenOpen'
    <2>1. /\ stream'[c] \in Stream /\ Becomes(c, stream'[c])
          /\ stream'[c].phase = stream[c].phase /\ stream[c].drain # "idle"
          /\ received' \in [Clients -> Seq(Frame)]
        BY <1>0, <1>6, SendEventsIs, ResyncIs DEF Delivered, SendEvents
    <2>2. UNCHANGED <<databaseVars, sessionVars, connections>>
        BY <1>6 DEF SendEvents, Resync
    <2>3. stream[c].phase = "open"
        BY <2>1 DEF DrainsWhenOpen
    <2>4. TypeInv'
        BY <2>1, <2>2, StepKeepsTypes DEF Open
    <2>5. DrainsWhenOpen'
        BY <1>0, <2>1, <2>3, BecomesIs DEF DrainsWhenOpen
    <2>6. QED
        BY <2>4, <2>5
<1>7. QED
    BY <1>1, <1>2, <1>3, <1>4, <1>5, <1>6, NextIs

\* No stream drains at first.
LEMMA DrainsInit == Init => DrainsWhenOpen
BY DEF Init, DrainsWhenOpen, NoStream

\* Types and slots, always.
LEMMA TypeAlways == Spec => [](TypeInv /\ DrainsWhenOpen)
<1>1. Init => TypeInv /\ DrainsWhenOpen
    BY TypeInvInit, DrainsInit
<1>2. QED
    BY <1>1, TypeNext, PTL DEF Spec

\* Every variable has its type: in particular the count of slots is never
\* negative, and cursors and frames are ids.
THEOREM TypeCorrect == Spec => []TypeOK
<1>1. TypeInv /\ DrainsWhenOpen => TypeOK
    BY DEF TypeInv
<1>2. QED
    BY <1>1, TypeAlways, PTL

\* The count of a user's streams is that of the open ones, and never above
\* the limit, in whatever order validations, refusals and ends come.
THEOREM ConnectionsCorrect == Spec => []ConnectionsAreCounted
<1>1. TypeInv /\ DrainsWhenOpen => ConnectionsAreCounted
    BY DEF TypeInv
<1>2. QED
    BY <1>1, TypeAlways, PTL

-----------------------------------------------------------------------------
(* What the quiet steps make of their stream. *)

\* A new connection starts from the last frame received, and knows nothing.
LEMMA ConnectIs ==
    ASSUME TypeOK, NEW c \in Clients, Connect(c)
    PROVE  /\ stream[c].phase = "idle" /\ stream'[c].cursor = LastId(c)
           /\ stream'[c].rows = {} /\ stream'[c].drain = "idle"
           /\ stream'[c].check = "asked" /\ stream'[c].monitor = "idle"
           /\ ~stream'[c].startedRevoked /\ stream'[c].lateReplays = 0
<1> DEFINE last == LastId(c)
           n == Len(received[c])
<1>1. stream'[c] = [NoStream EXCEPT !.phase = "validating", !.check = "asked",
                        !.cursor = last, !.base = n]
    BY BecomesIs DEF Connect
<1>2. stream[c].phase = "idle"
    BY DEF Connect
<1> HIDE DEF last, n
<1>3. QED
    BY <1>1, <1>2 DEF NoStream, last

\* The answer of the session's row is that of the moment it is read.
LEMMA ReadSessionIs ==
    ASSUME TypeOK, NEW c \in Clients, ReadSession(c)
    PROVE  /\ stream[c].check = "asked"
           /\ stream'[c].check = IF c \in revoked THEN "invalid" ELSE "valid"
           /\ stream'[c].phase = stream[c].phase /\ stream'[c].cursor = stream[c].cursor
           /\ stream'[c].rows = stream[c].rows /\ stream'[c].drain = stream[c].drain
           /\ stream'[c].monitor = stream[c].monitor
           /\ stream'[c].startedRevoked = stream[c].startedRevoked
           /\ stream'[c].lateReplays = stream[c].lateReplays
<1> DEFINE answer == IF c \in revoked THEN "invalid" ELSE "valid"
<1>1. stream'[c] = [stream[c] EXCEPT !.check = answer] /\ stream[c].check = "asked"
    BY BecomesIs DEF ReadSession
<1>2. stream[c] \in Stream
    BY DEF TypeOK
<1> HIDE DEF answer
<1>3. QED
    BY <1>1, <1>2 DEF Stream, answer

\* The monitor joins the query in progress, or asks.
LEMMA MonitorIs ==
    ASSUME TypeOK, NEW c \in Clients, Monitor(c)
    PROVE  /\ stream[c].monitor = "idle" /\ stream'[c].check = Asked(stream[c].check)
           /\ stream'[c].monitor = IF stream[c].check = "none" THEN "fresh" ELSE "joined"
           /\ stream'[c].startedRevoked <=> c \in revoked
           /\ stream'[c].phase = stream[c].phase /\ stream'[c].cursor = stream[c].cursor
           /\ stream'[c].rows = stream[c].rows /\ stream'[c].drain = stream[c].drain
           /\ stream'[c].lateReplays = stream[c].lateReplays
<1> DEFINE started == c \in revoked
           asked == AskSession(stream[c])
           waits == IF stream[c].check = "none" THEN "fresh" ELSE "joined"
<1>1. stream'[c] = [asked EXCEPT !.monitor = waits, !.startedRevoked = started]
      /\ stream[c].monitor = "idle"
    BY BecomesIs DEF Monitor
<1>2. stream[c] \in Stream
    BY DEF TypeOK
<1>3. /\ SameStream(stream[c], asked) /\ asked.check = Asked(stream[c].check)
      /\ asked.drain = stream[c].drain
    BY <1>2, AskSessionIs
<1> HIDE DEF started, asked, waits
<1>4. /\ stream'[c].monitor = waits /\ stream'[c].startedRevoked = started
      /\ stream'[c].check = asked.check /\ stream'[c].phase = asked.phase
      /\ stream'[c].cursor = asked.cursor /\ stream'[c].rows = asked.rows
      /\ stream'[c].drain = asked.drain /\ stream'[c].lateReplays = asked.lateReplays
    BY <1>1, <1>3 DEF SameStream, Stream
<1>5. stream'[c].startedRevoked <=> c \in revoked
    BY <1>4 DEF started
<1>6. QED
    BY <1>1, <1>3, <1>4, <1>5 DEF SameStream, waits

\* The drain goes on without a frame: it may ask for the session, and rows
\* that are answered are new ones behind the cursor.
LEMMA DrainMoves ==
    ASSUME TypeOK, NEW c \in Clients,
           ReadSaved(c) \/ ReadEvents(c) \/ TooManyEvents(c) \/ Wake(c)
    PROVE  /\ stream'[c].phase = stream[c].phase /\ stream'[c].cursor = stream[c].cursor
           /\ stream'[c].check \in {stream[c].check, Asked(stream[c].check)}
           /\ stream'[c].monitor = stream[c].monitor
           /\ stream'[c].startedRevoked = stream[c].startedRevoked
           /\ stream'[c].lateReplays = stream[c].lateReplays
           /\ stream'[c].drain \in {"query", "answered"} => stream[c].drain \in {"query", "answered"}
           /\ \/ stream'[c].rows \in {{}, stream[c].rows}
                 /\ (stream'[c].drain = "answered" => stream[c].drain = "answered" /\ stream'[c].rows = stream[c].rows)
              \/ stream'[c].rows = {e \in committed \ aged : e > stream[c].cursor}
<1>1. stream[c] \in Stream
    BY DEF TypeOK
<1>2. /\ SameStream(stream[c], StartRound(stream[c]))
      /\ StartRound(stream[c]).check = Asked(stream[c].check)
      /\ StartRound(stream[c]).drain = "check"
      /\ StartRound(stream[c]).monitor = stream[c].monitor
    BY <1>1, StartRoundIs
<1>3. CASE stream'[c] = StartRound(stream[c])
    BY <1>2, <1>3 DEF SameStream
<1>4. CASE ReadSaved(c)
    <2>1. stream'[c] = [stream[c] EXCEPT !.drain = "resuming"] \/ stream'[c] = StartRound(stream[c])
        BY <1>4, BecomesIs DEF ReadSaved
    <2>2. CASE stream'[c] = [stream[c] EXCEPT !.drain = "resuming"]
        BY <1>1, <2>2 DEF Stream
    <2>3. QED
        BY <1>3, <2>1, <2>2
<1>5. CASE ReadEvents(c)
    <2> DEFINE rows == {e \in committed \ aged : e > stream[c].cursor}
    <2>1. stream'[c] = [stream[c] EXCEPT !.drain = "answered", !.rows = rows]
          /\ stream[c].drain = "query"
        BY <1>5, BecomesIs DEF ReadEvents
    <2> HIDE DEF rows
    <2>2. /\ stream'[c].rows = rows /\ stream'[c].phase = stream[c].phase
          /\ stream'[c].cursor = stream[c].cursor /\ stream'[c].check = stream[c].check
          /\ stream'[c].monitor = stream[c].monitor
          /\ stream'[c].startedRevoked = stream[c].startedRevoked
          /\ stream'[c].lateReplays = stream[c].lateReplays
        BY <1>1, <2>1 DEF Stream
    <2>3. QED
        BY <2>1, <2>2 DEF rows
<1>6. CASE TooManyEvents(c)
    <2>1. stream'[c] = [stream[c] EXCEPT !.drain = "resync", !.rows = {}]
        BY <1>6, BecomesIs DEF TooManyEvents
    <2>2. QED
        BY <1>1, <2>1 DEF Stream
<1>7. CASE Wake(c)
    <2>1. stream'[c] = [stream[c] EXCEPT !.queued = TRUE] \/ stream'[c] = StartRound(stream[c])
        BY <1>7, BecomesIs DEF Wake
    <2>2. CASE stream'[c] = [stream[c] EXCEPT !.queued = TRUE]
        BY <1>1, <2>2 DEF Stream
    <2>3. QED
        BY <1>3, <2>1, <2>2
<1>8. QED
    BY <1>4, <1>5, <1>6, <1>7

-----------------------------------------------------------------------------
(* The order of frames. *)

\* A cursor is behind no frame of its client, and rows under way are behind
\* the cursor.
CursorOK(c) ==
    /\ stream[c].cursor \in committed \cup {0} /\ stream[c].rows \subseteq committed
    /\ stream[c].drain = "answered" => \A e \in stream[c].rows : e > stream[c].cursor
    /\ stream[c].phase # "idle" =>
            \A i \in 1..Len(received[c]) : received[c][i].id <= stream[c].cursor

\* The frames of a client are of committed events, in order.
FramesOK(c) ==
    /\ \A i \in 1..Len(received[c]) : received[c][i].id \in committed \cup {0}
    /\ \A i, j \in 1..Len(received[c]) : i < j =>
            /\ received[c][i].id <= received[c][j].id
            /\ ~received[c][j].resync => received[c][i].id < received[c][j].id

FrameInv == \A c \in Clients : CursorOK(c) /\ FramesOK(c)

\* A client whose stream and frames are as they were.
LEMMA FrameUnchanged ==
    ASSUME TypeOK, NEW d \in Clients, CursorOK(d), FramesOK(d), committed \subseteq committed',
           stream'[d] = stream[d], received'[d] = received[d]
    PROVE  CursorOK(d)' /\ FramesOK(d)'
BY DEF CursorOK, FramesOK

\* Frames that come behind the cursor are behind all frames.
LEMMA DeliveredInOrder ==
    ASSUME TypeOK, NEW c \in Clients, CursorOK(c), FramesOK(c), stream[c].phase # "idle",
           UNCHANGED committed, NEW ids \in SUBSET (committed \cup {0}), NEW resync \in BOOLEAN,
           Delivered(c, ids, resync),
           \A e \in ids : IF resync THEN e >= stream[c].cursor ELSE e > stream[c].cursor,
           resync => Cardinality(ids) = 1,
           stream'[c].cursor \in 0..MaxEvents, stream[c].cursor <= stream'[c].cursor,
           \A e \in ids : e <= stream'[c].cursor
    PROVE  /\ FramesOK(c)'
           /\ \A i \in 1..Len(received'[c]) : received'[c][i].id <= stream'[c].cursor
<1> DEFINE n == Len(received[c])
           k == Cardinality(ids)
           old == received[c]
           new == received'[c]
<1>1. n \in Nat /\ k \in Nat /\ Len(new) = n + k /\ ids \in SUBSET (0..MaxEvents)
    <2>1. committed \cup {0} \subseteq 0..MaxEvents
        BY MaxEventsAssumption DEF TypeOK, Ids
    <2>2. ids \in SUBSET (0..MaxEvents)
        BY <2>1
    <2>3. k \in Nat
        BY <2>2, IdsAreFinite
    <2>4. QED
        BY <2>2, <2>3 DEF TypeOK, Delivered
<1>2. \A i \in 1..n : new[i] = old[i] /\ old[i].id \in 0..MaxEvents /\ old[i].id \in committed \cup {0}
                      /\ old[i].id <= stream[c].cursor
    <2>1. old \in Seq(Frame)
        BY DEF TypeOK
    <2>2. \A i \in 1..n : old[i].id \in 0..MaxEvents
        <3>1. \A i \in 1..n : old[i] \in Frame
            BY <2>1, ElementOfSeq
        <3>2. QED
            BY <3>1 DEF Frame
    <2>3. QED
        BY <2>2 DEF Delivered, FramesOK, CursorOK
<1>3. \A i \in 1..k : new[n + i] = [id |-> InOrder(ids)[i], resync |-> resync]
                      /\ InOrder(ids)[i] \in ids
    BY <1>1, InOrderCorrect DEF Delivered
<1> DEFINE next(i) == new[n + i]
<1>4. \A i \in 1..k : new[n + i].id = InOrder(ids)[i] /\ new[n + i].resync = resync
                      /\ new[n + i].id \in ids
    <2> SUFFICES ASSUME NEW i \in 1..k
                 PROVE  next(i).id = InOrder(ids)[i] /\ next(i).resync = resync
                        /\ next(i).id \in ids
        OBVIOUS
    <2>1. next(i) = [id |-> InOrder(ids)[i], resync |-> resync] /\ InOrder(ids)[i] \in ids
        BY <1>3
    <2> HIDE DEF next
    <2>2. QED
        BY <2>1
<1>5. \A i, j \in 1..k : i < j => new[n + i].id < new[n + j].id
    <2>1. \A i, j \in 1..k : i < j => InOrder(ids)[i] < InOrder(ids)[j]
        BY <1>1, InOrderCorrect
    <2> HIDE DEF n, k, new
    <2>2. QED
        BY <1>4, <2>1
<1>6. \A i \in 1..(n + k) : i \in 1..n \/ (i - n \in 1..k /\ i = n + (i - n))
    BY <1>1
<1>7. stream[c].cursor \in 0..MaxEvents
    BY DEF TypeOK, Stream
<1> HIDE DEF n, k, old, new
<1>8. \A i \in 1..(n + k) : new[i].id \in committed \cup {0} /\ new[i].id <= stream'[c].cursor
    <2> SUFFICES ASSUME NEW i \in 1..(n + k)
                 PROVE  new[i].id \in committed \cup {0} /\ new[i].id <= stream'[c].cursor
        OBVIOUS
    <2>1. CASE i \in 1..n
        BY <1>2, <1>7, <2>1, MaxEventsAssumption
    <2>2. CASE i \notin 1..n
        <3>1. new[i].id \in ids
            BY <1>4, <1>6, <2>2
        <3>2. QED
            BY <3>1
    <2>3. QED
        BY <2>1, <2>2
<1>9. ASSUME NEW i \in 1..(n + k), NEW j \in 1..(n + k), i < j
      PROVE  new[i].id <= new[j].id /\ (~new[j].resync => new[i].id < new[j].id)
    <2>1. CASE j \in 1..n
        <3>1. i \in 1..n
            BY <1>1, <1>9, <2>1
        <3>2. new[i] = old[i] /\ new[j] = old[j]
            BY <1>2, <2>1, <3>1
        <3>3. old[i].id <= old[j].id /\ (~old[j].resync => old[i].id < old[j].id)
            BY <1>9, <2>1, <3>1 DEF FramesOK, n, old
        <3>4. QED
            BY <3>2, <3>3
    <2>2. CASE j \notin 1..n /\ i \in 1..n
        <3>1. new[j].id \in ids /\ new[j].resync = resync
            BY <1>4, <1>6, <2>2
        <3>2. new[i].id <= stream[c].cursor /\ new[i].id \in 0..MaxEvents
            BY <1>2, <2>2
        <3>3. new[j].id \in 0..MaxEvents
            BY <1>1, <3>1
        <3>4. CASE resync
            <4>1. new[j].id >= stream[c].cursor
                BY <3>1, <3>4
            <4>2. QED
                BY <1>7, <3>1, <3>2, <3>3, <3>4, <4>1, MaxEventsAssumption
        <3>5. CASE ~resync
            <4>1. new[j].id > stream[c].cursor
                BY <3>1, <3>5
            <4>2. QED
                BY <1>7, <3>2, <3>3, <4>1, MaxEventsAssumption
        <3>6. QED
            BY <3>4, <3>5
    <2>3. CASE j \notin 1..n /\ i \notin 1..n
        <3>1. i - n \in 1..k /\ j - n \in 1..k /\ i - n < j - n /\ i = n + (i - n) /\ j = n + (j - n)
            BY <1>1, <1>6, <1>9, <2>3
        <3>2. new[i].id < new[j].id
            BY <1>5, <3>1
        <3>3. new[i].id \in 0..MaxEvents /\ new[j].id \in 0..MaxEvents
            BY <1>1, <1>4, <3>1
        <3>4. QED
            BY <3>2, <3>3, MaxEventsAssumption
    <2>4. QED
        BY <2>1, <2>2, <2>3
<1>10. QED
    BY <1>1, <1>8, <1>9 DEF FramesOK, new

\* The frames of a client that only lost some of the last ones.
LEMMA FramesLost ==
    ASSUME TypeOK, NEW c \in Clients, FramesOK(c), UNCHANGED committed,
           \/ UNCHANGED received
           \/ \E n \in stream[c].base..Len(received[c]) :
                received' = [received EXCEPT ![c] = SubSeq(@, 1, n)]
    PROVE  FramesOK(c)'
<1>1. CASE UNCHANGED received
    BY <1>1 DEF FramesOK
<1>2. CASE \E n \in stream[c].base..Len(received[c]) :
                received' = [received EXCEPT ![c] = SubSeq(@, 1, n)]
    <2>1. PICK n \in stream[c].base..Len(received[c]) :
                received' = [received EXCEPT ![c] = SubSeq(@, 1, n)]
        BY <1>2
    <2>2. /\ n \in Nat /\ Len(received'[c]) = n /\ n <= Len(received[c])
          /\ \A i \in 1..n : received'[c][i] = received[c][i]
        BY <2>1, DisconnectKeepsBeginning
    <2>3. \A i \in 1..n : i \in 1..Len(received[c])
        BY <2>2
    <2>4. QED
        BY <2>2, <2>3 DEF FramesOK
<1>3. QED
    BY <1>1, <1>2

\* Every step keeps the frames in order.
LEMMA FrameNext ==
    TypeInv /\ DrainsWhenOpen /\ FrameInv /\ [Next]_vars => FrameInv'
<1> SUFFICES ASSUME TypeInv, DrainsWhenOpen, FrameInv, [Next]_vars PROVE FrameInv'
    OBVIOUS
<1>0. TypeOK /\ \A d \in Clients : CursorOK(d) /\ FramesOK(d)
    BY DEF TypeInv, FrameInv
<1>1. CASE UNCHANGED vars \/ Outside
    <2>1. committed \subseteq committed' /\ UNCHANGED <<stream, received>>
        BY <1>1, OutsideIs DEF vars, databaseVars
    <2>2. QED
        BY <1>0, <2>1, FrameUnchanged DEF FrameInv
<1>2. ASSUME NEW c \in Clients, CursorOK(c)' /\ FramesOK(c)', UNCHANGED committed,
             \A d \in Clients \ {c} : stream'[d] = stream[d] /\ received'[d] = received[d]
      PROVE  FrameInv'
    <2>1. \A d \in Clients \ {c} : CursorOK(d)' /\ FramesOK(d)'
        BY <1>0, <1>2, FrameUnchanged
    <2>2. QED
        BY <1>2, <2>1 DEF FrameInv
<1>3. ASSUME NEW c \in Clients, Quiet(c) PROVE FrameInv'
    <2>1. /\ Becomes(c, stream'[c])
          /\ UNCHANGED <<databaseVars, sessionVars, connections, received>>
        BY <1>0, <1>3, QuietIs
    <2>2. UNCHANGED <<committed, received>>
          /\ \A d \in Clients \ {c} : stream'[d] = stream[d] /\ received'[d] = received[d]
        BY <1>0, <2>1, BecomesIs DEF databaseVars
    <2>3. FramesOK(c)'
        BY <1>0, <2>2 DEF FramesOK
    <2>4. CursorOK(c)'
        <3>1. CASE Connect(c)
            <4>1. /\ stream'[c].cursor = LastId(c) /\ stream'[c].rows = {}
                  /\ stream'[c].drain = "idle"
                BY <1>0, <3>1, ConnectIs
            <4>2. received[c] \in Seq(Frame) /\ Len(received[c]) \in Nat
                BY <1>0 DEF TypeOK
            <4>3. CASE received[c] = <<>>
                BY <1>0, <2>2, <4>1, <4>2, <4>3, LastIdIs DEF CursorOK
            <4>4. CASE received[c] # <<>>
                <5> DEFINE n == Len(received[c])
                <5>1. n \in 1..n /\ LastId(c) = received[c][n].id
                    BY <1>0, <4>2, <4>4, LastIdIs
                <5>2. LastId(c) \in committed \cup {0}
                    BY <1>0, <5>1 DEF FramesOK
                <5>3. \A i \in 1..n : received[c][i].id <= LastId(c)
                    <6>1. \A i \in 1..n : i = n \/ i < n
                        BY <4>2
                    <6>2. LastId(c) <= LastId(c)
                        BY <1>0, LastIdIs, MaxEventsAssumption
                    <6>3. QED
                        BY <1>0, <5>1, <6>1, <6>2 DEF FramesOK
                <5>4. QED
                    BY <2>2, <4>1, <5>2, <5>3 DEF CursorOK
            <4>5. QED
                BY <4>3, <4>4
        <3>2. CASE Reject(c)
            <4>1. stream'[c] = NoStream
                BY <1>0, <3>2, BecomesIs DEF Reject
            <4>2. QED
                BY <4>1 DEF CursorOK, NoStream
        <3>3. CASE ReadSession(c)
            BY <1>0, <2>2, <3>3, ReadSessionIs DEF CursorOK
        <3>4. CASE SessionAnswersValid(c)
            BY <1>0, <2>2, <3>4, SessionAnswersValidIs DEF CursorOK
        <3>5. CASE Monitor(c)
            BY <1>0, <2>2, <3>5, MonitorIs DEF CursorOK
        <3>6. CASE ReadSaved(c) \/ ReadEvents(c) \/ TooManyEvents(c) \/ Wake(c)
            BY <1>0, <2>2, <3>6, DrainMoves DEF CursorOK
        <3>7. QED
            BY <1>3, <3>1, <3>2, <3>3, <3>4, <3>5, <3>6 DEF Quiet
    <2>5. QED
        BY <1>2, <2>2, <2>3, <2>4
<1>4. ASSUME NEW c \in Clients, Ends(c) PROVE FrameInv'
    <2>1. /\ Close(c) /\ UNCHANGED committed
          /\ \/ UNCHANGED received
             \/ \E n \in stream[c].base..Len(received[c]) :
                    received' = [received EXCEPT ![c] = SubSeq(@, 1, n)]
        BY <1>0, <1>4, EndsIs DEF databaseVars
    <2>2. stream'[c] = NoStream /\ \A d \in Clients \ {c} : stream'[d] = stream[d]
        BY <1>0, <2>1, BecomesIs DEF Close
    <2>3. \A d \in Clients \ {c} : received'[d] = received[d]
        BY <1>0, <2>1, DisconnectKeepsBeginning
    <2>4. CursorOK(c)'
        BY <2>2 DEF CursorOK, NoStream
    <2>5. FramesOK(c)'
        BY <1>0, <2>1, FramesLost
    <2>6. QED
        BY <1>2, <2>1, <2>2, <2>3, <2>4, <2>5
<1>5. ASSUME NEW c \in Clients, Accept(c) PROVE FrameInv'
    <2>1. PICK s \in Stream :
            /\ Becomes(c, s) /\ s.cursor = stream[c].cursor /\ s.rows = stream[c].rows
            /\ s.drain \in {"saved", "check"} /\ stream[c].phase = "validating"
        BY <1>0, <1>5, AcceptIs
    <2>2. stream'[c] = s /\ \A d \in Clients \ {c} : stream'[d] = stream[d]
        BY <1>0, <2>1, BecomesIs
    <2>3. UNCHANGED <<committed, received>>
        BY <1>5 DEF Accept, databaseVars
    <2>4. CursorOK(c)' /\ FramesOK(c)'
        BY <1>0, <2>1, <2>2, <2>3 DEF CursorOK, FramesOK
    <2>5. QED
        BY <1>2, <2>2, <2>3, <2>4
<1>6. ASSUME NEW c \in Clients, SendEvents(c) PROVE FrameInv'
    <2> DEFINE s == stream[c]
               t == stream'[c]
    <2>1. /\ t \in Stream /\ Becomes(c, t) /\ t.phase = s.phase
          /\ s.rows \cup {s.cursor} \in SUBSET (0..MaxEvents)
          /\ t.cursor = Max(s.rows \cup {s.cursor})
          /\ t.rows = {} /\ t.drain \in {"check", "idle"}
          /\ Delivered(c, s.rows, FALSE)
        BY <1>0, <1>6, SendEventsIs
    <2>2. s.drain = "answered" /\ UNCHANGED committed
        BY <1>6 DEF SendEvents, databaseVars
    <2>3. s.phase = "open"
        BY <2>2 DEF DrainsWhenOpen
    <2>4. t.cursor \in s.rows \cup {s.cursor} /\ \A e \in s.rows \cup {s.cursor} : e <= t.cursor
        BY <2>1, MaxOfIds
    <2>5. CursorOK(c) /\ FramesOK(c)
        BY <1>0
    <2>6. /\ s.rows \in SUBSET (committed \cup {0}) /\ t.cursor \in committed \cup {0}
          /\ \A e \in s.rows : e > s.cursor
        BY <2>2, <2>4, <2>5 DEF CursorOK
    <2>7. t.cursor \in 0..MaxEvents
        BY <2>1, <2>4
    <2>8. FramesOK(c)' /\ \A i \in 1..Len(received'[c]) : received'[c][i].id <= t.cursor
        BY <1>0, <2>1, <2>2, <2>3, <2>4, <2>5, <2>6, <2>7, DeliveredInOrder
    <2>9. CursorOK(c)'
        BY <2>1, <2>2, <2>6, <2>8 DEF CursorOK
    <2>10. \A d \in Clients \ {c} : stream'[d] = stream[d] /\ received'[d] = received[d]
        BY <1>0, <2>1, BecomesIs DEF Delivered
    <2>11. QED
        BY <1>2, <2>2, <2>8, <2>9, <2>10
<1>7. ASSUME NEW c \in Clients, Resync(c) PROVE FrameInv'
    <2> DEFINE s == stream[c]
               t == stream'[c]
    <2>1. /\ t \in Stream /\ Becomes(c, t) /\ t.phase = s.phase /\ t.rows = s.rows
          /\ t.cursor = Latest /\ t.drain \in {"check", "idle"} /\ s.drain # "idle"
          /\ Delivered(c, {Latest}, TRUE)
        BY <1>0, <1>7, ResyncIs
    <2>2. UNCHANGED committed
        BY <1>7 DEF Resync, databaseVars
    <2>3. s.phase = "open"
        BY <2>1 DEF DrainsWhenOpen
    <2>4. CursorOK(c) /\ FramesOK(c)
        BY <1>0
    <2>5. Latest \in committed \cup {0} /\ Latest \in 0..MaxEvents /\ s.cursor <= Latest
        BY <1>0, <2>4, LatestIs DEF CursorOK
    <2>6. s.cursor \in 0..MaxEvents
        BY <1>0 DEF TypeOK, Stream
    <2>7. {Latest} \in SUBSET (committed \cup {0}) /\ Cardinality({Latest}) = 1
          /\ \A e \in {Latest} : e >= s.cursor /\ e <= t.cursor
        <3>1. Cardinality({Latest}) = 1
            BY FS_Singleton
        <3>2. Latest >= s.cursor /\ Latest <= t.cursor
            BY <2>1, <2>5, <2>6, MaxEventsAssumption
        <3>3. QED
            BY <2>5, <3>1, <3>2
    <2>8. FramesOK(c)' /\ \A i \in 1..Len(received'[c]) : received'[c][i].id <= t.cursor
        BY <1>0, <2>1, <2>2, <2>3, <2>4, <2>5, <2>7, DeliveredInOrder
    <2>9. CursorOK(c)'
        BY <2>1, <2>2, <2>4, <2>5, <2>8 DEF CursorOK
    <2>10. \A d \in Clients \ {c} : stream'[d] = stream[d] /\ received'[d] = received[d]
        BY <1>0, <2>1, BecomesIs DEF Delivered
    <2>11. QED
        BY <1>2, <2>2, <2>8, <2>9, <2>10
<1>8. QED
    BY <1>1, <1>3, <1>4, <1>5, <1>6, <1>7, NextIs

\* There are no frames at first.
LEMMA FrameInit == Init => FrameInv
BY DEF Init, FrameInv, CursorOK, FramesOK, NoStream

\* Frames reach a client in the order of their ids and none twice, however
\* many events, connections, lost frames and writers there are.
THEOREM FramesCorrect == Spec => []FramesInOrder
<1>1. TypeInv /\ DrainsWhenOpen /\ FrameInv => FramesInOrder
    <2> SUFFICES ASSUME TypeInv, FrameInv PROVE FramesInOrder
        OBVIOUS
    <2>1. \A c \in Clients : DOMAIN received[c] = 1..Len(received[c])
        BY DEF TypeInv, TypeOK
    <2>2. QED
        BY <2>1 DEF FrameInv, FramesOK, FramesInOrder
<1>2. QED
    BY <1>1, FrameInit, FrameNext, TypeAlways, PTL DEF Spec

-----------------------------------------------------------------------------
(* What a client may have missed, when events are written one at a time. *)

\* Events are committed in the order of their ids when no two transactions
\* write them together.
OneWriter == \A w1, w2 \in Writers : w1 = w2

\* The event being written is newer than the committed ones.
WritersOK ==
    /\ \A e \in committed : e <= allocated
    /\ \A w \in Writers : writing[w] # 0 =>
            writing[w] <= allocated /\ \A e \in committed : e < writing[w]

\* The events a replay reads.
Live == committed \ aged

\* A frame is of the event, or tells to read everything again after it.
Covers(frame, e) ==
    frame = [id |-> e, resync |-> FALSE] \/ (frame.resync /\ frame.id >= e)

\* A client that received the i-th frame had been told of the events before it.
SentOK(c) ==
    \A i \in 1..Len(received[c]), e \in Live :
        e <= received[c][i].id => \E j \in 1..i : Covers(received[c][j], e)

\* A stream's cursor passes an event only with the client told of it, and the
\* rows under way have no gap.
PassedOK(c) ==
    /\ stream[c].phase # "idle" =>
            \A e \in Live : e <= stream[c].cursor =>
                \E j \in 1..Len(received[c]) : Covers(received[c][j], e)
    /\ stream[c].drain = "answered" =>
            \A e \in Live, r \in stream[c].rows :
                stream[c].cursor < e /\ e <= r => e \in stream[c].rows

SkipInv == WritersOK /\ \A c \in Clients : SentOK(c) /\ PassedOK(c)

\* What is committed beside the streams is behind everything committed before.
LEMMA CommitsInOrder ==
    ASSUME OneWriter, TypeOK, WritersOK, Outside
    PROVE  /\ WritersOK' /\ aged \subseteq aged' /\ committed \subseteq committed'
           /\ \A e \in committed' \ committed, d \in committed : d < e
<1>1. /\ allocated \in Nat /\ writing \in [Writers -> 0..MaxEvents]
      /\ committed \in SUBSET (1..MaxEvents)
    BY MaxEventsAssumption DEF TypeOK, Ids
<1>2. CASE \E w \in Writers : InsertEvent(w)
    <2>1. PICK w \in Writers : InsertEvent(w)
        BY <1>2
    <2>2. /\ allocated' = allocated + 1 /\ UNCHANGED <<committed, aged>>
          /\ writing' = [writing EXCEPT ![w] = allocated + 1]
        BY <2>1 DEF InsertEvent
    <2>3. \A v \in Writers : writing'[v] = allocated + 1
        BY <1>1, <2>2 DEF OneWriter
    <2>4. \A e \in committed : e <= allocated /\ e \in Nat
        BY <1>1, MaxEventsAssumption DEF WritersOK
    <2>5. \A e \in committed : e < allocated + 1 /\ e <= allocated + 1
        BY <1>1, <2>4
    <2>6. allocated + 1 <= allocated + 1
        BY <1>1
    <2>7. QED
        BY <2>2, <2>3, <2>5, <2>6 DEF WritersOK
<1>3. CASE \E w \in Writers : CommitEvent(w)
    <2>1. PICK w \in Writers : CommitEvent(w)
        BY <1>3
    <2>2. /\ UNCHANGED <<allocated, aged>> /\ writing[w] # 0
          /\ committed' = committed \cup {writing[w]}
          /\ writing' = [writing EXCEPT ![w] = 0]
        BY <2>1 DEF CommitEvent
    <2>3. \A v \in Writers : writing'[v] = 0
        BY <1>1, <2>2 DEF OneWriter
    <2>4. writing[w] <= allocated /\ \A e \in committed : e < writing[w]
        BY <2>2 DEF WritersOK
    <2>5. QED
        BY <2>2, <2>3, <2>4 DEF WritersOK
<1>4. CASE \E w \in Writers : RollBackEvent(w)
    <2>1. PICK w \in Writers : RollBackEvent(w)
        BY <1>4
    <2>2. UNCHANGED <<allocated, committed, aged>> /\ writing' = [writing EXCEPT ![w] = 0]
        BY <2>1 DEF RollBackEvent
    <2>3. \A v \in Writers : writing'[v] \in {0, writing[v]}
        BY <1>1, <2>2
    <2>4. QED
        BY <2>2, <2>3 DEF WritersOK
<1>5. CASE \E e \in Ids : AgeEvent(e)
    BY <1>5 DEF AgeEvent, WritersOK
<1>6. CASE \E c \in Clients : Revoke(c) \/ Lapse(c)
    BY <1>6 DEF Revoke, Lapse, databaseVars, WritersOK
<1>7. QED
    BY <1>2, <1>3, <1>4, <1>5, <1>6 DEF Outside

\* InOrder misses none.
LEMMA InOrderReaches ==
    ASSUME NEW S \in SUBSET (0..MaxEvents), NEW e \in S
    PROVE  \E k \in 1..Cardinality(S) : InOrder(S)[k] = e
<1> DEFINE n == Cardinality(S)
           f == InOrder(S)
<1>1. IsFiniteSet(S) /\ n \in Nat
    BY IdsAreFinite
<1>2. f \in [1..n -> S] /\ \A i, j \in 1..n : i < j => f[i] < f[j]
    BY InOrderCorrect
<1>3. Cardinality(1..n) = n
    <2> HIDE DEF n
    <2>1. IsFiniteSet(1..n) /\ Cardinality(1..n) = IF 1 > n THEN 0 ELSE n - 1 + 1
        BY <1>1, FS_Interval
    <2>2. QED
        BY <1>1, <2>1
<1> HIDE DEF f
<1>4. f \in Injection(1..n, S)
    <2>1. ASSUME NEW i \in 1..n, NEW j \in 1..n, f[i] = f[j] PROVE i = j
        <3>1. f[i] \in 0..MaxEvents
            BY <1>2
        <3>2. ~(f[i] < f[i])
            BY <3>1, MaxEventsAssumption
        <3>3. ~(i < j) /\ ~(j < i)
            BY <1>2, <2>1, <3>2
        <3>4. QED
            BY <1>1, <3>3
    <2>2. QED
        BY <1>2, <2>1 DEF Injection, IsInjective
<1>5. f \in Surjection(1..n, S)
    BY <1>1, <1>3, <1>4, FS_Injection
<1>6. QED
    BY <1>5 DEF Surjection, f

\* A client whose stream and frames are as they were misses nothing new: what
\* is committed since is behind its cursor and its frames.
LEMMA NothingNewMissed ==
    ASSUME TypeOK, NEW d \in Clients, SentOK(d), PassedOK(d), CursorOK(d), FramesOK(d),
           stream'[d] = stream[d], received'[d] = received[d],
           aged \subseteq aged', committed \subseteq committed',
           \A e \in committed' \ committed : e \in Ids /\ \A x \in committed : x < e
    PROVE  SentOK(d)' /\ PassedOK(d)'
<1>1. committed \in SUBSET Nat /\ Ids \in SUBSET Nat
    BY MaxEventsAssumption DEF TypeOK, Ids
<1>2. ASSUME NEW e \in Live', NEW x \in committed \cup {0}, e <= x
      PROVE  e \in Live
    <2>1. CASE e \in committed
        BY <2>1 DEF Live
    <2>2. CASE e \notin committed
        <3>1. e \in committed' \ committed
            BY <2>2 DEF Live
        <3>2. e \in 1..MaxEvents /\ \A y \in committed : y < e
            BY <3>1 DEF Ids
        <3>3. x \in Nat /\ x < e
            BY <1>1, <3>2, MaxEventsAssumption
        <3>4. QED
            BY <1>2, <3>2, <3>3, MaxEventsAssumption
    <2>3. QED
        BY <2>1, <2>2
<1>3. SentOK(d)'
    <2> SUFFICES ASSUME NEW i \in 1..Len(received[d]), NEW e \in Live', e <= received[d][i].id
                 PROVE  \E j \in 1..i : Covers(received[d][j], e)
        BY DEF SentOK, Covers
    <2>1. received[d][i].id \in committed \cup {0}
        BY DEF FramesOK
    <2>2. e \in Live
        BY <1>2, <2>1
    <2>3. QED
        BY <2>2 DEF SentOK
<1>4. PassedOK(d)'
    <2>1. ASSUME stream[d].phase # "idle", NEW e \in Live', e <= stream[d].cursor
          PROVE  \E j \in 1..Len(received[d]) : Covers(received[d][j], e)
        <3>1. e \in Live
            BY <1>2, <2>1 DEF CursorOK
        <3>2. QED
            BY <2>1, <3>1 DEF PassedOK
    <2>2. ASSUME stream[d].drain = "answered", NEW e \in Live', NEW r \in stream[d].rows,
                 stream[d].cursor < e, e <= r
          PROVE  e \in stream[d].rows
        <3>1. e \in Live
            BY <1>2, <2>2 DEF CursorOK
        <3>2. QED
            BY <2>2, <3>1 DEF PassedOK
    <2>3. QED
        BY <2>1, <2>2 DEF PassedOK, Covers
<1>5. QED
    BY <1>3, <1>4

\* Frames that tell of every event between the cursor and the last of them
\* leave nothing out.
LEMMA DeliveredMissesNone ==
    ASSUME TypeOK, NEW c \in Clients, stream[c].phase # "idle", SentOK(c), PassedOK(c),
           UNCHANGED <<committed, aged>>,
           NEW ids \in SUBSET (0..MaxEvents), NEW resync \in BOOLEAN,
           Delivered(c, ids, resync),
           \/ resync /\ ids = {Latest}
           \/ ~resync /\ \A e \in Live, r \in ids : stream[c].cursor < e /\ e <= r => e \in ids
    PROVE  /\ SentOK(c)'
           /\ \A e \in Live, r \in ids \cup {stream[c].cursor} :
                e <= r => \E j \in 1..Len(received'[c]) : Covers(received'[c][j], e)
<1> DEFINE n == Len(received[c])
           k == Cardinality(ids)
           old == received[c]
           new == received'[c]
<1>1. /\ n \in Nat /\ k \in Nat /\ Len(new) = n + k
      /\ \A i \in 1..n : new[i] = old[i]
      /\ \A i \in 1..k : new[n + i] = [id |-> InOrder(ids)[i], resync |-> resync]
    BY IdsAreFinite DEF TypeOK, Delivered
<1>2. Live \in SUBSET (1..MaxEvents) /\ stream[c].cursor \in 0..MaxEvents
    BY DEF Live, TypeOK, Ids, Stream
<1>3. InOrder(ids) \in [1..k -> ids]
      /\ \A i, j \in 1..k : i < j => InOrder(ids)[i] < InOrder(ids)[j]
    BY InOrderCorrect
<1>4. \A e \in ids : \E i \in 1..k : InOrder(ids)[i] = e
    BY InOrderReaches
<1>5. \A i \in 1..n, e \in Live :
        e <= old[i].id => \E j \in 1..i : Covers(old[j], e)
    BY DEF SentOK
<1>6. \A e \in Live : e <= stream[c].cursor => \E j \in 1..n : Covers(old[j], e)
    BY DEF PassedOK
<1> DEFINE at(i) == InOrder(ids)[i]
<1> HIDE DEF n, k, old, new, at
<1>7. ASSUME NEW m \in 1..k, NEW e \in Live, e <= at(m)
      PROVE  \E j \in 1..(n + m) : Covers(new[j], e)
    <2>1. n + m \in 1..(n + m) /\ \A j \in 1..n : j \in 1..(n + m)
        BY <1>1
    <2>2. at(m) \in ids /\ new[n + m] = [id |-> at(m), resync |-> resync]
        BY <1>1, <1>3 DEF at
    <2>3. CASE resync
        <3>1. at(m) \in 0..MaxEvents
            BY <2>2
        <3>2. at(m) >= e
            BY <1>2, <1>7, <3>1, MaxEventsAssumption
        <3>3. Covers(new[n + m], e)
            BY <2>2, <2>3, <3>2 DEF Covers
        <3>4. QED
            BY <2>1, <3>3
    <2>4. CASE ~resync /\ e <= stream[c].cursor
        <3>1. PICK j \in 1..n : Covers(old[j], e)
            BY <1>6, <2>4
        <3>2. QED
            BY <1>1, <2>1, <3>1
    <2>5. CASE ~resync /\ ~(e <= stream[c].cursor)
        <3>1. stream[c].cursor < e
            BY <1>2, <2>5, MaxEventsAssumption
        <3>2. e \in ids
            BY <1>7, <2>2, <2>5, <3>1
        <3>3. PICK i \in 1..k : at(i) = e
            BY <1>4, <3>2 DEF at
        <3>4. i <= m
            <4>1. CASE m < i
                <5>1. at(m) < at(i)
                    BY <1>3, <4>1 DEF at
                <5>2. at(m) \in 0..MaxEvents /\ at(i) \in 0..MaxEvents
                    BY <2>2, <3>2, <3>3
                <5>3. QED
                    BY <1>7, <3>3, <5>1, <5>2, MaxEventsAssumption
            <4>2. QED
                BY <1>1, <4>1
        <3>5. n + i \in 1..(n + m)
            BY <1>1, <3>4
        <3>6. new[n + i] = [id |-> e, resync |-> FALSE]
            BY <1>1, <2>5, <3>3 DEF at
        <3>7. QED
            BY <3>5, <3>6 DEF Covers
    <2>6. QED
        BY <2>3, <2>4, <2>5
<1>8. ASSUME NEW i \in 1..(n + k), NEW e \in Live, e <= new[i].id
      PROVE  \E j \in 1..i : Covers(new[j], e)
    <2>1. CASE i \in 1..n
        <3>1. PICK j \in 1..i : Covers(old[j], e)
            BY <1>1, <1>5, <1>8, <2>1
        <3>2. j \in 1..n
            BY <1>1, <2>1
        <3>3. QED
            BY <1>1, <3>1, <3>2
    <2>2. CASE i \notin 1..n
        <3>1. PICK m \in 1..k : i = n + m
            <4>1. i - n \in 1..k /\ i = n + (i - n)
                BY <1>1, <2>2
            <4>2. QED
                BY <4>1
        <3>2. new[i].id = at(m)
            <4>1. new[n + m] = [id |-> at(m), resync |-> resync]
                BY <1>1 DEF at
            <4>2. new[n + m].id = at(m)
                BY <4>1
            <4>3. QED
                BY <3>1, <4>2
        <3>3. QED
            BY <1>7, <1>8, <3>1, <3>2
    <2>3. QED
        BY <2>1, <2>2
<1>9. SentOK(c)'
    <2>1. Live' = Live
        BY DEF Live
    <2>2. QED
        BY <1>1, <1>8, <2>1 DEF SentOK, Covers, new
<1>10. ASSUME NEW e \in Live, NEW r \in ids \cup {stream[c].cursor}, e <= r
       PROVE  \E j \in 1..(n + k) : Covers(new[j], e)
    <2>1. CASE r \in ids
        <3>1. PICK m \in 1..k : at(m) = r
            BY <1>4, <2>1 DEF at
        <3>2. PICK j \in 1..(n + m) : Covers(new[j], e)
            BY <1>7, <1>10, <3>1
        <3>3. j \in 1..(n + k)
            BY <1>1, <3>2
        <3>4. QED
            BY <3>2, <3>3
    <2>2. CASE r = stream[c].cursor
        <3>1. PICK j \in 1..n : Covers(old[j], e)
            BY <1>6, <1>10, <2>2
        <3>2. j \in 1..(n + k)
            BY <1>1
        <3>3. QED
            BY <1>1, <3>1, <3>2
    <2>3. QED
        BY <2>1, <2>2
<1>11. QED
    BY <1>1, <1>9, <1>10 DEF new

\* Frames lost at the end take nothing from those before them.
LEMMA LostMissesNone ==
    ASSUME TypeOK, NEW c \in Clients, SentOK(c), UNCHANGED <<committed, aged>>,
           \/ UNCHANGED received
           \/ \E n \in stream[c].base..Len(received[c]) :
                received' = [received EXCEPT ![c] = SubSeq(@, 1, n)]
    PROVE  SentOK(c)'
<1>0. Live' = Live
    BY DEF Live
<1>1. CASE UNCHANGED received
    BY <1>0, <1>1 DEF SentOK, Covers
<1>2. CASE \E n \in stream[c].base..Len(received[c]) :
                received' = [received EXCEPT ![c] = SubSeq(@, 1, n)]
    <2>1. PICK n \in stream[c].base..Len(received[c]) :
                received' = [received EXCEPT ![c] = SubSeq(@, 1, n)]
        BY <1>2
    <2>2. /\ n \in Nat /\ Len(received'[c]) = n /\ n <= Len(received[c])
          /\ \A i \in 1..n : received'[c][i] = received[c][i]
        BY <2>1, DisconnectKeepsBeginning
    <2>3. Len(received[c]) \in Nat
        BY DEF TypeOK
    <2>4. ASSUME NEW i \in 1..n, NEW e \in Live, e <= received'[c][i].id
          PROVE  \E j \in 1..i : Covers(received'[c][j], e)
        <3>1. i \in 1..Len(received[c]) /\ e <= received[c][i].id
            BY <2>2, <2>3, <2>4
        <3>2. PICK j \in 1..i : Covers(received[c][j], e)
            BY <3>1 DEF SentOK
        <3>3. j \in 1..n
            BY <2>2
        <3>4. QED
            BY <2>2, <3>2, <3>3
    <2>5. QED
        BY <1>0, <2>2, <2>4 DEF SentOK, Covers
<1>3. QED
    BY <1>1, <1>2

\* Every step leaves nothing out.
LEMMA SkipNext ==
    OneWriter /\ TypeInv /\ DrainsWhenOpen /\ FrameInv /\ SkipInv /\ [Next]_vars => SkipInv'
<1> SUFFICES ASSUME OneWriter, TypeInv, DrainsWhenOpen, FrameInv, SkipInv, [Next]_vars
             PROVE  SkipInv'
    OBVIOUS
<1>0. TypeOK /\ WritersOK
      /\ \A d \in Clients : CursorOK(d) /\ FramesOK(d) /\ SentOK(d) /\ PassedOK(d)
    BY DEF TypeInv, FrameInv, SkipInv
<1>1. CASE UNCHANGED vars \/ Outside
    <2>1. CASE UNCHANGED vars
        BY <2>1, <1>0 DEF vars, databaseVars, SkipInv, WritersOK, SentOK, PassedOK, Live, Covers
    <2>2. CASE Outside
        <3>1. /\ WritersOK' /\ aged \subseteq aged' /\ committed \subseteq committed'
              /\ \A e \in committed' \ committed, d \in committed : d < e
            BY <1>0, <2>2, CommitsInOrder
        <3>2. UNCHANGED <<stream, received>> /\ committed' \in SUBSET Ids
            BY <2>2, OutsideIs DEF TypeInv, TypeOK
        <3>3. \A d \in Clients : SentOK(d)' /\ PassedOK(d)'
            BY <1>0, <3>1, <3>2, NothingNewMissed
        <3>4. QED
            BY <3>1, <3>3 DEF SkipInv
    <2>3. QED
        BY <1>1, <2>1, <2>2
<1>2. ASSUME NEW c \in Clients, SentOK(c)' /\ PassedOK(c)', UNCHANGED databaseVars,
             \A d \in Clients \ {c} : stream'[d] = stream[d] /\ received'[d] = received[d]
      PROVE  SkipInv'
    <2>1. \A d \in Clients \ {c} : SentOK(d)' /\ PassedOK(d)'
        BY <1>0, <1>2, NothingNewMissed DEF databaseVars
    <2>2. WritersOK'
        BY <1>0, <1>2 DEF WritersOK, databaseVars
    <2>3. QED
        BY <1>2, <2>1, <2>2 DEF SkipInv
<1>3. ASSUME NEW c \in Clients, Quiet(c) PROVE SkipInv'
    <2>1. /\ Becomes(c, stream'[c])
          /\ UNCHANGED <<databaseVars, sessionVars, connections, received>>
        BY <1>0, <1>3, QuietIs
    <2>2. /\ UNCHANGED <<committed, aged, received>> /\ Live' = Live
          /\ \A d \in Clients \ {c} : stream'[d] = stream[d] /\ received'[d] = received[d]
        BY <1>0, <2>1, BecomesIs DEF databaseVars, Live
    <2>3. SentOK(c)'
        BY <1>0, <2>2, LostMissesNone
    <2>4. PassedOK(c)'
        <3>1. CASE Connect(c)
            <4>1. stream'[c].cursor = LastId(c) /\ stream'[c].drain = "idle"
                BY <1>0, <3>1, ConnectIs
            <4>2. received[c] \in Seq(Frame) /\ Len(received[c]) \in Nat
                BY <1>0 DEF TypeOK
            <4>3. ASSUME NEW e \in Live, e <= LastId(c)
                  PROVE  \E j \in 1..Len(received[c]) : Covers(received[c][j], e)
                <5>1. e \in 1..MaxEvents
                    BY <1>0 DEF Live, TypeOK, Ids
                <5>2. received[c] # <<>>
                    BY <1>0, <4>3, <5>1, LastIdIs, MaxEventsAssumption
                <5>3. Len(received[c]) \in 1..Len(received[c])
                      /\ LastId(c) = received[c][Len(received[c])].id
                    BY <1>0, <4>2, <5>2, LastIdIs
                <5>4. QED
                    BY <1>0, <4>3, <5>3 DEF SentOK
            <4>4. QED
                BY <2>2, <4>1, <4>3 DEF PassedOK, Covers
        <3>2. CASE Reject(c)
            <4>1. stream'[c] = NoStream
                BY <1>0, <3>2, BecomesIs DEF Reject
            <4>2. QED
                BY <4>1 DEF PassedOK, NoStream
        <3>3. CASE ReadSession(c)
            BY <1>0, <2>2, <3>3, ReadSessionIs DEF PassedOK, Covers
        <3>4. CASE SessionAnswersValid(c)
            BY <1>0, <2>2, <3>4, SessionAnswersValidIs DEF PassedOK, Covers
        <3>5. CASE Monitor(c)
            BY <1>0, <2>2, <3>5, MonitorIs DEF PassedOK, Covers
        <3>6. CASE ReadSaved(c) \/ ReadEvents(c) \/ TooManyEvents(c) \/ Wake(c)
            <4>1. /\ stream'[c].phase = stream[c].phase /\ stream'[c].cursor = stream[c].cursor
                  /\ \/ stream'[c].drain = "answered" =>
                            stream[c].drain = "answered" /\ stream'[c].rows = stream[c].rows
                     \/ stream'[c].rows = {e \in committed \ aged : e > stream[c].cursor}
                BY <1>0, <3>6, DrainMoves
            <4>2. stream[c].cursor \in Nat /\ Live \in SUBSET Nat
                BY <1>0, MaxEventsAssumption DEF TypeOK, Stream, Live, Ids
            <4>3. stream'[c].drain = "answered" =>
                    \A e \in Live, r \in stream'[c].rows :
                        stream[c].cursor < e /\ e <= r => e \in stream'[c].rows
                <5>1. CASE stream'[c].rows = {e \in committed \ aged : e > stream[c].cursor}
                    BY <4>2, <5>1 DEF Live
                <5>2. CASE stream[c].drain = "answered" /\ stream'[c].rows = stream[c].rows
                    BY <1>0, <5>2 DEF PassedOK
                <5>3. QED
                    BY <4>1, <5>1, <5>2
            <4>4. QED
                BY <1>0, <2>2, <4>1, <4>3 DEF PassedOK, Covers
        <3>7. QED
            BY <1>3, <3>1, <3>2, <3>3, <3>4, <3>5, <3>6 DEF Quiet
    <2>5. QED
        BY <1>2, <2>1, <2>2, <2>3, <2>4
<1>4. ASSUME NEW c \in Clients, Ends(c) PROVE SkipInv'
    <2>1. /\ Close(c) /\ UNCHANGED databaseVars
          /\ \/ UNCHANGED received
             \/ \E n \in stream[c].base..Len(received[c]) :
                    received' = [received EXCEPT ![c] = SubSeq(@, 1, n)]
        BY <1>0, <1>4, EndsIs
    <2>2. stream'[c] = NoStream /\ \A d \in Clients \ {c} : stream'[d] = stream[d]
        BY <1>0, <2>1, BecomesIs DEF Close
    <2>3. \A d \in Clients \ {c} : received'[d] = received[d]
        BY <1>0, <2>1, DisconnectKeepsBeginning
    <2>4. PassedOK(c)'
        BY <2>2 DEF PassedOK, NoStream
    <2>5. SentOK(c)'
        BY <1>0, <2>1, LostMissesNone DEF databaseVars
    <2>6. QED
        BY <1>2, <2>1, <2>2, <2>3, <2>4, <2>5
<1>5. ASSUME NEW c \in Clients, Accept(c) PROVE SkipInv'
    <2>1. PICK s \in Stream :
            /\ Becomes(c, s) /\ s.cursor = stream[c].cursor
            /\ s.drain \in {"saved", "check"} /\ stream[c].phase = "validating"
        BY <1>0, <1>5, AcceptIs
    <2>2. stream'[c] = s /\ \A d \in Clients \ {c} : stream'[d] = stream[d]
        BY <1>0, <2>1, BecomesIs
    <2>3. UNCHANGED <<databaseVars, received>> /\ Live' = Live
        BY <1>5 DEF Accept, databaseVars, Live
    <2>4. SentOK(c)' /\ PassedOK(c)'
        BY <1>0, <2>1, <2>2, <2>3 DEF SentOK, PassedOK, Covers
    <2>5. QED
        BY <1>2, <2>2, <2>3, <2>4
<1>6. ASSUME NEW c \in Clients, SendEvents(c) \/ Resync(c) PROVE SkipInv'
    <2> DEFINE ids == IF stream[c].drain = "answered" THEN stream[c].rows ELSE {Latest}
               resync == stream[c].drain # "answered"
    <2>1. UNCHANGED databaseVars /\ Live' = Live
        BY <1>6 DEF SendEvents, Resync, databaseVars, Live
    <2>2. /\ Becomes(c, stream'[c]) /\ stream'[c].phase = stream[c].phase
          /\ stream'[c].drain \in {"check", "idle"} /\ stream[c].drain # "idle"
          /\ Delivered(c, ids, resync) /\ ids \in SUBSET (0..MaxEvents)
          /\ stream'[c].cursor \in ids \cup {stream[c].cursor}
        <3>1. CASE SendEvents(c)
            <4>1. stream[c].drain = "answered"
                BY <3>1 DEF SendEvents
            <4>2. /\ Becomes(c, stream'[c]) /\ stream'[c].phase = stream[c].phase
                  /\ stream'[c].drain \in {"check", "idle"}
                  /\ stream[c].rows \cup {stream[c].cursor} \in SUBSET (0..MaxEvents)
                  /\ stream'[c].cursor = Max(stream[c].rows \cup {stream[c].cursor})
                  /\ Delivered(c, stream[c].rows, FALSE)
                BY <1>0, <3>1, SendEventsIs
            <4>3. stream'[c].cursor \in stream[c].rows \cup {stream[c].cursor}
                BY <4>2, MaxOfIds
            <4>4. ids = stream[c].rows /\ resync = FALSE
                BY <4>1
            <4>5. QED
                BY <4>1, <4>2, <4>3, <4>4
        <3>2. CASE Resync(c)
            <4>1. stream[c].drain # "answered"
                BY <3>2 DEF Resync
            <4>2. /\ Becomes(c, stream'[c]) /\ stream'[c].phase = stream[c].phase
                  /\ stream'[c].drain \in {"check", "idle"} /\ stream[c].drain # "idle"
                  /\ stream'[c].cursor = Latest /\ Delivered(c, {Latest}, TRUE)
                BY <1>0, <3>2, ResyncIs
            <4>3. {Latest} \in SUBSET (0..MaxEvents)
                BY <1>0, LatestIs
            <4>4. ids = {Latest} /\ resync = TRUE
                BY <4>1
            <4>5. QED
                BY <4>2, <4>3, <4>4
        <3>3. QED
            BY <1>6, <3>1, <3>2
    <2>3. stream[c].phase # "idle"
        BY <2>2 DEF DrainsWhenOpen
    <2>4. \/ resync /\ ids = {Latest}
          \/ ~resync /\ \A e \in Live, r \in ids : stream[c].cursor < e /\ e <= r => e \in ids
        BY <1>0 DEF PassedOK
    <2>5. resync \in BOOLEAN
        OBVIOUS
    <2> HIDE DEF ids, resync
    <2>6. /\ SentOK(c)'
          /\ \A e \in Live, r \in ids \cup {stream[c].cursor} :
                e <= r => \E j \in 1..Len(received'[c]) : Covers(received'[c][j], e)
        BY <1>0, <2>1, <2>2, <2>3, <2>4, <2>5, DeliveredMissesNone DEF databaseVars
    <2>7. PassedOK(c)'
        BY <2>1, <2>2, <2>6 DEF PassedOK, Covers
    <2>8. \A d \in Clients \ {c} : stream'[d] = stream[d] /\ received'[d] = received[d]
        BY <1>0, <2>2, BecomesIs DEF Delivered
    <2>9. QED
        BY <1>2, <2>1, <2>6, <2>7, <2>8
<1>7. QED
    BY <1>1, <1>3, <1>4, <1>5, <1>6, NextIs

\* Nothing is written at first.
LEMMA SkipInit == Init => SkipInv
BY DEF Init, SkipInv, WritersOK, SentOK, PassedOK, Live, NoStream

\* When events are written one at a time, a client that has received some id
\* has been told of every event up to it, over replays, resyncs, lost frames
\* and new connections.  The run lost_event shows that the hypothesis is needed.
THEOREM NothingLost ==
    ASSUME OneWriter
    PROVE  Spec => []NothingSkipped
<1>1. TypeInv /\ SkipInv => NothingSkipped
    <2> SUFFICES ASSUME TypeInv, SkipInv, NEW c \in Clients,
                        NEW e \in committed \ aged, e <= LastId(c)
                 PROVE  \E i \in DOMAIN received[c] :
                            \/ received[c][i] = [id |-> e, resync |-> FALSE]
                            \/ received[c][i].resync /\ received[c][i].id >= e
        BY DEF NothingSkipped
    <2>1. TypeOK /\ received[c] \in Seq(Frame) /\ Len(received[c]) \in Nat
        BY DEF TypeInv, TypeOK
    <2>2. DOMAIN received[c] = 1..Len(received[c])
        BY <2>1
    <2>3. e \in 1..MaxEvents
        BY <2>1 DEF TypeOK, Ids
    <2>4. received[c] # <<>>
        BY <2>1, <2>3, LastIdIs, MaxEventsAssumption
    <2>5. Len(received[c]) \in 1..Len(received[c])
          /\ LastId(c) = received[c][Len(received[c])].id
        BY <2>1, <2>4, LastIdIs
    <2>6. SentOK(c) /\ e \in Live
        BY DEF SkipInv, Live
    <2>7. \E j \in 1..Len(received[c]) : Covers(received[c][j], e)
        BY <2>5, <2>6 DEF SentOK
    <2>8. QED
        BY <2>2, <2>7 DEF Covers
<1>2. TypeInv /\ DrainsWhenOpen /\ FrameInv /\ SkipInv /\ [Next]_vars => SkipInv'
    BY SkipNext
<1>3. QED
    BY <1>1, <1>2, FrameInit, FrameNext, SkipInit, TypeAlways, PTL DEF Spec

-----------------------------------------------------------------------------
(* Revocation. *)

\* The replays a stream may still write: those written, one if a round is past
\* its check, and one if an answer of before the revocation is on its way.
RevocationOK(c) ==
    LET s == stream[c]
    IN  /\ c \notin revoked => s.lateReplays = 0
        /\ s.lateReplays <= 2
        /\ s.drain \in {"query", "answered"} => s.lateReplays <= 1
        /\ s.check = "valid" => s.lateReplays <= 1
        /\ s.check = "valid" /\ s.drain \in {"query", "answered"} => s.lateReplays = 0

\* A round of the monitor that began after the revocation and asks by itself
\* is not answered by a row of before.
MonitorOK(c) ==
    LET s == stream[c]
    IN  /\ s.startedRevoked => c \in revoked
        /\ s.monitor = "fresh" /\ s.startedRevoked => s.check # "valid"

RevocationInv == \A c \in Clients : RevocationOK(c) /\ MonitorOK(c)

\* Every step keeps both.
LEMMA RevocationNext ==
    TypeInv /\ DrainsWhenOpen /\ RevocationInv /\ [Next]_vars => RevocationInv'
<1> SUFFICES ASSUME TypeInv, DrainsWhenOpen, RevocationInv, [Next]_vars PROVE RevocationInv'
    OBVIOUS
<1>0. TypeOK /\ \A d \in Clients : RevocationOK(d) /\ MonitorOK(d)
    BY DEF TypeInv, RevocationInv
<1>1. CASE UNCHANGED vars \/ Outside
    <2>1. revoked \subseteq revoked' /\ UNCHANGED stream
        BY <1>1, OutsideIs DEF vars, sessionVars
    <2>2. QED
        BY <1>0, <2>1 DEF RevocationInv, RevocationOK, MonitorOK
<1>2. ASSUME NEW c \in Clients, RevocationOK(c)' /\ MonitorOK(c)', UNCHANGED revoked,
             \A d \in Clients \ {c} : stream'[d] = stream[d]
      PROVE  RevocationInv'
    <2>1. \A d \in Clients \ {c} : RevocationOK(d)' /\ MonitorOK(d)'
        BY <1>0, <1>2 DEF RevocationOK, MonitorOK
    <2>2. QED
        BY <1>2, <2>1 DEF RevocationInv
<1>3. ASSUME NEW c \in Clients, stream'[c] = NoStream, UNCHANGED revoked
      PROVE  RevocationOK(c)' /\ MonitorOK(c)'
    BY <1>3 DEF RevocationOK, MonitorOK, NoStream
<1>4. ASSUME NEW c \in Clients, Quiet(c) PROVE RevocationInv'
    <2>1. Becomes(c, stream'[c]) /\ UNCHANGED revoked
        BY <1>0, <1>4, QuietIs DEF sessionVars
    <2>2. \A d \in Clients \ {c} : stream'[d] = stream[d]
        BY <1>0, <2>1, BecomesIs
    <2>3. RevocationOK(c) /\ MonitorOK(c) /\ stream[c].lateReplays \in 0..3
        BY <1>0 DEF TypeOK, Stream
    <2>4. RevocationOK(c)' /\ MonitorOK(c)'
        <3>1. CASE Connect(c)
            BY <1>0, <2>1, <3>1, ConnectIs DEF RevocationOK, MonitorOK
        <3>2. CASE Reject(c)
            BY <1>0, <1>3, <2>1, <3>2, BecomesIs DEF Reject
        <3>3. CASE ReadSession(c)
            BY <1>0, <2>1, <2>3, <3>3, ReadSessionIs DEF RevocationOK, MonitorOK
        <3>4. CASE SessionAnswersValid(c)
            BY <1>0, <2>1, <2>3, <3>4, SessionAnswersValidIs DEF RevocationOK, MonitorOK
        <3>5. CASE Monitor(c)
            BY <1>0, <2>1, <2>3, <3>5, MonitorIs DEF RevocationOK, MonitorOK, Asked
        <3>6. CASE ReadSaved(c) \/ ReadEvents(c) \/ TooManyEvents(c) \/ Wake(c)
            BY <1>0, <2>1, <2>3, <3>6, DrainMoves DEF RevocationOK, MonitorOK, Asked
        <3>7. QED
            BY <1>4, <3>1, <3>2, <3>3, <3>4, <3>5, <3>6 DEF Quiet
    <2>5. QED
        BY <1>2, <2>1, <2>2, <2>4
<1>5. ASSUME NEW c \in Clients, Ends(c) PROVE RevocationInv'
    <2>1. Close(c) /\ UNCHANGED revoked
        BY <1>0, <1>5, EndsIs DEF sessionVars
    <2>2. stream'[c] = NoStream /\ \A d \in Clients \ {c} : stream'[d] = stream[d]
        BY <1>0, <2>1, BecomesIs DEF Close
    <2>3. QED
        BY <1>2, <1>3, <2>1, <2>2
<1>6. ASSUME NEW c \in Clients, Accept(c) PROVE RevocationInv'
    <2>1. PICK s \in Stream :
            /\ Becomes(c, s) /\ s.drain \in {"saved", "check"} /\ s.check \in {"none", "asked"}
            /\ s.monitor = stream[c].monitor /\ s.startedRevoked = stream[c].startedRevoked
            /\ s.lateReplays = stream[c].lateReplays
        BY <1>0, <1>6, AcceptIs
    <2>2. stream'[c] = s /\ \A d \in Clients \ {c} : stream'[d] = stream[d]
        BY <1>0, <2>1, BecomesIs
    <2>3. UNCHANGED revoked
        BY <1>6 DEF Accept, sessionVars
    <2>4. RevocationOK(c)' /\ MonitorOK(c)'
        BY <1>0, <2>1, <2>2, <2>3 DEF RevocationOK, MonitorOK
    <2>5. QED
        BY <1>2, <2>2, <2>3, <2>4
<1>7. ASSUME NEW c \in Clients, SendEvents(c) \/ Resync(c) PROVE RevocationInv'
    <2>1. UNCHANGED revoked
        BY <1>7 DEF SendEvents, Resync, sessionVars
    <2>2. RevocationOK(c) /\ MonitorOK(c) /\ stream[c].lateReplays \in 0..3
        BY <1>0 DEF TypeOK, Stream
    <2>3. CASE SendEvents(c)
        <3>1. stream[c].drain = "answered"
            BY <2>3 DEF SendEvents
        <3>2. /\ Becomes(c, stream'[c]) /\ stream'[c].drain \in {"check", "idle"}
              /\ stream'[c].check \in {stream[c].check, Asked(stream[c].check)}
              /\ stream'[c].monitor = stream[c].monitor
              /\ stream'[c].startedRevoked = stream[c].startedRevoked
              /\ stream'[c].lateReplays = IF c \in revoked /\ stream[c].lateReplays < 3
                                          THEN stream[c].lateReplays + 1 ELSE stream[c].lateReplays
            BY <1>0, <2>3, SendEventsIs
        <3>3. RevocationOK(c)' /\ MonitorOK(c)'
            BY <2>1, <2>2, <3>1, <3>2 DEF RevocationOK, MonitorOK, Asked
        <3>4. QED
            BY <1>0, <1>2, <2>1, <3>2, <3>3, BecomesIs
    <2>4. CASE Resync(c)
        <3>1. /\ Becomes(c, stream'[c]) /\ stream'[c].drain \in {"check", "idle"}
              /\ stream'[c].check \in {stream[c].check, Asked(stream[c].check)}
              /\ stream'[c].monitor = stream[c].monitor
              /\ stream'[c].startedRevoked = stream[c].startedRevoked
              /\ stream'[c].lateReplays = stream[c].lateReplays
            BY <1>0, <2>4, ResyncIs
        <3>2. RevocationOK(c)' /\ MonitorOK(c)'
            BY <2>1, <2>2, <3>1 DEF RevocationOK, MonitorOK, Asked
        <3>3. QED
            BY <1>0, <1>2, <2>1, <3>1, <3>2, BecomesIs
    <2>5. QED
        BY <1>7, <2>3, <2>4
<1>8. QED
    BY <1>1, <1>4, <1>5, <1>6, <1>7, NextIs

\* Nothing is revoked at first.
LEMMA RevocationInit == Init => RevocationInv
BY DEF Init, RevocationInv, RevocationOK, MonitorOK, NoStream

\* Types and revocation, always.
LEMMA RevocationAlways == Spec => [](TypeInv /\ DrainsWhenOpen /\ RevocationInv)
BY RevocationInit, RevocationNext, TypeAlways, PTL DEF Spec

\* A stream whose session is revoked writes at most two more replays.
THEOREM RevocationCorrect == Spec => []RevocationBoundsReplays
<1>1. TypeInv /\ DrainsWhenOpen /\ RevocationInv => RevocationBoundsReplays
    BY DEF RevocationInv, RevocationOK, RevocationBoundsReplays
<1>2. QED
    BY <1>1, RevocationAlways, PTL

\* Only a valid answer ends a round and keeps the stream; a round that began
\* after the revocation has none.
LEMMA MonitorNext ==
    TypeInv /\ DrainsWhenOpen /\ RevocationInv /\ [Next]_vars => [RoundSeesRevocation]_vars
<1> SUFFICES ASSUME TypeInv, DrainsWhenOpen, RevocationInv, Next,
                    NEW c \in Clients, Open(c), stream[c].monitor # "idle",
                    stream[c].startedRevoked, stream'[c].monitor = "idle"
             PROVE  stream'[c].phase # "open"
    BY DEF RoundSeesRevocation
<1>0. TypeOK /\ MonitorOK(c)
    BY DEF TypeInv, RevocationInv
<1>1. CASE Outside
    BY <1>1, OutsideIs
<1>2. ASSUME NEW d \in Clients, Quiet(d) PROVE stream'[c].phase # "open"
    <2>1. Becomes(d, stream'[d])
        BY <1>0, <1>2, QuietIs
    <2>2. CASE d # c
        BY <1>0, <2>1, <2>2, BecomesIs
    <2>3. CASE d = c
        <3>1. ~Connect(c) /\ ~Reject(c) /\ ~Monitor(c)
            BY DEF Connect, Reject, Monitor, Open
        <3>2. CASE ReadSession(c)
            BY <1>0, <3>2, ReadSessionIs
        <3>3. CASE SessionAnswersValid(c)
            BY <1>0, <3>3, SessionAnswersValidIs DEF MonitorOK, TypeOK, Stream
        <3>4. CASE ReadSaved(c) \/ ReadEvents(c) \/ TooManyEvents(c) \/ Wake(c)
            BY <1>0, <3>4, DrainMoves
        <3>5. QED
            BY <1>2, <2>3, <3>1, <3>2, <3>3, <3>4 DEF Quiet
    <2>4. QED
        BY <2>2, <2>3
<1>3. ASSUME NEW d \in Clients, Ends(d) PROVE stream'[c].phase # "open"
    <2>1. stream'[d] = NoStream /\ \A x \in Clients \ {d} : stream'[x] = stream[x]
        BY <1>0, <1>3, EndsIs, BecomesIs DEF Close
    <2>2. QED
        BY <2>1 DEF NoStream
<1>4. ASSUME NEW d \in Clients, Accept(d) PROVE stream'[c].phase # "open"
    <2>1. PICK s \in Stream : Becomes(d, s) /\ stream[d].phase = "validating"
        BY <1>0, <1>4, AcceptIs
    <2>2. d # c
        BY <2>1 DEF Open
    <2>3. QED
        BY <1>0, <2>1, <2>2, BecomesIs
<1>5. ASSUME NEW d \in Clients, SendEvents(d) \/ Resync(d) PROVE stream'[c].phase # "open"
    <2>1. Becomes(d, stream'[d]) /\ stream'[d].monitor = stream[d].monitor
        BY <1>0, <1>5, SendEventsIs, ResyncIs
    <2>2. QED
        BY <1>0, <2>1, BecomesIs
<1>6. QED
    BY <1>1, <1>2, <1>3, <1>4, <1>5, NextIs

\* The monitor's round that begins after a revocation sees it, whatever query
\* it joins.
THEOREM MonitorCorrect == Spec => MonitorSeesRevocation
<1>1. TypeInv /\ DrainsWhenOpen /\ RevocationInv /\ [Next]_vars => [RoundSeesRevocation]_vars
    BY MonitorNext
<1>2. QED
    BY <1>1, RevocationAlways, PTL DEF Spec, MonitorSeesRevocation
==============================================================================

---------------------------- MODULE StreamsProofs ----------------------------
(***************************************************************************)
(* Proofs about the readers of Streams, for every driver, every number of  *)
(* queries, readers, tokens and rows: how many rows a stream gives after   *)
(* its stop, in every use the code allows; that every state is of its      *)
(* types, in every use too; that readers give their own rows, where none   *)
(* is begun twice; and that a stop ends nothing but what has its token, in *)
(* the uses that are supported.                                            *)
(***************************************************************************)
EXTENDS StreamsLists

Fields == {"kind", "stmt", "of", "token", "watch", "own", "at", "phase", "yielded", "late"}

(* Consumers are records of these fields, whatever is in them.             *)
Record(r) == r = [f \in Fields |-> r[f]]
Shape == /\ consumer = [c \in Consumers |-> consumer[c]]
         /\ \A c \in Consumers : Record(consumer[c])

(* A late row is of a stream whose token is stopped, and the last: such a  *)
(* stream is never past the test of the token again.                       *)
LateOf(r) ==
    /\ r.late \in {0, 1}
    /\ r.late = 1 => r.token \in stopped /\ r.phase # "checked"
    /\ r.token = None \/ r.kind = "stream"
    /\ r.phase = "execute" => r.late = 0

(* The inductive invariant.                                                *)
LateInv ==
    /\ Shape
    /\ None \notin stopped
    /\ \A c \in Consumers : LateOf(consumer[c])

-----------------------------------------------------------------------------
(* One consumer is replaced.                                               *)
LEMMA Replaced ==
    ASSUME LateInv, stopped' = stopped, NEW c \in Consumers, NEW r, Record(r), LateOf(r),
           consumer' = [consumer EXCEPT ![c] = r]
    PROVE  LateInv'
<1>1. \A d \in Consumers : consumer'[d] = IF d = c THEN r ELSE consumer[d]
  BY DEF LateInv, Shape
<1>2. consumer' = [d \in Consumers |-> consumer'[d]]
  BY DEF LateInv, Shape
<1>3. \A d \in Consumers : Record(consumer[d])' /\ LateOf(consumer[d])'
  BY <1>1 DEF LateInv, Shape, Record, LateOf
<1> QED BY <1>2, <1>3 DEF LateInv, Shape

(* Its phase changes, to one that a late row allows.                       *)
LEMMA PhaseChanged ==
    ASSUME LateInv, stopped' = stopped, NEW c \in Consumers, NEW p, p # "execute",
           p = "checked" => consumer[c].late = 0,
           consumer' = [consumer EXCEPT ![c].phase = p]
    PROVE  LateInv'
<1> DEFINE r == [consumer[c] EXCEPT !.phase = p]
<1>1. Record(consumer[c]) /\ LateOf(consumer[c])
  BY DEF LateInv, Shape
<1>2. Record(r) /\ r.late = consumer[c].late /\ r.token = consumer[c].token
      /\ r.kind = consumer[c].kind /\ r.phase = p
  BY <1>1 DEF Record, Fields
<1>3. LateOf(r)
  BY <1>1, <1>2 DEF LateOf
<1>4. consumer' = [consumer EXCEPT ![c] = r]
  BY DEF LateInv, Shape
<1> HIDE DEF r
<1> QED BY <1>2, <1>3, <1>4, Replaced

(* What a new execution, and a destroyed one, is replaced by.              *)
LEMMA NewReader ==
    ASSUME NEW kind, NEW s, NEW e, NEW t, NEW own, NEW phase, t = None \/ kind = "stream"
    PROVE  /\ Record(Reader(kind, s, e, t, own, phase))
           /\ LateOf(Reader(kind, s, e, t, own, phase))
<1> DEFINE r == Reader(kind, s, e, t, own, phase)
<1>1. Record(r)
  BY DEF Reader, Record, Fields
<1>2. r.late = 0 /\ r.token = t /\ r.kind = kind
  BY DEF Reader
<1>3. LateOf(r)
  BY <1>2 DEF LateOf
<1> QED BY <1>1, <1>3

LEMMA NoConsumerKeeps == Record(NoConsumer) /\ LateOf(NoConsumer)
BY NewReader DEF NoConsumer

(* A callback is registered or has run: nothing LateOf speaks of.          *)
LEMMA WatchChanged ==
    ASSUME LateInv, stopped' = stopped, NEW c \in Consumers, NEW w,
           consumer' = [consumer EXCEPT ![c].watch = w]
    PROVE  LateInv'
<1> DEFINE r == [consumer[c] EXCEPT !.watch = w]
<1>1. Record(consumer[c]) /\ LateOf(consumer[c])
  BY DEF LateInv, Shape
<1>2. Record(r) /\ r.late = consumer[c].late /\ r.token = consumer[c].token
      /\ r.kind = consumer[c].kind /\ r.phase = consumer[c].phase
  BY <1>1 DEF Record, Fields
<1>3. LateOf(r)
  BY <1>1, <1>2 DEF LateOf
<1>4. consumer' = [consumer EXCEPT ![c] = r]
  BY DEF LateInv, Shape
<1> HIDE DEF r
<1> QED BY <1>2, <1>3, <1>4, Replaced

-----------------------------------------------------------------------------
(* The steps, one lemma for each that changes a consumer.                  *)
LEMMA ExecutesKeeps ==
    ASSUME LateInv, NEW c \in Consumers, NEW s, NEW st, NEW kind, NEW t, NEW own,
           t = None \/ kind = "stream", Executes(c, s, st, kind, t, own)
    PROVE  LateInv'
<1> DEFINE r == Reader(kind, s, Len(answers) + 1, t, own, "execute")
<1>1. consumer' = [consumer EXCEPT ![c] = r] /\ stopped' = stopped
  BY DEF Executes
<1>2. Record(r) /\ LateOf(r)
  BY NewReader
<1> HIDE DEF r
<1> QED BY <1>1, <1>2, Replaced

LEMMA InitStopCallbackKeeps ==
    ASSUME LateInv, NEW c \in Consumers, stopped' = stopped, InitStopCallback(c)
    PROVE  LateInv'
<1> DEFINE w == Registered(consumer[c].token)
           r == [consumer[c] EXCEPT !.phase = "fresh", !.watch = w]
<1>1. Record(consumer[c]) /\ LateOf(consumer[c])
  BY DEF LateInv, Shape
<1>2. Record(r) /\ r.late = consumer[c].late /\ r.token = consumer[c].token
      /\ r.kind = consumer[c].kind /\ r.phase = "fresh"
  BY <1>1 DEF Record, Fields
<1>3. LateOf(r)
  BY <1>1, <1>2 DEF LateOf
<1>4. consumer' = [consumer EXCEPT ![c] = r]
  BY DEF InitStopCallback, LateInv, Shape
<1> HIDE DEF r
<1> QED BY <1>2, <1>3, <1>4, Replaced

LEMMA ExecuteEndsKeeps ==
    ASSUME LateInv, NEW c \in Consumers, ExecuteRefused(c) \/ ExecuteReturns(c)
    PROVE  LateInv'
<1>1. stopped' = stopped /\ consumer[c].phase = "execute"
  BY DEF ExecuteRefused, ExecuteReturns
<1>2. consumer[c].late = 0
  BY <1>1 DEF LateInv, LateOf
<1>3. CASE ExecuteRefused(c)
  BY <1>1, <1>3, PhaseChanged DEF ExecuteRefused
<1>4. CASE ExecuteReturns(c) /\ consumer[c].kind = "stream"
  BY <1>1, <1>4, InitStopCallbackKeeps DEF ExecuteReturns
<1>5. CASE ExecuteReturns(c) /\ consumer[c].kind # "stream"
  BY <1>1, <1>2, <1>5, PhaseChanged DEF ExecuteReturns
<1> QED BY <1>3, <1>4, <1>5

(* The test of the token: what passes it has given no late row.            *)
LEMMA AdvanceKeeps ==
    ASSUME LateInv, NEW c \in Consumers, Advance(c)
    PROVE  LateInv'
<1> DEFINE p == IF consumer[c].token \in stopped THEN "cancelled" ELSE "checked"
<1>1. consumer' = [consumer EXCEPT ![c].phase = p] /\ stopped' = stopped
  BY DEF Advance, AdvanceChecks
<1>2. p # "execute" /\ (p = "checked" => consumer[c].late = 0)
  BY DEF LateInv, LateOf
<1> HIDE DEF p
<1> QED BY <1>1, <1>2, PhaseChanged

(* A row that comes late is the first: its stream leaves "checked".        *)
LEMMA FetchKeeps ==
    ASSUME LateInv, NEW c \in Consumers, Fetch(c)
    PROVE  LateInv'
<1> DEFINE r == consumer[c]
           step == ReaderNext(c)
           row == <<IF r.own THEN r.of ELSE step.st.of, step.at>>
           phase == CASE r.kind = "stream" -> "row"
                      [] r.kind = "list" -> "checked"
                      [] r.kind = "first" -> "end"
           late == IF r.token \in stopped THEN r.late + 1 ELSE r.late
           new == [r EXCEPT !.at = step.at, !.yielded = Append(r.yielded, row),
                            !.late = late, !.phase = phase]
<1>1. stopped' = stopped /\ r.phase = "checked" /\ Record(r) /\ LateOf(r) /\ None \notin stopped
  BY DEF Fetch, LateInv, Shape
<1>2. CASE step.out = "row"
  <2>1. consumer' = [consumer EXCEPT ![c] = new]
    BY <1>2 DEF Fetch
  <2>0. r = [f \in Fields |-> r[f]]
    BY <1>1 DEF Record
  <2> HIDE DEF step, row, r, late, phase
  <2>2. Record(new) /\ new.late = late /\ new.token = r.token /\ new.kind = r.kind
        /\ new.phase = phase
    BY <2>0 DEF Record, Fields
  <2> USE DEF r, late, phase
  <2>3. r.late = 0 /\ late \in {0, 1} /\ (late = 1 => r.token \in stopped)
    BY <1>1 DEF LateOf
  <2>4. late = 1 => r.kind = "stream"
    BY <1>1, <2>3 DEF LateOf
  <2>5. r.kind = "stream" => phase = "row"
    OBVIOUS
  <2>6. phase = "execute" => late = 0
    BY <2>3, <2>4, <2>5
  <2>7. LateOf(new)
    BY <1>1, <2>2, <2>3, <2>4, <2>5, <2>6 DEF LateOf
  <2> HIDE DEF new
  <2> QED BY <1>1, <2>1, <2>2, <2>7, Replaced
<1>3. CASE step.out # "row"
  <2> DEFINE p == IF step.out = "ends" THEN "end" ELSE "failed"
  <2>1. consumer' = [consumer EXCEPT ![c].phase = p]
    BY <1>3 DEF Fetch
  <2>2. p # "execute" /\ p # "checked"
    OBVIOUS
  <2> HIDE DEF p
  <2> QED BY <1>1, <2>1, <2>2, PhaseChanged
<1> QED BY <1>2, <1>3

LEMMA DestroyKeeps ==
    ASSUME LateInv, NEW c \in Consumers, Destroy(c)
    PROVE  LateInv'
BY NoConsumerKeeps, Replaced DEF Destroy

-----------------------------------------------------------------------------
LEMMA LateInit == Init => LateInv
BY NoConsumerKeeps DEF Init, LateInv, Shape

LEMMA OthersKeep ==
    ASSUME LateInv, stopped \subseteq stopped', None \notin stopped', UNCHANGED consumer
    PROVE  LateInv'
BY DEF LateInv, Shape, Record, LateOf

LEMMA ConsumerStep ==
    ASSUME LateInv, NEW c \in Consumers,
           \/ \E s \in Queries : ExecuteList(c, s) \/ ExecuteFirst(c, s) \/ Stream(c, s)
           \/ \E s \in Queries, t \in Tokens : StreamWithOptions(c, s, t)
           \/ \E t \in Tokens \cup {None} : ConnectionStream(c, t)
           \/ QueryBuilderStream(c)
           \/ ExecuteRefused(c) \/ ExecuteReturns(c)
           \/ Advance(c) \/ Fetch(c) \/ Destroy(c) \/ MoveStream(c)
           \/ StreamCallback(c)
    PROVE  LateInv'
<1>1. ASSUME NEW s \in Queries, ExecuteList(c, s) \/ ExecuteFirst(c, s) \/ Stream(c, s)
      PROVE  LateInv'
  BY <1>1, ExecutesKeeps DEF ExecuteList, ExecuteFirst, Stream, Prepared
<1>2. ASSUME NEW s \in Queries, NEW t \in Tokens, StreamWithOptions(c, s, t)
      PROVE  LateInv'
  BY <1>2, ExecutesKeeps DEF StreamWithOptions, Prepared
<1>3. ASSUME NEW t, ConnectionStream(c, t)
      PROVE  LateInv'
  BY <1>3, ExecutesKeeps DEF ConnectionStream, OnOwnStatement
<1>4. CASE QueryBuilderStream(c)
  BY <1>4, ExecutesKeeps DEF QueryBuilderStream, OnOwnStatement
<1>5. CASE MoveStream(c)
  BY <1>5, InitStopCallbackKeeps DEF MoveStream
<1>6. CASE StreamCallback(c)
  BY <1>6, WatchChanged DEF StreamCallback
<1> QED BY <1>1, <1>2, <1>3, <1>4, <1>5, <1>6, ExecuteEndsKeeps, AdvanceKeeps, FetchKeeps,
           DestroyKeeps

LEMMA LateNext == LateInv /\ [Next]_vars => LateInv'
<1> SUFFICES ASSUME LateInv, [Next]_vars PROVE LateInv'
  OBVIOUS
<1>1. None \notin stopped
  BY DEF LateInv
<1>2. CASE UNCHANGED vars
  BY <1>1, <1>2, OthersKeep DEF vars
<1>3. ASSUME NEW s \in Statements, StatementCallback(s) PROVE LateInv'
  BY <1>1, <1>3, OthersKeep DEF StatementCallback
<1>4. ASSUME NEW t \in Tokens, RequestStop(t) PROVE LateInv'
  <2>1. t # None
    BY StreamAssumption DEF None
  <2> QED BY <1>1, <1>4, <2>1, OthersKeep DEF RequestStop
<1>5. ASSUME NEW b, PushBack(b) \/ TakeVector(b) PROVE LateInv'
  BY <1>1, <1>5, OthersKeep DEF PushBack, TakeVector
<1>6. CASE Keep
  BY <1>1, <1>6, OthersKeep DEF Keep
<1> QED BY <1>2, <1>3, <1>4, <1>5, <1>6, ConsumerStep DEF Next

(* After its stop was requested a stream gives one more row at the most,   *)
(* on every driver and in every use (streaming.h, advance).                *)
THEOREM StopIsPrompt == Spec => []StopBoundsRows
<1>1. LateInv => StopBoundsRows
  <2> SUFFICES ASSUME LateInv, NEW c \in Live PROVE consumer[c].late <= 1
    BY DEF StopBoundsRows
  <2>1. consumer[c].late \in {0, 1}
    BY DEF LateInv, LateOf, Live
  <2> QED BY <2>1
<1> QED BY <1>1, LateInit, LateNext, PTL DEF Spec

-----------------------------------------------------------------------------
(* Types.  A statement is a record; a consumer that reads knows the        *)
(* statement it reads from and the execution whose rows it reads.          *)
St(of, at, token) == [of |-> of, at |-> at, token |-> token]

StatementOf(s) ==
    /\ statement[s] = St(statement[s].of, statement[s].at, statement[s].token)
    /\ statement[s].of \in 0..Len(answers)
    /\ statement[s].at \in 0..(IF statement[s].of = 0 THEN 0 ELSE answers[statement[s].of])
    /\ statement[s].token \in Tokens \cup {None}
    /\ driver = "postgres" => statement[s].at = 0

ReadsFrom(c) ==
    /\ consumer[c].stmt \in Queries \cup {c} /\ consumer[c].of \in 1..Len(answers)
    /\ consumer[c].own \in BOOLEAN
    /\ driver = "postgres" => consumer[c].own
    /\ driver \in {"sqlite", "odbc"} => ~consumer[c].own
    /\ driver = "sqlite" => statement[consumer[c].stmt].of # 0

ConsumerOf(c) ==
    /\ consumer[c].kind \in {"none", "stream", "list", "first"}
    /\ consumer[c].phase \in {"none", "execute", "refused", "fresh", "checked", "row",
                              "end", "cancelled", "failed"}
    /\ consumer[c].token \in Tokens \cup {None}
    /\ consumer[c].watch \in {consumer[c].token, None}
    /\ consumer[c].kind = "none" <=> consumer[c].phase = "none"
    /\ IF consumer[c].kind = "none" THEN consumer[c].watch = None ELSE ReadsFrom(c)

Globals ==
    /\ driver \in Drivers /\ driver \in {"sqlite", "postgres", "mysql", "odbc"}
    /\ answers \in Seq(Nat) /\ stopped \subseteq Tokens /\ halted \subseteq Statements

(* One call at the most is on the stack of the application's thread.       *)
OneCall == \A c, d \in Calling : c = d

TypesInv ==
    /\ Globals /\ Shape /\ OneCall
    /\ statement = [s \in Statements |-> statement[s]]
    /\ \A s \in Statements : StatementOf(s)
    /\ \A c \in Consumers : ConsumerOf(c)

OtherConsumers(c) ==
    /\ consumer' = [d \in Consumers |-> consumer'[d]]
    /\ \A d \in Consumers : d # c => consumer'[d] = consumer[d]
OtherStatements(s) ==
    /\ statement' = [u \in Statements |-> statement'[u]]
    /\ \A u \in Statements : u # s => statement'[u] = statement[u]
AnswersKept ==
    /\ Len(answers) <= Len(answers')
    /\ \A i \in 1..Len(answers) : answers'[i] = answers[i]

LEMMA LiveConsumer ==
    ASSUME TypesInv, NEW c \in Live
    PROVE  /\ c \in Consumers /\ consumer[c].stmt \in Statements /\ ReadsFrom(c)
           /\ consumer[c].phase # "none" /\ consumer[c].kind # "none"
BY DEF TypesInv, ConsumerOf, ReadsFrom, Live, Statements

LEMMA OneCallKept ==
    ASSUME OneCall, NEW c \in Consumers, OtherConsumers(c),
           c \in Calling \/ Calling = {} \/ c \notin Calling'
    PROVE  OneCall'
<1>1. \A d \in Calling' : d = c \/ d \in Calling
  BY DEF Calling, Live, InCall, OtherConsumers
<1> QED BY <1>1 DEF OneCall

(* What changes is of the types, and what does not may be relied upon.     *)
LEMMA TypesKept ==
    ASSUME TypesInv, Globals', OneCall', AnswersKept, driver' = driver, NEW C, NEW S,
           consumer' = [d \in Consumers |-> consumer'[d]],
           \A d \in Consumers : IF d \in C THEN Record(consumer[d])' /\ ConsumerOf(d)'
                                ELSE consumer'[d] = consumer[d],
           statement' = [s \in Statements |-> statement'[s]],
           \A s \in Statements : IF s \in S THEN StatementOf(s)' ELSE statement'[s] = statement[s],
           driver = "sqlite" => \A d \in Live : d \notin C /\ consumer[d].stmt \in S =>
                                    statement'[consumer[d].stmt].of # 0
    PROVE  TypesInv'
<1>1. Shape'
  BY DEF Shape, TypesInv, Record
<1>2. Len(answers) \in Nat /\ Len(answers') \in Nat
  BY DEF Globals, TypesInv
<1>3. ASSUME NEW s \in Statements PROVE StatementOf(s)'
  <2>1. CASE s \notin S
    <3>1. StatementOf(s) /\ statement'[s] = statement[s]
      BY <2>1 DEF TypesInv
    <3>2. statement[s].of \in 0..Len(answers')
      BY <1>2, <3>1 DEF StatementOf, AnswersKept
    <3>3. statement[s].of # 0 => answers'[statement[s].of] = answers[statement[s].of]
      BY <1>2, <3>1 DEF StatementOf, AnswersKept
    <3> QED BY <3>1, <3>2, <3>3 DEF StatementOf
  <2> QED BY <2>1
<1>4. ASSUME NEW d \in Consumers PROVE ConsumerOf(d)'
  <2>1. CASE d \notin C
    <3>1. ConsumerOf(d) /\ consumer'[d] = consumer[d]
      BY <2>1 DEF TypesInv
    <3>2. CASE consumer[d].kind = "none"
      BY <3>1, <3>2 DEF ConsumerOf
    <3>3. CASE consumer[d].kind # "none"
      <4>1. ReadsFrom(d) /\ d \in Live /\ consumer[d].stmt \in Statements
        BY <3>1, <3>3 DEF ConsumerOf, Live, ReadsFrom, Statements
      <4>2. consumer[d].of \in 1..Len(answers')
        BY <1>2, <4>1 DEF ReadsFrom, AnswersKept
      <4>3. driver = "sqlite" => statement'[consumer[d].stmt].of # 0
        BY <2>1, <4>1 DEF ReadsFrom
      <4>4. ReadsFrom(d)'
        BY <3>1, <4>1, <4>2, <4>3 DEF ReadsFrom
      <4> QED BY <3>1, <3>3, <4>4 DEF ConsumerOf
    <3> QED BY <3>2, <3>3
  <2> QED BY <2>1
<1> QED BY <1>1, <1>3, <1>4 DEF TypesInv

(* The records that EXCEPT makes.                                          *)
LEMMA WithPhase ==
    ASSUME NEW r, Record(r), NEW p, NEW w, NEW q, q = [r EXCEPT !.phase = p, !.watch = w]
    PROVE  /\ Record(q) /\ q.phase = p /\ q.watch = w /\ q.kind = r.kind /\ q.stmt = r.stmt
           /\ q.of = r.of /\ q.token = r.token /\ q.own = r.own /\ q.at = r.at
           /\ q.yielded = r.yielded /\ q.late = r.late
BY DEF Record, Fields

LEMMA WithRow ==
    ASSUME NEW r, Record(r), NEW a, NEW y, NEW l, NEW p, NEW q,
           q = [r EXCEPT !.at = a, !.yielded = y, !.late = l, !.phase = p]
    PROVE  /\ Record(q) /\ q.phase = p /\ q.at = a /\ q.yielded = y /\ q.late = l
           /\ q.watch = r.watch /\ q.kind = r.kind /\ q.stmt = r.stmt
           /\ q.of = r.of /\ q.token = r.token /\ q.own = r.own
BY DEF Record, Fields
-----------------------------------------------------------------------------
(* What the steps do to the consumer and the statement they are about.     *)
SameReader(c, p, w) ==
    /\ OtherConsumers(c) /\ Record(consumer'[c])
    /\ consumer'[c].phase = p /\ consumer'[c].watch = w
    /\ consumer'[c].kind = consumer[c].kind /\ consumer'[c].stmt = consumer[c].stmt
    /\ consumer'[c].of = consumer[c].of /\ consumer'[c].token = consumer[c].token
    /\ consumer'[c].own = consumer[c].own /\ consumer'[c].at = consumer[c].at
    /\ consumer'[c].yielded = consumer[c].yielded

LEMMA PhaseStep ==
    ASSUME Shape, NEW c \in Consumers, NEW p, consumer' = [consumer EXCEPT ![c].phase = p]
    PROVE  SameReader(c, p, consumer[c].watch)
<1> DEFINE r == consumer[c]
           q == [r EXCEPT !.phase = p]
<1>1. Record(r) /\ consumer = [d \in Consumers |-> consumer[d]]
  BY DEF Shape
<1>2. consumer' = [d \in Consumers |-> IF d = c THEN q ELSE consumer[d]]
  BY <1>1
<1> HIDE DEF r
<1>3. /\ Record(q) /\ q.phase = p /\ q.watch = r.watch /\ q.kind = r.kind /\ q.stmt = r.stmt
      /\ q.of = r.of /\ q.token = r.token /\ q.own = r.own /\ q.at = r.at
      /\ q.yielded = r.yielded
  BY <1>1 DEF Record, Fields
<1> HIDE DEF q
<1> QED BY <1>2, <1>3 DEF SameReader, OtherConsumers, r

LEMMA PhaseAndWatchStep ==
    ASSUME Shape, NEW c \in Consumers, NEW p, NEW w,
           consumer' = [consumer EXCEPT ![c].phase = p, ![c].watch = w]
    PROVE  SameReader(c, p, w)
<1> DEFINE r == consumer[c]
           q == [r EXCEPT !.phase = p, !.watch = w]
<1>1. Record(r) /\ consumer = [d \in Consumers |-> consumer[d]]
  BY DEF Shape
<1>2. consumer' = [d \in Consumers |-> IF d = c THEN q ELSE consumer[d]]
  BY <1>1
<1> HIDE DEF r
<1>3. /\ Record(q) /\ q.phase = p /\ q.watch = w /\ q.kind = r.kind /\ q.stmt = r.stmt
      /\ q.of = r.of /\ q.token = r.token /\ q.own = r.own /\ q.at = r.at
      /\ q.yielded = r.yielded
  BY <1>1 DEF Record, Fields
<1> HIDE DEF q
<1> QED BY <1>2, <1>3 DEF SameReader, OtherConsumers, r

LEMMA WatchStep ==
    ASSUME Shape, NEW c \in Consumers, NEW w, consumer' = [consumer EXCEPT ![c].watch = w]
    PROVE  SameReader(c, consumer[c].phase, w)
<1> DEFINE r == consumer[c]
           q == [r EXCEPT !.watch = w]
<1>1. Record(r) /\ consumer = [d \in Consumers |-> consumer[d]]
  BY DEF Shape
<1>2. consumer' = [d \in Consumers |-> IF d = c THEN q ELSE consumer[d]]
  BY <1>1
<1> HIDE DEF r
<1>3. /\ Record(q) /\ q.phase = r.phase /\ q.watch = w /\ q.kind = r.kind /\ q.stmt = r.stmt
      /\ q.of = r.of /\ q.token = r.token /\ q.own = r.own /\ q.at = r.at
      /\ q.yielded = r.yielded
  BY <1>1 DEF Record, Fields
<1> HIDE DEF q
<1> QED BY <1>2, <1>3 DEF SameReader, OtherConsumers, r

(* An execution begins, on a prepared query or on the stream's statement.  *)
Starts(c, s, kind, t, own, old) ==
    /\ Calling = {} /\ consumer[c].kind = "none" /\ OtherConsumers(c) /\ OtherStatements(s)
    /\ consumer'[c] = Reader(kind, s, Len(answers) + 1, t, own, "execute")
    /\ statement'[s] = St(Len(answers) + 1, 0, IF t = None THEN old ELSE Registered(t))
    /\ \E n \in Lengths : answers' = Append(answers, n)
    /\ UNCHANGED <<driver, stopped>>
OnQuery(s, t, old, own) ==
    /\ s \in Queries /\ old = statement[s].token /\ own = (driver = "postgres")
    /\ Supported(s, t)
    /\ halted' = halted \cup CancelIfStopped(s, t)
OnOwn(c, s, t, old, own) ==
    /\ s = c /\ old = None
    /\ own \in BOOLEAN
    /\ driver = "postgres" => own
    /\ driver \in {"sqlite", "odbc"} => ~own
    /\ "shared connection" \in Odd \/ driver = "odbc" \/ AloneOnConnection(c, t)
    /\ halted' = (IF driver = "sqlite" THEN halted ELSE halted \ {c}) \cup CancelIfStopped(c, t)
Begins(c, s, kind, t, own, old) ==
    /\ kind \in {"list", "first", "stream"} /\ t \in Tokens \cup {None}
    /\ t = None \/ kind = "stream"
    /\ Starts(c, s, kind, t, own, old)
    /\ OnQuery(s, t, old, own) \/ OnOwn(c, s, t, old, own)

LEMMA BoundIs ==
    ASSUME driver \in {"sqlite", "postgres", "mysql", "odbc"}, NEW of, NEW at, NEW token,
           NEW st, st = St(of, at, token), NEW t, NEW e
    PROVE  BindAndExecute(SetStopToken(st, t), e) =
               St(e, IF driver = "postgres" THEN at ELSE 0,
                  IF t = None THEN token ELSE Registered(t))
<1> DEFINE D == {"of", "at", "token"}
           IsSt(q) == q = [f \in D |-> q[f]]
           k == IF t = None THEN token ELSE Registered(t)
           a == IF driver = "postgres" THEN at ELSE 0
           st1 == SetStopToken(st, t)
           st2 == Reset(st1)
           st3 == [st2 EXCEPT !.of = e]
<1>0. IsSt(st) /\ st.of = of /\ st.at = at /\ st.token = token
  BY DEF St
<1>1. IsSt(st1) /\ st1.of = of /\ st1.at = at /\ st1.token = k
  BY <1>0 DEF SetStopToken
<1> HIDE DEF st1, k
<1>2. IsSt(st2) /\ st2.at = a /\ st2.token = k
  BY <1>1 DEF Reset, SqliteReset, MysqlReset, OdbcReset
<1> HIDE DEF st2, a
<1>3. IsSt(st3) /\ st3.of = e /\ st3.at = a /\ st3.token = k
  BY <1>2
<1> HIDE DEF st3
<1>4. st3 = St(e, a, k)
  BY <1>3 DEF St
<1> QED BY <1>4 DEF BindAndExecute, st1, st2, st3, a, k

LEMMA ExecutesStarts ==
    ASSUME TypesInv, NEW c \in Consumers, NEW s \in Statements, NEW kind, NEW t, NEW own,
           NEW of, NEW at, NEW token, NEW st, st = St(of, at, token),
           driver = "postgres" => at = 0,
           Executes(c, s, st, kind, t, own)
    PROVE  Starts(c, s, kind, t, own, token)
<1> DEFINE e == Len(answers) + 1
           x == BindAndExecute(SetStopToken(st, t), e)
           r == Reader(kind, s, e, t, own, "execute")
<1>1. x = St(e, 0, IF t = None THEN token ELSE Registered(t))
  BY BoundIs DEF TypesInv, Globals
<1>2. /\ statement' = [statement EXCEPT ![s] = x] /\ consumer' = [consumer EXCEPT ![c] = r]
      /\ Calling = {} /\ consumer[c].kind = "none"
      /\ \E n \in Lengths : answers' = Append(answers, n)
      /\ UNCHANGED <<driver, stopped>>
  BY DEF Executes
<1> HIDE DEF x, r
<1>3. consumer'[c] = r /\ OtherConsumers(c) /\ statement'[s] = x /\ OtherStatements(s)
  BY <1>2 DEF TypesInv, Shape, OtherConsumers, OtherStatements
<1> QED BY <1>1, <1>2, <1>3 DEF Starts, r

LEMMA PreparedBegins ==
    ASSUME TypesInv, NEW c \in Consumers, NEW s \in Queries, NEW kind \in {"list", "first", "stream"},
           NEW t \in Tokens \cup {None}, t = None \/ kind = "stream", Prepared(c, s, kind, t)
    PROVE  Begins(c, s, kind, t, driver = "postgres", statement[s].token)
<1>1. s \in Statements /\ StatementOf(s)
  BY DEF TypesInv, Statements
<1>2. Starts(c, s, kind, t, driver = "postgres", statement[s].token)
  BY <1>1, ExecutesStarts DEF Prepared, StatementOf
<1>3. OnQuery(s, t, statement[s].token, driver = "postgres")
  BY DEF Prepared, OnQuery
<1> QED BY <1>2, <1>3 DEF Begins

LEMMA OwnBegins ==
    ASSUME TypesInv, NEW c \in Consumers, NEW own \in BOOLEAN, NEW t \in Tokens \cup {None},
           driver = "postgres" => own, driver \in {"sqlite", "odbc"} => ~own,
           OnOwnStatement(c, t, own)
    PROVE  Begins(c, c, "stream", t, own, None)
<1>1. c \in Statements /\ FreshStatement = St(0, 0, None)
  BY DEF Statements, FreshStatement, St
<1>2. Starts(c, c, "stream", t, own, None)
  BY <1>1, ExecutesStarts DEF OnOwnStatement
<1>3. OnOwn(c, c, t, None, own)
  BY DEF OnOwnStatement, OnOwn
<1> QED BY <1>2, <1>3 DEF Begins

ExecuteStep(c) ==
    \/ \E s \in Queries : ExecuteList(c, s) \/ ExecuteFirst(c, s) \/ Stream(c, s)
    \/ \E s \in Queries, t \in Tokens : StreamWithOptions(c, s, t)
    \/ \E t \in Tokens \cup {None} : ConnectionStream(c, t)
    \/ QueryBuilderStream(c)

LEMMA ExecuteBegins ==
    ASSUME TypesInv, NEW c \in Consumers, ExecuteStep(c)
    PROVE  \E s \in Queries \cup {c} : \E kind, t, own, old : Begins(c, s, kind, t, own, old)
<1>1. ASSUME NEW s \in Queries, ExecuteList(c, s) \/ ExecuteFirst(c, s) \/ Stream(c, s)
      PROVE  \E kind, t, own, old : Begins(c, s, kind, t, own, old)
  <2>1. PICK kind \in {"list", "first", "stream"} : Prepared(c, s, kind, None)
    BY <1>1 DEF ExecuteList, ExecuteFirst, Stream
  <2> QED BY <2>1, PreparedBegins
<1>2. ASSUME NEW s \in Queries, NEW t \in Tokens, StreamWithOptions(c, s, t)
      PROVE  \E kind, own, old : Begins(c, s, kind, t, own, old)
  BY <1>2, PreparedBegins DEF StreamWithOptions
<1>3. ASSUME NEW t \in Tokens \cup {None}, ConnectionStream(c, t)
      PROVE  \E kind, own, old : Begins(c, c, kind, t, own, old)
  BY <1>3, OwnBegins DEF ConnectionStream
<1>4. CASE QueryBuilderStream(c)
  <2> DEFINE own == driver \in {"postgres", "mysql"}
  <2>1. OnOwnStatement(c, None, own)
    BY <1>4 DEF QueryBuilderStream
  <2>2. own \in BOOLEAN /\ (driver = "postgres" => own) /\ (driver \in {"sqlite", "odbc"} => ~own)
    OBVIOUS
  <2> HIDE DEF own
  <2>3. Begins(c, c, "stream", None, own, None)
    BY <2>1, <2>2, OwnBegins
  <2> QED BY <2>3
<1> QED BY <1>1, <1>2, <1>3, <1>4 DEF ExecuteStep
-----------------------------------------------------------------------------
(* Reading the next row.                                                   *)
StillHalted == IF \A s \in Statements : statement[s].at = 0 THEN {} ELSE halted

LEMMA OwnNextIs ==
    ASSUME TypesInv, NEW c \in Live, NEW step, step = ReaderNext(c), consumer[c].own
    PROVE  /\ step.st = statement[consumer[c].stmt] /\ step.halted = halted
           /\ IF consumer[c].at < answers[consumer[c].of]
              THEN step.out = "row" /\ step.at = consumer[c].at + 1
              ELSE step.out = "ends"
<1>1. step = OwnNext(c)
  BY DEF ReaderNext
<1> QED BY <1>1 DEF OwnNext, Step

LEMMA SqliteNextIs ==
    ASSUME TypesInv, NEW c \in Live, NEW step, step = ReaderNext(c), ~consumer[c].own,
           NEW st, st = statement[consumer[c].stmt], driver = "sqlite"
    PROVE  /\ step.halted = StillHalted
           /\ step.st = St(st.of, step.st.at, st.token)
           /\ IF StillHalted # {} THEN step.out = "throws" /\ step.st.at = 0
              ELSE IF st.at < answers[st.of]
                   THEN step.out = "row" /\ step.at = st.at + 1 /\ step.st.at = st.at + 1
                   ELSE step.out = "ends" /\ step.st.at = 0
<1> DEFINE z == [st EXCEPT !.at = 0]
           n == [st EXCEPT !.at = @ + 1]
<1>1. st = St(st.of, st.at, st.token)
  BY LiveConsumer DEF TypesInv, StatementOf
<1>2. z = St(st.of, 0, st.token) /\ n = St(st.of, st.at + 1, st.token)
  <2>1. z = St(st.of, 0, st.token)
    BY <1>1 DEF St
  <2>2. n = St(st.of, st.at + 1, st.token)
    BY <1>1 DEF St
  <2> QED BY <2>1, <2>2
<1>3. ReaderNext(c) = SqliteNext(c)
  BY DEF ReaderNext
<1>4. step = IF StillHalted # {} THEN Step("throws", z, 0, StillHalted)
             ELSE IF st.at < answers[st.of] THEN Step("row", n, st.at + 1, StillHalted)
             ELSE Step("ends", z, 0, StillHalted)
  BY <1>3 DEF SqliteNext, StillHalted
<1>5. z.at = 0 /\ n.at = st.at + 1
  BY <1>2 DEF St
<1> HIDE DEF z, n
<1>6. step.halted = StillHalted
  BY <1>4 DEF Step
<1>7. CASE StillHalted # {}
  <2>1. step.out = "throws" /\ step.st = z
    BY <1>4, <1>7 DEF Step
  <2> QED BY <1>2, <1>5, <1>6, <1>7, <2>1
<1>8. CASE StillHalted = {} /\ st.at < answers[st.of]
  <2>1. step.out = "row" /\ step.st = n /\ step.at = st.at + 1
    BY <1>4, <1>8 DEF Step
  <2> QED BY <1>2, <1>5, <1>6, <1>8, <2>1
<1>9. CASE StillHalted = {} /\ ~(st.at < answers[st.of])
  <2>1. step.out = "ends" /\ step.st = z
    BY <1>4, <1>9 DEF Step
  <2> QED BY <1>2, <1>5, <1>6, <1>9, <2>1
<1> QED BY <1>7, <1>8, <1>9

LEMMA CursorNextIs ==
    ASSUME TypesInv, NEW c \in Live, NEW step, step = ReaderNext(c), ~consumer[c].own,
           NEW st, st = statement[consumer[c].stmt], driver \in {"mysql", "odbc"}
    PROVE  LET interrupted == driver = "odbc" /\ consumer[c].stmt \in halted IN
           /\ step.halted = IF interrupted THEN halted \ {consumer[c].stmt} ELSE halted
           /\ step.st = St(st.of, step.st.at, st.token)
           /\ IF interrupted \/ st.of = 0 THEN step.out = "throws" /\ step.st.at = st.at
              ELSE IF st.at < answers[st.of]
                   THEN step.out = "row" /\ step.at = st.at + 1 /\ step.st.at = st.at + 1
                   ELSE step.out = "ends" /\ step.st.at = st.at
<1> DEFINE n == [st EXCEPT !.at = @ + 1]
           interrupted == driver = "odbc" /\ consumer[c].stmt \in halted
<1>1. st = St(st.of, st.at, st.token)
  BY LiveConsumer DEF TypesInv, StatementOf
<1>2. n = St(st.of, st.at + 1, st.token)
  BY <1>1 DEF St
<1>4. step = IF interrupted THEN Step("throws", st, 0, halted \ {consumer[c].stmt})
             ELSE IF st.of = 0 THEN Step("throws", st, 0, halted)
             ELSE IF st.at < answers[st.of] THEN Step("row", n, st.at + 1, halted)
             ELSE Step("ends", st, 0, halted)
  BY DEF ReaderNext, MysqlNext, OdbcNext, CursorNext
<1>5. n.at = st.at + 1
  BY <1>2 DEF St
<1> HIDE DEF n
<1>6. CASE interrupted
  BY <1>1, <1>4, <1>6 DEF Step
<1>7. CASE ~interrupted /\ st.of = 0
  BY <1>1, <1>4, <1>7 DEF Step
<1>8. CASE ~interrupted /\ st.of # 0 /\ st.at < answers[st.of]
  <2>1. step.out = "row" /\ step.st = n /\ step.at = st.at + 1 /\ step.halted = halted
    BY <1>4, <1>8 DEF Step
  <2> QED BY <1>2, <1>5, <1>8, <2>1
<1>9. CASE ~interrupted /\ st.of # 0 /\ ~(st.at < answers[st.of])
  <2>1. step.out = "ends" /\ step.st = st /\ step.halted = halted
    BY <1>4, <1>9 DEF Step
  <2> QED BY <1>1, <1>9, <2>1
<1> QED BY <1>6, <1>7, <1>8, <1>9

LEMMA CursorThrows ==
    ASSUME NEW c \in Live, NEW step, step = ReaderNext(c), step.out = "throws",
           ~consumer[c].own, driver \in {"mysql", "odbc"}
    PROVE  (driver = "odbc" /\ consumer[c].stmt \in halted) \/ statement[consumer[c].stmt].of = 0
<1> SUFFICES ASSUME ~(driver = "odbc" /\ consumer[c].stmt \in halted),
                    statement[consumer[c].stmt].of # 0
             PROVE  FALSE
  OBVIOUS
<1> DEFINE st == statement[consumer[c].stmt]
           n == [st EXCEPT !.at = @ + 1]
<1>1. step = IF st.at < answers[st.of] THEN Step("row", n, st.at + 1, halted)
             ELSE Step("ends", st, 0, halted)
  BY DEF ReaderNext, MysqlNext, OdbcNext, CursorNext
<1> HIDE DEF st, n
<1> QED BY <1>1 DEF Step

(* What holds of a step on every driver.                                   *)
LEMMA NextIs ==
    ASSUME TypesInv, NEW c \in Live, NEW step, step = ReaderNext(c),
           NEW st, st = statement[consumer[c].stmt]
    PROVE  /\ step.out \in {"row", "ends", "throws"} /\ step.halted \subseteq halted
           /\ step.st = St(st.of, step.st.at, st.token)
           /\ consumer[c].own => step.st = st
           /\ ~consumer[c].own =>
                /\ step.out = "row" => /\ st.of # 0 /\ st.at < answers[st.of]
                                       /\ step.at = st.at + 1 /\ step.st.at = st.at + 1
                /\ step.out = "ends" => st.of # 0 /\ ~(st.at < answers[st.of])
                /\ step.out # "row" => step.st.at \in {st.at, 0}
<1>1. CASE consumer[c].own
  <2>1. st = St(st.of, st.at, st.token)
    BY LiveConsumer DEF TypesInv, StatementOf
  <2> QED BY <1>1, <2>1, OwnNextIs
<1>2. CASE ~consumer[c].own /\ driver = "sqlite"
  <2>1. st.of # 0
    BY <1>2, LiveConsumer DEF ReadsFrom
  <2> QED BY <1>2, <2>1, SqliteNextIs DEF StillHalted
<1>3. CASE ~consumer[c].own /\ driver \in {"mysql", "odbc"}
  <2> DEFINE i == driver = "odbc" /\ consumer[c].stmt \in halted
             h == IF i THEN halted \ {consumer[c].stmt} ELSE halted
  <2>1. /\ step.halted = h
        /\ step.st = St(st.of, step.st.at, st.token)
        /\ IF i \/ st.of = 0 THEN step.out = "throws" /\ step.st.at = st.at
           ELSE IF st.at < answers[st.of]
                THEN step.out = "row" /\ step.at = st.at + 1 /\ step.st.at = st.at + 1
                ELSE step.out = "ends" /\ step.st.at = st.at
    BY <1>3, CursorNextIs
  <2>2. h \subseteq halted
    OBVIOUS
  <2> HIDE DEF i, h
  <2> QED BY <1>3, <2>1, <2>2
<1>4. driver \in {"sqlite", "mysql", "odbc"} \/ consumer[c].own
  BY LiveConsumer DEF TypesInv, Globals, ReadsFrom
<1> QED BY <1>1, <1>2, <1>3, <1>4

(* The step's effect: a row, or the end of the reading.                    *)
Kept(c) ==
    /\ OtherConsumers(c) /\ Record(consumer'[c])
    /\ consumer'[c].kind = consumer[c].kind /\ consumer'[c].stmt = consumer[c].stmt
    /\ consumer'[c].of = consumer[c].of /\ consumer'[c].token = consumer[c].token
    /\ consumer'[c].own = consumer[c].own /\ consumer'[c].watch = consumer[c].watch
Yields(c, at, row) ==
    /\ Kept(c)
    /\ consumer'[c].at = at /\ consumer'[c].yielded = Append(consumer[c].yielded, row)
    /\ consumer'[c].phase = CASE consumer[c].kind = "stream" -> "row"
                              [] consumer[c].kind = "list" -> "checked"
                              [] consumer[c].kind = "first" -> "end"
Fetched(c, step) ==
    /\ consumer[c].phase = "checked" /\ c \in Live /\ step = ReaderNext(c)
    /\ statement'[consumer[c].stmt] = step.st /\ OtherStatements(consumer[c].stmt)
    /\ halted' = step.halted
    /\ IF step.out = "row"
       THEN Yields(c, step.at, <<IF consumer[c].own THEN consumer[c].of ELSE step.st.of, step.at>>)
       ELSE SameReader(c, IF step.out = "ends" THEN "end" ELSE "failed", consumer[c].watch)
    /\ UNCHANGED <<driver, stopped, answers>>

LEMMA FetchIs ==
    ASSUME TypesInv, NEW c \in Consumers, Fetch(c)
    PROVE  \E step : Fetched(c, step)
<1> DEFINE r == consumer[c]
           step == ReaderNext(c)
           row == <<IF r.own THEN r.of ELSE step.st.of, step.at>>
           phase == CASE r.kind = "stream" -> "row"
                      [] r.kind = "list" -> "checked"
                      [] r.kind = "first" -> "end"
           late == IF r.token \in stopped THEN r.late + 1 ELSE r.late
           new == [r EXCEPT !.at = step.at, !.yielded = Append(r.yielded, row),
                            !.late = late, !.phase = phase]
           p == IF step.out = "ends" THEN "end" ELSE "failed"
<1>1. r.phase = "checked" /\ Record(r) /\ consumer = [d \in Consumers |-> consumer[d]]
  BY DEF Fetch, TypesInv, Shape
<1>2. c \in Live
  BY <1>1 DEF TypesInv, ConsumerOf, Live
<1>3. r.stmt \in Statements
  BY <1>2, LiveConsumer
<1>4. /\ statement' = [statement EXCEPT ![r.stmt] = step.st] /\ halted' = step.halted
      /\ UNCHANGED <<driver, stopped, answers>>
      /\ IF step.out = "row" THEN consumer' = [consumer EXCEPT ![c] = new]
         ELSE consumer' = [consumer EXCEPT ![c].phase = p]
  BY DEF Fetch
<1> HIDE DEF step, row, phase, late, p
<1>5. statement'[r.stmt] = step.st /\ OtherStatements(r.stmt)
  BY <1>3, <1>4 DEF TypesInv, OtherStatements
<1>6. CASE step.out = "row"
  <2> HIDE DEF r
  <2>1. /\ Record(new) /\ new.phase = phase /\ new.at = step.at
        /\ new.yielded = Append(r.yielded, row)
        /\ new.watch = r.watch /\ new.kind = r.kind /\ new.stmt = r.stmt
        /\ new.of = r.of /\ new.token = r.token /\ new.own = r.own
    BY <1>1 DEF Record, Fields
  <2>2. consumer' = [consumer EXCEPT ![c] = new]
    BY <1>4, <1>6
  <2> HIDE DEF new
  <2>3. consumer'[c] = new /\ OtherConsumers(c)
    BY <1>1, <2>2 DEF OtherConsumers
  <2>4. Yields(c, step.at, row)
    BY <2>1, <2>3 DEF Yields, Kept, r, phase
  <2> QED BY <1>1, <1>2, <1>4, <1>5, <1>6, <2>4 DEF Fetched, r, step, row
<1>7. CASE step.out # "row"
  <2>1. SameReader(c, p, r.watch)
    BY <1>4, <1>7, PhaseStep DEF TypesInv
  <2> QED BY <1>1, <1>2, <1>4, <1>5, <1>7, <2>1 DEF Fetched, step, p
<1> QED BY <1>6, <1>7
(* A reader, and with a stream its own statement, is destroyed.            *)
Gone(c) ==
    /\ c \in Live /\ ~InCall(c) /\ OtherConsumers(c) /\ consumer'[c] = NoConsumer
    /\ OtherStatements(consumer[c].stmt)
    /\ LET st == statement[consumer[c].stmt] IN
       statement'[consumer[c].stmt] =
           IF consumer[c].stmt = c THEN FreshStatement
           ELSE IF consumer[c].own \/ consumer[c].phase = "refused" THEN st
           ELSE St(IF driver = "sqlite" THEN st.of ELSE 0, 0, st.token)
    /\ UNCHANGED <<driver, stopped, halted, answers>>

LEMMA DestroyIs ==
    ASSUME TypesInv, NEW c \in Consumers, Destroy(c)
    PROVE  Gone(c)
<1> DEFINE r == consumer[c]
           st == statement[r.stmt]
           x == IF r.stmt = c THEN FreshStatement ELSE ReaderGone(c)
           y == [st EXCEPT !.at = 0]
           z == [st EXCEPT !.of = 0, !.at = 0]
           D == {"of", "at", "token"}
<1>1. c \in Live /\ ~InCall(c) /\ r.stmt \in Statements /\ ReadsFrom(c)
  BY LiveConsumer DEF Destroy
<1>2. /\ consumer' = [consumer EXCEPT ![c] = NoConsumer]
      /\ statement' = [statement EXCEPT ![r.stmt] = x]
      /\ UNCHANGED <<driver, stopped, halted, answers>>
  BY DEF Destroy
<1> HIDE DEF r
<1>3. st = St(st.of, st.at, st.token)
  BY <1>1 DEF TypesInv, StatementOf
<1>4. st = [f \in D |-> st[f]]
  BY <1>3 DEF St
<1>5. y = [f \in D |-> y[f]] /\ y.of = st.of /\ y.at = 0 /\ y.token = st.token
  BY <1>4
<1>6. z = [f \in D |-> z[f]] /\ z.of = 0 /\ z.at = 0 /\ z.token = st.token
  BY <1>4
<1> HIDE DEF y, z
<1>7. y = St(st.of, 0, st.token) /\ z = St(0, 0, st.token)
  BY <1>5, <1>6 DEF St
<1>8. ReaderGone(c) = IF r.own \/ r.phase = "refused" THEN st
                      ELSE St(IF driver = "sqlite" THEN st.of ELSE 0, 0, st.token)
  <2>1. ReaderGone(c) = IF r.own \/ r.phase = "refused" THEN st
                        ELSE CASE driver = "sqlite" -> y
                               [] driver = "mysql" -> z
                               [] driver = "odbc" -> z
    BY DEF ReaderGone, SqliteReaderGone, MysqlReaderGone, OdbcReaderGone, y, z, r
  <2>2. driver \in {"sqlite", "mysql", "odbc"} \/ r.own
    BY <1>1 DEF TypesInv, Globals, ReadsFrom, r
  <2> QED BY <1>7, <2>1, <2>2
<1>9. statement'[r.stmt] = x /\ OtherStatements(r.stmt) /\ consumer'[c] = NoConsumer
      /\ OtherConsumers(c)
  BY <1>1, <1>2 DEF TypesInv, Shape, OtherStatements, OtherConsumers, r
<1> QED BY <1>1, <1>2, <1>8, <1>9 DEF Gone, r

(* A stop is requested, or a callback runs.                                *)
LEMMA CallbackIs ==
    ASSUME TypesInv, NEW s \in Statements, StatementCallback(s)
    PROVE  /\ OtherStatements(s) /\ statement[s].token \in stopped
           /\ statement'[s] = St(statement[s].of, statement[s].at, None)
           /\ halted' = halted \cup Cancel(s)
           /\ UNCHANGED <<driver, consumer, stopped, answers>>
<1> DEFINE st == statement[s]
           x == [st EXCEPT !.token = None]
<1>1. st = St(st.of, st.at, st.token)
  BY DEF TypesInv, StatementOf
<1>2. x = St(st.of, st.at, None)
  BY <1>1 DEF St
<1>3. statement' = [statement EXCEPT ![s] = x]
  BY DEF StatementCallback, TypesInv
<1> HIDE DEF x
<1>4. statement'[s] = x /\ OtherStatements(s)
  BY <1>3 DEF TypesInv, OtherStatements
<1> QED BY <1>2, <1>4 DEF StatementCallback

LEMMA CancelReaches ==
    ASSUME TypesInv
    PROVE  /\ \A s \in Statements : Cancel(s) \subseteq Statements
           /\ \A s \in Statements : \A t : CancelIfStopped(s, t) \subseteq Statements
<1>1. \A c \in Live : consumer[c].stmt \in Statements
  BY LiveConsumer
<1>2. ASSUME NEW s \in Statements PROVE Cancel(s) \subseteq Statements
  <2>1. PgCancel(s) \subseteq Statements /\ OdbcCancel(s) \subseteq Statements
    BY <1>1 DEF PgCancel, OdbcCancel
  <2> QED BY <2>1 DEF Cancel, SqliteCancel, MysqlCancel, TypesInv, Globals
<1> QED BY <1>2 DEF CancelIfStopped

(* Types are kept when a consumer changes its phase, and so on.            *)
LEMMA ReaderTypes ==
    ASSUME TypesInv, NEW c \in Live,
           NEW p \in {"execute", "refused", "fresh", "checked", "row", "end", "cancelled", "failed"},
           NEW w \in {consumer[c].token, None}, SameReader(c, p, w), Globals',
           UNCHANGED <<driver, answers, statement>>,
           InCall(c) \/ Calling = {} \/ p = consumer[c].phase \/ p \notin {"execute", "checked"}
    PROVE  TypesInv'
<1>1. ReadsFrom(c) /\ c \in Consumers /\ consumer[c].kind # "none" /\ ConsumerOf(c)
  BY LiveConsumer DEF TypesInv
<1>2. ConsumerOf(c)'
  BY <1>1 DEF ConsumerOf, ReadsFrom, SameReader
<1>3. c \in Calling \/ Calling = {} \/ c \notin Calling'
  BY DEF Calling, Live, InCall, SameReader
<1>4. OneCall'
  BY <1>1, <1>3, OneCallKept DEF TypesInv, SameReader
<1>5. AnswersKept /\ statement' = [s \in Statements |-> statement'[s]]
  BY DEF AnswersKept, TypesInv, Globals
<1>6. \A d \in Consumers : IF d \in {c} THEN Record(consumer[d])' /\ ConsumerOf(d)'
                           ELSE consumer'[d] = consumer[d]
  BY <1>2 DEF SameReader, OtherConsumers
<1> DEFINE S == {}
<1>7. \A s \in Statements : IF s \in S THEN StatementOf(s)' ELSE statement'[s] = statement[s]
  OBVIOUS
<1>8. consumer' = [d \in Consumers |-> consumer'[d]]
  BY DEF SameReader, OtherConsumers
<1>9. driver = "sqlite" => \A d \in Live : d \notin {c} /\ consumer[d].stmt \in S =>
                                    statement'[consumer[d].stmt].of # 0
  OBVIOUS
<1> HIDE DEF S
<1> QED BY <1>4, <1>5, <1>6, <1>7, <1>8, <1>9, TypesKept

LEMMA BeginsTypes ==
    ASSUME TypesInv, NEW c \in Consumers, NEW s \in Queries \cup {c}, NEW kind, NEW t, NEW own,
           NEW old, Begins(c, s, kind, t, own, old)
    PROVE  TypesInv'
<1> DEFINE e == Len(answers) + 1
<1>1. s \in Statements /\ StatementOf(s) /\ Len(answers) \in Nat
  BY DEF Statements, TypesInv, Globals
<1>2. PICK n \in Lengths : answers' = Append(answers, n)
  BY DEF Begins, Starts
<1>3. n \in Nat
  BY StreamAssumption
<1>4. answers' \in Seq(Nat) /\ Len(answers') = e /\ AnswersKept /\ answers'[e] = n
  BY <1>1, <1>2, <1>3 DEF AnswersKept, TypesInv, Globals
<1>5. halted' \subseteq Statements
  BY <1>1, CancelReaches DEF Begins, OnQuery, OnOwn, TypesInv, Globals
<1>6. Globals' /\ driver' = driver
  BY <1>4, <1>5 DEF Begins, Starts, Globals, TypesInv
<1>7. old \in Tokens \cup {None} /\ t \in Tokens \cup {None}
  BY <1>1 DEF Begins, OnQuery, OnOwn, StatementOf
<1> DEFINE k == IF t = None THEN old ELSE Registered(t)
<1>8. statement'[s] = St(e, 0, k) /\ k \in Tokens \cup {None}
  BY <1>7 DEF Begins, Starts, Registered
<1>9. StatementOf(s)' /\ statement'[s].of = e /\ e # 0
  <2> HIDE DEF k
  <2>1. statement'[s].of = e /\ statement'[s].at = 0 /\ statement'[s].token = k
    BY <1>8 DEF St
  <2>2. e \in 1..e /\ e # 0
    BY <1>1
  <2> QED BY <1>3, <1>4, <1>8, <2>1, <2>2 DEF StatementOf
<1> DEFINE r == Reader(kind, s, e, t, own, "execute")
<1>10. consumer'[c] = r /\ OtherConsumers(c) /\ OtherStatements(s) /\ Calling = {}
  BY DEF Begins, Starts
<1>11. Record(r)
  BY DEF Reader, Record, Fields
<1>12. /\ r.kind = kind /\ r.stmt = s /\ r.of = e /\ r.token = t /\ r.watch = None /\ r.own = own
       /\ r.phase = "execute"
  BY DEF Reader
<1> HIDE DEF r
<1>13. own \in BOOLEAN /\ (driver = "postgres" => own) /\ (driver \in {"sqlite", "odbc"} => ~own)
  <2>1. CASE OnQuery(s, t, old, own)
    <3>1. own = (driver = "postgres")
      BY <2>1 DEF OnQuery
    <3> QED BY <3>1
  <2>2. CASE OnOwn(c, s, t, old, own)
    BY <2>2 DEF OnOwn
  <2> QED BY <2>1, <2>2 DEF Begins
<1>14. ConsumerOf(c)'
  <2>1. kind \in {"list", "first", "stream"}
    BY DEF Begins
  <2>2. ReadsFrom(c)'
    BY <1>4, <1>6, <1>9, <1>10, <1>12, <1>13, <1>1 DEF ReadsFrom
  <2> QED BY <1>7, <1>10, <1>12, <2>1, <2>2 DEF ConsumerOf
<1>15. OneCall'
  BY <1>10, OneCallKept DEF TypesInv
<1>16. /\ \A d \in Consumers : IF d \in {c} THEN Record(consumer[d])' /\ ConsumerOf(d)'
                               ELSE consumer'[d] = consumer[d]
       /\ consumer' = [d \in Consumers |-> consumer'[d]]
  BY <1>10, <1>11, <1>14 DEF OtherConsumers
<1>17. /\ \A u \in Statements : IF u \in {s} THEN StatementOf(u)' ELSE statement'[u] = statement[u]
       /\ statement' = [u \in Statements |-> statement'[u]]
  BY <1>9, <1>10 DEF OtherStatements
<1>18. driver = "sqlite" => \A d \in Live : d \notin {c} /\ consumer[d].stmt \in {s} =>
                                    statement'[consumer[d].stmt].of # 0
  BY <1>9
<1> QED BY <1>4, <1>6, <1>15, <1>16, <1>17, <1>18, TypesKept

LEMMA FetchTypes ==
    ASSUME TypesInv, NEW c \in Consumers, NEW step, Fetched(c, step)
    PROVE  TypesInv'
<1>0. PICK s \in Statements : s = consumer[c].stmt
  BY LiveConsumer DEF Fetched
<1> DEFINE st == statement[s]
           x == statement'[s]
<1>1. /\ c \in Live /\ s \in Statements /\ ReadsFrom(c) /\ StatementOf(s) /\ ConsumerOf(c)
      /\ consumer[c].kind \in {"stream", "list", "first"} /\ c \in Calling
  BY LiveConsumer DEF Fetched, TypesInv, Calling, InCall, ConsumerOf
<1>2. /\ step.halted \subseteq halted /\ x = St(st.of, x.at, st.token)
      /\ x.at \in {st.at, 0} \/ (st.of # 0 /\ st.at < answers[st.of] /\ x.at = st.at + 1)
      /\ consumer[c].own => x = st
  BY <1>0, <1>1, NextIs DEF Fetched
<1>3. Globals' /\ AnswersKept /\ driver' = driver /\ answers' = answers
  BY <1>2 DEF Fetched, Globals, TypesInv, AnswersKept
<1> HIDE DEF x
<1>4. StatementOf(s)' /\ x.of = st.of
  <2>1. x.of = st.of /\ x.token = st.token
    BY <1>2 DEF St
  <2>2. /\ statement'[s] = x
        /\ st.of \in 0..Len(answers) /\ st.at \in 0..(IF st.of = 0 THEN 0 ELSE answers[st.of])
        /\ st.of # 0 => answers[st.of] \in Nat
    <3>1. answers \in Seq(Nat)
      BY DEF TypesInv, Globals
    <3> QED BY <1>1, <3>1 DEF StatementOf, x
  <2>3. x.at \in 0..(IF st.of = 0 THEN 0 ELSE answers[st.of])
    BY <1>2, <2>2
  <2>4. driver = "postgres" => x.at = 0
    BY <1>1, <1>2 DEF StatementOf, ReadsFrom
  <2>5. /\ x = St(x.of, x.at, x.token) /\ x.of \in 0..Len(answers')
        /\ x.at \in 0..(IF x.of = 0 THEN 0 ELSE answers'[x.of])
        /\ x.token \in Tokens \cup {None} /\ (driver' = "postgres" => x.at = 0)
    BY <1>1, <1>2, <1>3, <2>1, <2>2, <2>3, <2>4 DEF StatementOf
  <2> QED BY <2>1, <2>2, <2>5 DEF StatementOf
<1>5. OtherConsumers(c) /\ Record(consumer[c])' /\ ConsumerOf(c)'
  <2>1. CASE step.out = "row"
    <3>1. Yields(c, step.at, <<IF consumer[c].own THEN consumer[c].of ELSE step.st.of, step.at>>)
      BY <2>1 DEF Fetched
    <3>2. consumer'[c].phase \in {"row", "checked", "end"}
      BY <1>1, <3>1 DEF Yields
    <3>3. OtherConsumers(c) /\ Record(consumer'[c]) /\ Kept(c)
      BY <3>1 DEF Yields, Kept
    <3>4. ReadsFrom(c)'
      BY <1>0, <1>1, <1>3, <1>4, <3>3 DEF ReadsFrom, Kept, x
    <3> QED BY <1>1, <3>2, <3>3, <3>4 DEF ConsumerOf, Kept
  <2>2. CASE step.out # "row"
    <3>1. SameReader(c, IF step.out = "ends" THEN "end" ELSE "failed", consumer[c].watch)
      BY <2>2 DEF Fetched
    <3>2. ReadsFrom(c)'
      BY <1>0, <1>1, <1>3, <1>4, <3>1 DEF ReadsFrom, SameReader, x
    <3> QED BY <1>1, <3>1, <3>2 DEF ConsumerOf, SameReader
  <2> QED BY <2>1, <2>2
<1>6. OneCall'
  BY <1>1, <1>5, OneCallKept DEF TypesInv
<1>7. /\ \A d \in Consumers : IF d \in {c} THEN Record(consumer[d])' /\ ConsumerOf(d)'
                              ELSE consumer'[d] = consumer[d]
      /\ consumer' = [d \in Consumers |-> consumer'[d]]
  BY <1>5 DEF OtherConsumers
<1>8. /\ \A u \in Statements : IF u \in {s} THEN StatementOf(u)' ELSE statement'[u] = statement[u]
      /\ statement' = [u \in Statements |-> statement'[u]]
  <2>1. OtherStatements(s)
    BY <1>0 DEF Fetched
  <2> QED BY <1>4, <2>1 DEF OtherStatements
<1>9. driver = "sqlite" => \A d \in Live : d \notin {c} /\ consumer[d].stmt \in {s} =>
                               statement'[consumer[d].stmt].of # 0
  <2> SUFFICES ASSUME driver = "sqlite", NEW d \in Live, consumer[d].stmt = s
               PROVE  statement'[s].of # 0
    OBVIOUS
  <2>1. statement[s].of # 0
    BY LiveConsumer DEF ReadsFrom
  <2> QED BY <1>4, <2>1 DEF x
<1> QED BY <1>3, <1>6, <1>7, <1>8, <1>9, TypesKept

LEMMA GoneTypes ==
    ASSUME TypesInv, NEW c \in Consumers, Gone(c)
    PROVE  TypesInv'
<1>0. PICK s \in Statements : s = consumer[c].stmt
  BY LiveConsumer DEF Gone
<1> DEFINE st == statement[s]
           x == statement'[s]
<1>1. c \in Live /\ s \in Statements /\ s \in Queries \cup {c} /\ StatementOf(s)
  BY <1>0, LiveConsumer DEF Gone, TypesInv, ReadsFrom
<1>2. x = IF s = c THEN FreshStatement
          ELSE IF consumer[c].own \/ consumer[c].phase = "refused" THEN st
          ELSE St(IF driver = "sqlite" THEN st.of ELSE 0, 0, st.token)
  BY <1>0 DEF Gone
<1>3. Globals' /\ AnswersKept /\ driver' = driver /\ answers' = answers
  BY DEF Gone, Globals, TypesInv, AnswersKept
<1> HIDE DEF x
<1>4. /\ x = St(x.of, x.at, x.token) /\ x.of \in {st.of, 0} /\ x.token \in {st.token, None}
      /\ (x.at = 0 \/ x = st) /\ (driver = "sqlite" /\ s # c => x.of = st.of)
  <2>1. FreshStatement = St(0, 0, None)
    BY DEF FreshStatement, St
  <2>2. CASE s = c
    BY <1>2, <2>1, <2>2 DEF St
  <2>3. CASE s # c /\ (consumer[c].own \/ consumer[c].phase = "refused")
    BY <1>1, <1>2, <2>3 DEF StatementOf
  <2>4. CASE s # c /\ ~(consumer[c].own \/ consumer[c].phase = "refused")
    BY <1>2, <2>4 DEF St
  <2> QED BY <2>2, <2>3, <2>4
<1>5. StatementOf(s)'
  <2>1. /\ statement'[s] = x /\ st.of \in 0..Len(answers) /\ st.token \in Tokens \cup {None}
        /\ 0 \in 0..Len(answers)
    BY <1>1 DEF StatementOf, x, TypesInv, Globals
  <2>2. x.of # 0 => answers[x.of] \in Nat
    <3>1. answers \in Seq(Nat)
      BY DEF TypesInv, Globals
    <3> QED BY <1>4, <2>1, <3>1
  <2>3. x.at \in 0..(IF x.of = 0 THEN 0 ELSE answers[x.of])
    BY <1>1, <1>4, <2>2 DEF StatementOf
  <2>4. driver = "postgres" => x.at = 0
    BY <1>1, <1>4 DEF StatementOf
  <2>5. /\ x = St(x.of, x.at, x.token) /\ x.of \in 0..Len(answers')
        /\ x.at \in 0..(IF x.of = 0 THEN 0 ELSE answers'[x.of])
        /\ x.token \in Tokens \cup {None} /\ (driver' = "postgres" => x.at = 0)
    BY <1>3, <1>4, <2>1, <2>3, <2>4
  <2> QED BY <2>1, <2>5 DEF StatementOf
<1>6. OtherConsumers(c) /\ Record(consumer[c])' /\ ConsumerOf(c)' /\ c \notin Calling'
  <2>1. consumer'[c] = NoConsumer /\ OtherConsumers(c)
    BY DEF Gone
  <2>2. Record(NoConsumer)
    BY NoConsumerKeeps
  <2>3. /\ NoConsumer.kind = "none" /\ NoConsumer.phase = "none"
        /\ NoConsumer.token = None /\ NoConsumer.watch = None
    BY DEF NoConsumer, Reader
  <2> QED BY <2>1, <2>2, <2>3 DEF ConsumerOf, Calling, Live
<1>7. OneCall'
  BY <1>6, OneCallKept DEF TypesInv
<1>8. /\ \A d \in Consumers : IF d \in {c} THEN Record(consumer[d])' /\ ConsumerOf(d)'
                              ELSE consumer'[d] = consumer[d]
      /\ consumer' = [d \in Consumers |-> consumer'[d]]
  BY <1>6 DEF OtherConsumers
<1>9. /\ \A u \in Statements : IF u \in {s} THEN StatementOf(u)' ELSE statement'[u] = statement[u]
      /\ statement' = [u \in Statements |-> statement'[u]]
  <2>1. OtherStatements(s)
    BY <1>0 DEF Gone
  <2> QED BY <1>5, <2>1 DEF OtherStatements
<1>10. driver = "sqlite" => \A d \in Live : d \notin {c} /\ consumer[d].stmt \in {s} =>
                                statement'[consumer[d].stmt].of # 0
  <2> SUFFICES ASSUME driver = "sqlite", NEW d \in Live, d # c, consumer[d].stmt = s
               PROVE  statement'[s].of # 0
    OBVIOUS
  <2>1. statement[s].of # 0 /\ s \in Queries \cup {d}
    BY LiveConsumer DEF ReadsFrom
  <2>2. s # c
    BY <2>1, StreamAssumption
  <2> QED BY <1>4, <2>1, <2>2 DEF x
<1> QED BY <1>3, <1>7, <1>8, <1>9, <1>10, TypesKept

LEMMA CallbackTypes ==
    ASSUME TypesInv, NEW s \in Statements, StatementCallback(s)
    PROVE  TypesInv'
<1> DEFINE st == statement[s]
           C == {}
<1>1. /\ OtherStatements(s) /\ statement'[s] = St(st.of, st.at, None)
      /\ halted' = halted \cup Cancel(s) /\ UNCHANGED <<driver, consumer, stopped, answers>>
  BY CallbackIs
<1>2. Globals' /\ AnswersKept /\ OneCall'
  BY <1>1, CancelReaches DEF TypesInv, Globals, AnswersKept, OneCall, Calling, Live, InCall
<1>3. StatementOf(s)' /\ statement'[s].of = st.of
  <2>1. StatementOf(s)
    BY DEF TypesInv
  <2>2. /\ statement'[s].of = st.of /\ statement'[s].at = st.at
        /\ statement'[s].token = None
    BY <1>1 DEF St
  <2> QED BY <1>1, <2>1, <2>2 DEF StatementOf
<1>4. /\ \A d \in Consumers : IF d \in C THEN Record(consumer[d])' /\ ConsumerOf(d)'
                              ELSE consumer'[d] = consumer[d]
      /\ consumer' = [d \in Consumers |-> consumer'[d]]
  BY <1>1 DEF TypesInv, Shape
<1>5. /\ \A u \in Statements : IF u \in {s} THEN StatementOf(u)' ELSE statement'[u] = statement[u]
      /\ statement' = [u \in Statements |-> statement'[u]]
  BY <1>1, <1>3 DEF OtherStatements
<1>6. driver = "sqlite" => \A d \in Live : d \notin C /\ consumer[d].stmt \in {s} =>
                               statement'[consumer[d].stmt].of # 0
  BY <1>3, LiveConsumer DEF ReadsFrom
<1> HIDE DEF C
<1> QED BY <1>1, <1>2, <1>4, <1>5, <1>6, TypesKept

(* The lists, the tokens: nothing the types speak of.                      *)
LEMMA ElseTypes ==
    ASSUME TypesInv, stopped' \subseteq Tokens,
           UNCHANGED <<driver, statement, consumer, halted, answers>>
    PROVE  TypesInv'
<1>1. Globals'
  BY DEF TypesInv, Globals
<1>2. OneCall' /\ Shape'
  BY DEF TypesInv, OneCall, Calling, Live, InCall, Shape, Record
<1>3. \A s \in Statements : StatementOf(s)'
  BY DEF TypesInv, StatementOf
<1>4. \A c \in Consumers : ConsumerOf(c)'
  BY DEF TypesInv, ConsumerOf, ReadsFrom
<1> QED BY <1>1, <1>2, <1>3, <1>4 DEF TypesInv

LEMMA StoppedTokens == TypesInv => None \notin stopped
BY StreamAssumption DEF TypesInv, Globals, None

LEMMA InitStopCallbackIs ==
    ASSUME TypesInv, NEW c \in Live, InitStopCallback(c)
    PROVE  /\ SameReader(c, "fresh", Registered(consumer[c].token))
           /\ halted' = halted \cup
                  (IF driver \in {"sqlite", "mysql"}
                   THEN CancelIfStopped(consumer[c].stmt, consumer[c].token) ELSE {})
           /\ Registered(consumer[c].token) \in {consumer[c].token, None}
           /\ halted' \subseteq Statements
<1>1. c \in Consumers /\ consumer[c].stmt \in Statements /\ halted \subseteq Statements
  BY LiveConsumer DEF TypesInv, Globals
<1>2. SameReader(c, "fresh", Registered(consumer[c].token))
  BY <1>1, PhaseAndWatchStep DEF InitStopCallback, TypesInv
<1>3. halted' \subseteq Statements
  BY <1>1, CancelReaches DEF InitStopCallback
<1> QED BY <1>2, <1>3 DEF InitStopCallback, Registered

(* A call that fails, returns or begins to read the next row.              *)
LEMMA RefusedIs ==
    ASSUME TypesInv, NEW c \in Consumers, ExecuteRefused(c)
    PROVE  /\ c \in Live /\ InCall(c) /\ SameReader(c, "refused", consumer[c].watch)
           /\ UNCHANGED <<driver, statement, stopped, answers>>
           /\ halted' = IF driver = "mysql" THEN halted ELSE halted \ {consumer[c].stmt}
<1>1. c \in Live /\ InCall(c)
  BY DEF ExecuteRefused, TypesInv, ConsumerOf, Live, InCall
<1>2. SameReader(c, "refused", consumer[c].watch)
  BY PhaseStep DEF ExecuteRefused, TypesInv
<1> QED BY <1>1, <1>2 DEF ExecuteRefused

LEMMA ReturnsIs ==
    ASSUME TypesInv, NEW c \in Consumers, ExecuteReturns(c)
    PROVE  /\ c \in Live /\ InCall(c) /\ UNCHANGED <<driver, statement, stopped, answers>>
           /\ IF consumer[c].kind = "stream" THEN InitStopCallback(c)
              ELSE SameReader(c, "checked", consumer[c].watch) /\ halted' = halted
<1>1. c \in Live /\ InCall(c)
  BY DEF ExecuteReturns, TypesInv, ConsumerOf, Live, InCall
<1>2. consumer[c].kind # "stream" => SameReader(c, "checked", consumer[c].watch)
  BY PhaseStep DEF ExecuteReturns, TypesInv
<1> QED BY <1>1, <1>2 DEF ExecuteReturns

LEMMA AdvanceIs ==
    ASSUME TypesInv, NEW c \in Consumers, Advance(c)
    PROVE  /\ c \in Live /\ Calling = {} /\ consumer[c].kind = "stream"
           /\ SameReader(c, IF consumer[c].token \in stopped THEN "cancelled" ELSE "checked",
                         consumer[c].watch)
           /\ UNCHANGED <<driver, statement, stopped, halted, answers>>
<1> DEFINE p == IF consumer[c].token \in stopped THEN "cancelled" ELSE "checked"
<1>1. consumer' = [consumer EXCEPT ![c].phase = p]
  BY DEF Advance, AdvanceChecks
<1> HIDE DEF p
<1>2. SameReader(c, p, consumer[c].watch)
  BY <1>1, PhaseStep DEF TypesInv
<1>3. c \in Live
  BY DEF Advance, Live
<1> QED BY <1>2, <1>3 DEF Advance, p

LEMMA MoveIs ==
    ASSUME TypesInv, NEW c \in Consumers, MoveStream(c)
    PROVE  /\ c \in Live /\ Calling = {} /\ consumer[c].phase = "fresh" /\ InitStopCallback(c)
           /\ consumer[c].token \in stopped
           /\ UNCHANGED <<driver, statement, stopped, answers>>
BY DEF MoveStream, TypesInv, ConsumerOf, Live

LEMMA StreamCallbackIs ==
    ASSUME TypesInv, NEW c \in Consumers, StreamCallback(c)
    PROVE  /\ c \in Live /\ SameReader(c, consumer[c].phase, None)
           /\ consumer[c].watch \in stopped /\ consumer[c].watch = consumer[c].token
           /\ halted' = halted \cup Cancel(consumer[c].stmt)
           /\ UNCHANGED <<driver, statement, stopped, answers>>
<1>1. consumer[c].watch \in stopped /\ consumer[c].watch # None
  BY StoppedTokens DEF StreamCallback
<1>2. c \in Live /\ consumer[c].watch = consumer[c].token
  BY <1>1 DEF TypesInv, ConsumerOf, Live
<1>3. SameReader(c, consumer[c].phase, None)
  BY WatchStep DEF StreamCallback, TypesInv
<1> QED BY <1>1, <1>2, <1>3 DEF StreamCallback

(* The steps of a call or a stream that leave its statement alone.         *)
ReaderStep(c) ==
    ExecuteRefused(c) \/ ExecuteReturns(c) \/ Advance(c) \/ MoveStream(c) \/ StreamCallback(c)

LEMMA ReaderStepTypes ==
    ASSUME TypesInv, NEW c \in Consumers, ReaderStep(c)
    PROVE  TypesInv'
<1>1. halted \subseteq Statements
  BY DEF TypesInv, Globals
<1>2. ASSUME halted' \subseteq Statements, UNCHANGED <<driver, stopped, answers>>
      PROVE  Globals'
  BY <1>2 DEF TypesInv, Globals
<1>3. CASE ExecuteRefused(c)
  <2>1. /\ c \in Live /\ InCall(c) /\ SameReader(c, "refused", consumer[c].watch)
        /\ UNCHANGED <<driver, statement, stopped, answers>> /\ halted' \subseteq Statements
    BY <1>1, <1>3, RefusedIs
  <2>2. consumer[c].watch \in {consumer[c].token, None}
    BY DEF TypesInv, ConsumerOf
  <2> QED BY <1>2, <2>1, <2>2, ReaderTypes
<1>4. CASE ExecuteReturns(c)
  <2>1. /\ c \in Live /\ InCall(c) /\ UNCHANGED <<driver, statement, stopped, answers>>
        /\ IF consumer[c].kind = "stream" THEN InitStopCallback(c)
           ELSE SameReader(c, "checked", consumer[c].watch) /\ halted' = halted
    BY <1>4, ReturnsIs
  <2>2. consumer[c].watch \in {consumer[c].token, None}
    BY DEF TypesInv, ConsumerOf
  <2>3. CASE consumer[c].kind = "stream"
    BY <1>2, <2>1, <2>3, InitStopCallbackIs, ReaderTypes
  <2>4. CASE consumer[c].kind # "stream"
    BY <1>1, <1>2, <2>1, <2>2, <2>4, ReaderTypes
  <2> QED BY <2>3, <2>4
<1>5. CASE Advance(c)
  <2>1. PICK p \in {"cancelled", "checked"} :
            /\ c \in Live /\ Calling = {} /\ SameReader(c, p, consumer[c].watch)
            /\ UNCHANGED <<driver, statement, stopped, halted, answers>>
    BY <1>5, AdvanceIs
  <2>2. consumer[c].watch \in {consumer[c].token, None}
    BY DEF TypesInv, ConsumerOf
  <2> QED BY <1>1, <1>2, <2>1, <2>2, ReaderTypes
<1>6. CASE MoveStream(c)
  BY <1>2, <1>6, MoveIs, InitStopCallbackIs, ReaderTypes
<1>7. CASE StreamCallback(c)
  <2>1. /\ c \in Live /\ SameReader(c, consumer[c].phase, None)
        /\ halted' = halted \cup Cancel(consumer[c].stmt)
        /\ UNCHANGED <<driver, statement, stopped, answers>>
    BY <1>7, StreamCallbackIs
  <2>2. halted' \subseteq Statements
    BY <1>1, <2>1, CancelReaches, LiveConsumer
  <2>3. consumer[c].phase \in {"execute", "refused", "fresh", "checked", "row", "end",
                               "cancelled", "failed"}
    BY <2>1, LiveConsumer DEF TypesInv, ConsumerOf
  <2> QED BY <1>2, <2>1, <2>2, <2>3, ReaderTypes
<1> QED BY <1>3, <1>4, <1>5, <1>6, <1>7 DEF ReaderStep

(* What Next is, for the invariants about reading.                         *)
ElseStep ==
    /\ UNCHANGED <<driver, statement, consumer, halted, answers>>
    /\ stopped \subseteq stopped' /\ stopped' \subseteq Tokens

LEMMA NextSteps ==
    ASSUME TypesInv, [Next]_vars
    PROVE  \/ \E c \in Consumers : ExecuteStep(c) \/ ReaderStep(c) \/ Fetch(c) \/ Destroy(c)
           \/ \E s \in Statements : StatementCallback(s)
           \/ ElseStep
<1>1. stopped \subseteq Tokens
  BY DEF TypesInv, Globals
<1>2. CASE UNCHANGED vars
  BY <1>1, <1>2 DEF vars, ElseStep
<1>3. ASSUME NEW t \in Tokens, RequestStop(t) PROVE ElseStep
  BY <1>1, <1>3 DEF RequestStop, ElseStep
<1>4. ASSUME NEW b, PushBack(b) \/ TakeVector(b) PROVE ElseStep
  BY <1>1, <1>4 DEF PushBack, TakeVector, ElseStep
<1>5. CASE Keep
  BY <1>1, <1>5 DEF Keep, ElseStep
<1> QED BY <1>2, <1>3, <1>4, <1>5 DEF Next, ExecuteStep, ReaderStep

LEMMA TypesInit == Init => TypesInv
<1> SUFFICES ASSUME Init PROVE TypesInv
  OBVIOUS
<1>1. FreshStatement = St(0, 0, None) /\ FreshStatement.of = 0 /\ FreshStatement.at = 0
      /\ FreshStatement.token = None
  BY DEF FreshStatement, St
<1>2. NoConsumer.kind = "none" /\ NoConsumer.phase = "none" /\ NoConsumer.token = None
      /\ NoConsumer.watch = None /\ Record(NoConsumer)
  BY NoConsumerKeeps DEF NoConsumer, Reader
<1>3. /\ statement = [s \in Statements |-> FreshStatement]
      /\ consumer = [c \in Consumers |-> NoConsumer] /\ answers = << >>
      /\ driver \in Drivers /\ stopped = {} /\ halted = {}
  BY DEF Init
<1>4. Globals
  BY <1>3, StreamAssumption DEF Globals
<1>5. \A s \in Statements : StatementOf(s)
  BY <1>1, <1>3 DEF StatementOf
<1>6. \A c \in Consumers : ConsumerOf(c)
  BY <1>2, <1>3 DEF ConsumerOf
<1>7. Shape /\ OneCall
  BY <1>2, <1>3 DEF Shape, OneCall, Calling, Live
<1> QED BY <1>3, <1>4, <1>5, <1>6, <1>7 DEF TypesInv

LEMMA TypesNext == TypesInv /\ [Next]_vars => TypesInv'
<1> SUFFICES ASSUME TypesInv, [Next]_vars PROVE TypesInv'
  OBVIOUS
<1>1. ASSUME NEW c \in Consumers, ExecuteStep(c) PROVE TypesInv'
  BY <1>1, ExecuteBegins, BeginsTypes
<1>2. ASSUME NEW c \in Consumers, Fetch(c) PROVE TypesInv'
  BY <1>2, FetchIs, FetchTypes
<1>3. ASSUME NEW c \in Consumers, Destroy(c) PROVE TypesInv'
  BY <1>3, DestroyIs, GoneTypes
<1>4. CASE ElseStep
  BY <1>4, ElseTypes DEF ElseStep
<1> QED BY <1>1, <1>2, <1>3, <1>4, ReaderStepTypes, CallbackTypes, NextSteps

LEMMA TypesInvariance == Spec => []TypesInv
BY TypesInit, TypesNext, PTL DEF Spec

(* Every state is of its types, on every driver and in every use; a        *)
(* cursor never runs past its result, whatever shares it.                  *)
THEOREM StreamTypes == Spec => []TypeOK
<1>1. TypesInv /\ ListsInv => TypeOK
  <2> SUFFICES ASSUME TypesInv, ListsInv PROVE TypeOK
    OBVIOUS
  <2>1. \A b \in Buffers : buffer[b].current_chunk_count \in 0..ChunkSize
    BY ChunkSizeAssumption DEF ListsInv, Holds
  <2> QED BY <2>1 DEF TypesInv, Globals, StatementOf, ConsumerOf, TypeOK
<1> QED BY <1>1, TypesInvariance, ListsInit, ListsNext, PTL DEF Spec
-----------------------------------------------------------------------------
(* Reading one's own rows.  Where two readers may not share a cursor, the  *)
(* cursor is as far as its reader, and no other reader moves it.           *)
NoSharing == "two readers" \notin Odd /\ "begin again" \notin Odd
ReadingPhases == {"execute", "fresh", "checked", "row"}
RowsUpTo(e, n) == [i \in 1..n |-> <<e, i>>]

InPlace(c) ==
    LET r == consumer[c]
        st == statement[r.stmt]
    IN IF r.own THEN r.at = Len(r.yielded) ELSE st.of = r.of /\ st.at = Len(r.yielded)
ReadOf(c) ==
    LET r == consumer[c]
        n == Len(r.yielded)
    IN /\ n \in Nat /\ n <= answers[r.of] /\ r.yielded = RowsUpTo(r.of, n)
       /\ r.phase \in ReadingPhases => InPlace(c) /\ (r.kind = "first" => n = 0)
       /\ r.phase = "end" => n = IF r.kind = "first" /\ answers[r.of] > 1 THEN 1 ELSE answers[r.of]
Alone ==
    driver # "postgres" => \A c, d \in Live : consumer[c].stmt = consumer[d].stmt => c = d

RowsInv ==
    /\ TypesInv /\ Alone
    /\ \A c \in Live : ReadOf(c)

LEMMA ReadKept ==
    ASSUME TypesInv, NEW d \in Live, ReadOf(d), consumer'[d] = consumer[d], AnswersKept,
           \/ consumer[d].own
           \/ /\ statement'[consumer[d].stmt].of = statement[consumer[d].stmt].of
              /\ statement'[consumer[d].stmt].at = statement[consumer[d].stmt].at
    PROVE  ReadOf(d)'
<1>1. answers'[consumer[d].of] = answers[consumer[d].of]
  BY LiveConsumer DEF ReadsFrom, AnswersKept
<1>2. InPlace(d) => InPlace(d)'
  BY DEF InPlace
<1> QED BY <1>1, <1>2 DEF ReadOf

(* Only the readers on a statement of c's see it change.                   *)
LEMMA OthersRead ==
    ASSUME RowsInv, NEW c \in Consumers, NEW s, OtherConsumers(c), OtherStatements(s),
           AnswersKept, NEW d \in Live, d # c, consumer[d].own \/ consumer[d].stmt # s
    PROVE  ReadOf(d)'
<1>1. d \in Consumers /\ consumer[d].stmt \in Statements /\ TypesInv /\ ReadOf(d)
  BY LiveConsumer DEF RowsInv
<1>2. consumer'[d] = consumer[d]
  BY <1>1 DEF OtherConsumers
<1>3. CASE consumer[d].own
  BY <1>1, <1>2, <1>3, ReadKept
<1>4. CASE consumer[d].stmt # s
  <2>1. statement'[consumer[d].stmt] = statement[consumer[d].stmt]
    BY <1>1, <1>4 DEF OtherStatements
  <2> QED BY <1>1, <1>2, <2>1, ReadKept
<1> QED BY <1>3, <1>4

LEMMA BeginsAlone ==
    ASSUME NoSharing, TypesInv, NEW c \in Consumers, NEW s \in Queries \cup {c},
           NEW kind, NEW t, NEW own, NEW old, Begins(c, s, kind, t, own, old), NEW d \in Live
    PROVE  driver = "postgres" \/ consumer[d].stmt # s
<1>1. CASE OnQuery(s, t, old, own)
  BY <1>1 DEF OnQuery, Supported, AloneOnStatement, NoSharing
<1>2. CASE s = c
  <2>1. consumer[d].stmt \in Queries \cup {d} /\ d # c
    BY LiveConsumer DEF Begins, Starts, ReadsFrom, Live
  <2> QED BY <1>2, <2>1, StreamAssumption
<1> QED BY <1>1, <1>2 DEF Begins, OnOwn

LEMMA BeginsRows ==
    ASSUME NoSharing, RowsInv, TypesInv', NEW c \in Consumers, NEW s \in Queries \cup {c},
           NEW kind, NEW t, NEW own, NEW old, Begins(c, s, kind, t, own, old)
    PROVE  RowsInv'
<1> DEFINE e == Len(answers) + 1
<1>1. /\ OtherConsumers(c) /\ OtherStatements(s) /\ driver' = driver
      /\ consumer'[c] = Reader(kind, s, e, t, own, "execute") /\ consumer[c].kind = "none"
      /\ statement'[s] = St(e, 0, IF t = None THEN old ELSE Registered(t))
      /\ \E n \in Lengths : answers' = Append(answers, n)
  BY DEF Begins, Starts
<1>2. answers \in Seq(Nat) /\ Len(answers) \in Nat
  BY DEF RowsInv, TypesInv, Globals
<1>3. PICK n \in Lengths : answers' = Append(answers, n)
  BY <1>1
<1>4. n \in Nat /\ answers'[e] = n /\ AnswersKept
  BY <1>2, <1>3, StreamAssumption DEF AnswersKept
<1>5. ASSUME NEW d \in Live PROVE driver = "postgres" \/ consumer[d].stmt # s
  BY BeginsAlone DEF RowsInv
<1>6. ASSUME NEW d \in Live PROVE d # c /\ ReadOf(d)'
  <2>1. d # c /\ (driver = "postgres" => consumer[d].own)
    BY <1>1, LiveConsumer DEF RowsInv, ReadsFrom, Live
  <2> QED BY <1>1, <1>4, <1>5, <2>1, OthersRead
<1>7. ReadOf(c)'
  <2>1. /\ consumer'[c].yielded = << >> /\ consumer'[c].at = 0 /\ consumer'[c].phase = "execute"
        /\ consumer'[c].of = e /\ consumer'[c].stmt = s /\ consumer'[c].own = own
    BY <1>1 DEF Reader
  <2>2. statement'[s].of = e /\ statement'[s].at = 0
    BY <1>1 DEF St
  <2>3. Len(<< >>) = 0 /\ << >> = RowsUpTo(e, 0)
    BY DEF RowsUpTo
  <2>4. InPlace(c)'
    BY <2>1, <2>2, <2>3 DEF InPlace
  <2> QED BY <1>4, <2>1, <2>3, <2>4 DEF ReadOf
<1>8. ASSUME NEW d \in Live' PROVE d = c \/ (d \in Live /\ consumer'[d] = consumer[d])
  <2>1. d \in Consumers /\ consumer'[d].kind # "none"
    BY DEF Live
  <2>2. d # c => consumer'[d] = consumer[d]
    BY <1>1, <2>1 DEF OtherConsumers
  <2> QED BY <2>1, <2>2 DEF Live
<1>9. Alone'
  <2>1. consumer'[c].stmt = s
    BY <1>1 DEF Reader
  <2> QED BY <1>1, <1>5, <1>8, <2>1 DEF Alone, RowsInv
<1> QED BY <1>6, <1>7, <1>8, <1>9 DEF RowsInv

(* A new phase, by a step that reads nothing.                              *)
LEMMA ReaderRows ==
    ASSUME RowsInv, TypesInv', NEW c \in Live, NEW p, NEW w, SameReader(c, p, w),
           UNCHANGED <<driver, statement, answers>>,
           p \in ReadingPhases => consumer[c].phase \in ReadingPhases,
           p # "end" \/ consumer[c].phase = "end"
    PROVE  RowsInv'
<1>1. \A d \in Live' : d \in Live
  BY LiveConsumer DEF SameReader, OtherConsumers, Live
<1>2. TypesInv /\ ReadOf(c) /\ AnswersKept /\ c \in Consumers
  BY LiveConsumer DEF RowsInv, AnswersKept, TypesInv, Globals
<1>3. ReadOf(c)'
  <2>1. InPlace(c) => InPlace(c)'
    BY DEF InPlace, SameReader
  <2> QED BY <1>2, <2>1 DEF ReadOf, SameReader
<1>4. ASSUME NEW d \in Live, d # c PROVE ReadOf(d)'
  <2>1. consumer'[d] = consumer[d] /\ ReadOf(d)
    BY <1>4, LiveConsumer DEF SameReader, OtherConsumers, RowsInv
  <2> QED BY <1>2, <2>1, ReadKept
<1>5. \A d \in Live : consumer'[d].stmt = consumer[d].stmt
  BY LiveConsumer DEF SameReader, OtherConsumers, RowsInv
<1>6. Alone'
  BY <1>1, <1>5 DEF Alone, RowsInv
<1> QED BY <1>1, <1>3, <1>4, <1>6 DEF RowsInv

LEMMA ReaderStepRows ==
    ASSUME NoSharing, RowsInv, TypesInv', NEW c \in Consumers, ReaderStep(c)
    PROVE  RowsInv'
<1>1. TypesInv
  BY DEF RowsInv
<1>2. CASE ExecuteRefused(c)
  BY <1>1, <1>2, RefusedIs, ReaderRows DEF ReadingPhases
<1>3. CASE ExecuteReturns(c)
  <2>1. /\ c \in Live /\ UNCHANGED <<driver, statement, answers>>
        /\ \E p \in {"fresh", "checked"} : \E w : SameReader(c, p, w)
    BY <1>1, <1>3, ReturnsIs, InitStopCallbackIs
  <2>2. consumer[c].phase = "execute"
    BY <1>3 DEF ExecuteReturns
  <2> QED BY <2>1, <2>2, ReaderRows DEF ReadingPhases
<1>4. CASE Advance(c)
  <2>1. consumer[c].phase \in {"fresh", "row"}
    BY <1>4 DEF Advance, NoSharing
  <2>2. PICK p \in {"cancelled", "checked"} :
            /\ c \in Live /\ SameReader(c, p, consumer[c].watch)
            /\ UNCHANGED <<driver, statement, answers>>
    BY <1>1, <1>4, AdvanceIs
  <2> QED BY <2>1, <2>2, ReaderRows DEF ReadingPhases
<1>5. CASE MoveStream(c)
  BY <1>1, <1>5, MoveIs, InitStopCallbackIs, ReaderRows DEF ReadingPhases
<1>6. CASE StreamCallback(c)
  BY <1>1, <1>6, StreamCallbackIs, ReaderRows
<1> QED BY <1>2, <1>3, <1>4, <1>5, <1>6 DEF ReaderStep

LEMMA StillAlone ==
    ASSUME RowsInv, NEW c \in Live, OtherConsumers(c), driver' = driver,
           consumer'[c].kind = "none" \/ consumer'[c].stmt = consumer[c].stmt
    PROVE  /\ Alone'
           /\ \A d \in Live' : d \in Live /\ (d = c => consumer'[c].kind # "none")
<1>1. ASSUME NEW d \in Live'
      PROVE  d \in Live /\ consumer'[d].stmt = consumer[d].stmt /\ consumer'[d].kind # "none"
  <2>1. d \in Consumers /\ consumer'[d].kind # "none"
    BY DEF Live
  <2>2. d # c => consumer'[d] = consumer[d]
    BY <2>1 DEF OtherConsumers
  <2> QED BY <2>1, <2>2 DEF Live
<1> QED BY <1>1 DEF Alone, RowsInv

LEMMA NotSharing ==
    ASSUME RowsInv, NEW c \in Live, NEW d \in Live, d # c
    PROVE  consumer[d].own \/ consumer[d].stmt # consumer[c].stmt
<1>1. driver = "postgres" => consumer[d].own
  BY LiveConsumer DEF RowsInv, ReadsFrom
<1> QED BY <1>1 DEF RowsInv, Alone

LEMMA RowsGrow ==
    ASSUME NEW e, NEW n \in Nat
    PROVE  /\ Append(RowsUpTo(e, n), <<e, n + 1>>) = RowsUpTo(e, n + 1)
           /\ Len(RowsUpTo(e, n)) = n
<1>1. n + 1 \in Nat
  OBVIOUS
<1> DEFINE T == {<<e, i>> : i \in Nat}
<1>2. RowsUpTo(e, n) \in Seq(T) /\ Len(RowsUpTo(e, n)) = n /\ <<e, n + 1>> \in T
  BY DEF RowsUpTo
<1> HIDE DEF T
<1>3. DOMAIN Append(RowsUpTo(e, n), <<e, n + 1>>) = 1..(n + 1)
  BY <1>2
<1>4. \A i \in 1..(n + 1) : Append(RowsUpTo(e, n), <<e, n + 1>>)[i] = <<e, i>>
  BY <1>2 DEF RowsUpTo
<1> QED BY <1>1, <1>2, <1>3, <1>4 DEF RowsUpTo

(* The row a step gives is the one after those its reader gave.            *)
LEMMA NextRow ==
    ASSUME TypesInv, NEW c \in Live, ReadOf(c), consumer[c].phase = "checked",
           NEW step, step = ReaderNext(c),
           NEW n, n = Len(consumer[c].yielded), NEW e, e = consumer[c].of
    PROVE  /\ n \in Nat /\ e \in 1..Len(answers) /\ answers[e] \in Nat
           /\ n <= answers[e] /\ consumer[c].yielded = RowsUpTo(e, n)
           /\ consumer[c].kind = "first" => n = 0
           /\ step.out = "row" =>
                /\ n < answers[e] /\ step.at = n + 1
                /\ ~consumer[c].own => step.st.of = e /\ step.st.at = n + 1
           /\ step.out = "ends" => n = answers[e]
<1>1. InPlace(c) /\ (consumer[c].kind = "first" => n = 0) /\ n \in Nat /\ n <= answers[e]
      /\ consumer[c].yielded = RowsUpTo(e, n)
  BY DEF ReadOf, ReadingPhases
<1>2. e \in 1..Len(answers) /\ answers[e] \in Nat
  BY LiveConsumer DEF ReadsFrom, TypesInv, Globals
<1>3. CASE consumer[c].own
  <2>1. consumer[c].at = n
    BY <1>1, <1>3 DEF InPlace
  <2> QED BY <1>1, <1>2, <1>3, <2>1, OwnNextIs
<1>4. CASE ~consumer[c].own
  <2> DEFINE st == statement[consumer[c].stmt]
  <2>1. st.of = e /\ st.at = n
    BY <1>1, <1>4 DEF InPlace
  <2>2. /\ step.st = St(st.of, step.st.at, st.token)
        /\ step.out = "row" => st.at < answers[st.of] /\ step.at = st.at + 1 /\ step.st.at = st.at + 1
        /\ step.out = "ends" => ~(st.at < answers[st.of])
    BY <1>4, NextIs
  <2>3. step.st.of = st.of
    BY <2>2 DEF St
  <2> HIDE DEF st
  <2>4. step.out = "row" => /\ n < answers[e] /\ step.at = n + 1
                            /\ step.st.of = e /\ step.st.at = n + 1
    BY <2>1, <2>2, <2>3
  <2>5. step.out = "ends" => n = answers[e]
    <3>1. step.out = "ends" => ~(n < answers[e])
      BY <2>1, <2>2
    <3>2. n \in Nat /\ answers[e] \in Nat /\ n <= answers[e]
      BY <1>1, <1>2
    <3>3. ~(n < answers[e]) => n = answers[e]
      BY <3>2
    <3> QED BY <3>1, <3>3
  <2> QED BY <1>1, <1>2, <2>4, <2>5
<1> QED BY <1>3, <1>4

LEMMA FetchRows ==
    ASSUME RowsInv, TypesInv', NEW c \in Consumers, NEW step, Fetched(c, step)
    PROVE  RowsInv'
<1>1. PICK s, n, e : s = consumer[c].stmt /\ n = Len(consumer[c].yielded) /\ e = consumer[c].of
  OBVIOUS
<1>2. /\ TypesInv /\ c \in Live /\ ReadOf(c) /\ consumer[c].phase = "checked"
      /\ step = ReaderNext(c) /\ statement'[s] = step.st /\ OtherStatements(s)
      /\ UNCHANGED <<driver, answers>>
  BY <1>1 DEF RowsInv, Fetched
<1>3. /\ n \in Nat /\ answers[e] \in Nat
      /\ n <= answers[e] /\ consumer[c].yielded = RowsUpTo(e, n)
      /\ consumer[c].kind = "first" => n = 0
      /\ step.out = "row" =>
           /\ n < answers[e] /\ step.at = n + 1
           /\ ~consumer[c].own => step.st.of = e /\ step.st.at = n + 1
      /\ step.out = "ends" => n = answers[e]
  BY <1>1, <1>2, NextRow
<1>4. consumer[c].kind \in {"stream", "list", "first"}
  BY <1>2, LiveConsumer DEF TypesInv, ConsumerOf
<1>5. /\ OtherConsumers(c) /\ consumer'[c].kind = consumer[c].kind /\ consumer'[c].stmt = s
      /\ ReadOf(c)'
  <2>1. CASE step.out = "row"
    <3>1. Yields(c, n + 1, <<e, n + 1>>)
      BY <1>1, <1>3, <2>1 DEF Fetched
    <3>2. /\ consumer'[c].yielded = RowsUpTo(e, n + 1) /\ Len(consumer'[c].yielded) = n + 1
          /\ consumer'[c].at = n + 1
      BY <1>3, <3>1, RowsGrow DEF Yields
    <3>3. /\ consumer'[c].of = e /\ consumer'[c].own = consumer[c].own
          /\ consumer'[c].kind = consumer[c].kind /\ consumer'[c].stmt = s /\ OtherConsumers(c)
      BY <1>1, <3>1 DEF Yields, Kept
    <3>4. /\ consumer[c].kind = "stream" => consumer'[c].phase = "row"
          /\ consumer[c].kind = "list" => consumer'[c].phase = "checked"
          /\ consumer[c].kind = "first" => consumer'[c].phase = "end"
      BY <3>1 DEF Yields
    <3>5. InPlace(c)'
      BY <1>2, <1>3, <2>1, <3>2, <3>3 DEF InPlace
    <3>6. n + 1 \in Nat /\ n + 1 <= answers'[e]
      BY <1>2, <1>3, <2>1
    <3>7. consumer'[c].phase = "end" =>
              n + 1 = IF consumer[c].kind = "first" /\ answers'[e] > 1 THEN 1 ELSE answers'[e]
      BY <1>2, <1>3, <1>4, <2>1, <3>4
    <3>8. consumer'[c].phase \in ReadingPhases => consumer[c].kind # "first"
      BY <3>4 DEF ReadingPhases
    <3> QED BY <3>2, <3>3, <3>5, <3>6, <3>7, <3>8 DEF ReadOf
  <2>2. CASE step.out # "row"
    <3>1. SameReader(c, IF step.out = "ends" THEN "end" ELSE "failed", consumer[c].watch)
      BY <2>2 DEF Fetched
    <3>2. /\ consumer'[c].yielded = consumer[c].yielded /\ consumer'[c].of = e
          /\ consumer'[c].kind = consumer[c].kind /\ consumer'[c].stmt = s /\ OtherConsumers(c)
          /\ consumer'[c].phase = IF step.out = "ends" THEN "end" ELSE "failed"
      BY <1>1, <3>1 DEF SameReader
    <3>3. step.out = "ends" =>
              n = IF consumer[c].kind = "first" /\ answers[e] > 1 THEN 1 ELSE answers[e]
      BY <1>3
    <3> QED BY <1>1, <1>2, <1>3, <3>2, <3>3 DEF ReadOf, ReadingPhases
  <2> QED BY <2>1, <2>2
<1>6. AnswersKept
  BY <1>2 DEF AnswersKept, TypesInv, Globals
<1>7. Alone' /\ (\A d \in Live' : d \in Live)
  BY <1>1, <1>2, <1>5, StillAlone
<1>8. ASSUME NEW d \in Live, d # c PROVE ReadOf(d)'
  BY <1>1, <1>2, <1>5, <1>6, <1>8, NotSharing, OthersRead
<1> QED BY <1>5, <1>7, <1>8 DEF RowsInv

LEMMA GoneRows ==
    ASSUME RowsInv, TypesInv', NEW c \in Consumers, Gone(c)
    PROVE  RowsInv'
<1>1. PICK s : s = consumer[c].stmt
  OBVIOUS
<1>2. /\ TypesInv /\ c \in Live /\ OtherConsumers(c) /\ OtherStatements(s)
      /\ consumer'[c].kind = "none" /\ driver' = driver /\ AnswersKept
  BY <1>1 DEF RowsInv, Gone, NoConsumer, Reader, AnswersKept, TypesInv, Globals
<1>3. Alone' /\ (\A d \in Live' : d \in Live /\ d # c)
  BY <1>2, StillAlone
<1>4. ASSUME NEW d \in Live, d # c PROVE ReadOf(d)'
  BY <1>1, <1>2, <1>4, NotSharing, OthersRead
<1> QED BY <1>3, <1>4 DEF RowsInv

LEMMA CallbackRows ==
    ASSUME RowsInv, TypesInv', NEW s \in Statements, StatementCallback(s)
    PROVE  RowsInv'
<1>1. /\ TypesInv /\ OtherStatements(s) /\ AnswersKept
      /\ statement'[s].of = statement[s].of /\ statement'[s].at = statement[s].at
      /\ UNCHANGED <<driver, consumer, answers>>
  BY CallbackIs DEF RowsInv, St, AnswersKept, TypesInv, Globals
<1>2. ASSUME NEW d \in Live PROVE ReadOf(d)'
  <2>1. consumer[d].stmt \in Statements /\ ReadOf(d)
    BY <1>1, LiveConsumer DEF RowsInv
  <2> QED BY <1>1, <2>1, ReadKept DEF OtherStatements
<1> QED BY <1>1, <1>2 DEF RowsInv, Alone, Live

LEMMA ElseRows ==
    ASSUME RowsInv, TypesInv', ElseStep
    PROVE  RowsInv'
BY DEF RowsInv, ElseStep, Alone, Live, ReadOf, InPlace

LEMMA RowsInit == Init => RowsInv
<1> SUFFICES ASSUME Init PROVE RowsInv
  OBVIOUS
<1>1. Live = {}
  BY DEF Init, Live, NoConsumer, Reader
<1> QED BY <1>1, TypesInit DEF RowsInv, Alone

LEMMA RowsNext == ASSUME NoSharing, RowsInv, [Next]_vars PROVE RowsInv'
<1>1. TypesInv /\ TypesInv'
  BY TypesNext DEF RowsInv
<1>2. ASSUME NEW c \in Consumers, ExecuteStep(c) PROVE RowsInv'
  BY <1>1, <1>2, ExecuteBegins, BeginsRows
<1>3. ASSUME NEW c \in Consumers, Fetch(c) PROVE RowsInv'
  BY <1>1, <1>3, FetchIs, FetchRows
<1>4. ASSUME NEW c \in Consumers, Destroy(c) PROVE RowsInv'
  BY <1>1, <1>4, DestroyIs, GoneRows
<1> QED BY <1>1, <1>2, <1>3, <1>4, ReaderStepRows, CallbackRows, ElseRows, NextSteps

LEMMA RowsPrefix ==
    ASSUME NEW e, NEW m \in Nat, NEW n \in Nat, m <= n
    PROVE  IsPrefix(RowsUpTo(e, m), RowsUpTo(e, n))
<1> DEFINE T == {<<e, i>> : i \in Nat}
<1>1. \A i \in Nat : <<e, i>> \in T
  OBVIOUS
<1> HIDE DEF T
<1>2. ASSUME NEW k \in Nat PROVE RowsUpTo(e, k) \in Seq(T) /\ Len(RowsUpTo(e, k)) = k
  BY <1>1 DEF RowsUpTo
<1>3. ASSUME NEW k \in Nat, m <= k PROVE SubSeq(RowsUpTo(e, k), 1, m) = RowsUpTo(e, m)
  <2>1. RowsUpTo(e, k) \in Seq(T) /\ Len(RowsUpTo(e, k)) = k
    BY <1>2
  <2>2. SubSeq(RowsUpTo(e, k), 1, m) = [i \in 1..m |-> RowsUpTo(e, k)[i]]
    BY <1>3, <2>1
  <2>3. \A i \in 1..m : RowsUpTo(e, k)[i] = <<e, i>>
    BY <1>3 DEF RowsUpTo
  <2> QED BY <2>2, <2>3 DEF RowsUpTo
<1>4. Len(RowsUpTo(e, m)) = m /\ Len(RowsUpTo(e, n)) = n
  BY <1>2
<1>5. SubSeq(RowsUpTo(e, m), 1, m) = SubSeq(RowsUpTo(e, n), 1, m)
  BY <1>3
<1> QED BY <1>4, <1>5 DEF IsPrefix

LEMMA RowsRead == RowsInv => ReadsOwnRows
<1> SUFFICES ASSUME RowsInv, NEW c \in Live
             PROVE  LET r == consumer[c] IN
                    /\ IsPrefix(r.yielded, Rows(r.of))
                    /\ r.phase = "end" =>
                         Len(r.yielded) = IF r.kind = "first" /\ answers[r.of] > 1 THEN 1
                                          ELSE answers[r.of]
  BY DEF ReadsOwnRows
<1> DEFINE e == consumer[c].of
           n == Len(consumer[c].yielded)
<1>1. n \in Nat /\ n <= answers[e] /\ consumer[c].yielded = RowsUpTo(e, n) /\ answers[e] \in Nat
  BY LiveConsumer DEF RowsInv, ReadOf, ReadsFrom, TypesInv, Globals
<1>2. IsPrefix(consumer[c].yielded, Rows(e))
  <2>1. Rows(e) = RowsUpTo(e, answers[e])
    BY DEF Rows, RowsUpTo
  <2> QED BY <1>1, <2>1, RowsPrefix
<1> QED BY <1>2 DEF RowsInv, ReadOf

(* Every reader gives the rows of its own execution, in order and each     *)
(* once, whatever else reads on the connection and whatever is stopped, as *)
(* long as no query is executed again while it is read and no stream is    *)
(* begun a second time (the drivers' next(), prepared_query.h).            *)
THEOREM ReadersReadTheirOwn == NoSharing => (Spec => []ReadsOwnRows)
<1> SUFFICES ASSUME NoSharing PROVE Spec => []ReadsOwnRows
  OBVIOUS
<1>1. RowsInv /\ [Next]_vars => RowsInv'
  BY RowsNext
<1> QED BY <1>1, RowsInit, RowsRead, PTL DEF Spec
-----------------------------------------------------------------------------
(* Who is ended by a stop.  No use is odd.                                 *)
Watches(t) ==
    /\ \A s \in Statements : statement[s].token \in {t, None}
    /\ \A c \in Consumers : consumer[c].watch \in {t, None}
Ended == {"refused", "failed", "cancelled"}

(* One interrupt for a connection, all of whose readers have one token: it *)
(* is cleared when no statement runs, so what it stops began after it was  *)
(* raised, or is of the token that raised it.                              *)
SqliteHalts ==
    /\ \A c \in Live : Watches(consumer[c].token) /\ consumer[c].phase # "refused"
    /\ \A c, d \in Live : consumer[c].token = consumer[d].token
    /\ \A s \in Statements : statement[s].at # 0 => \E c \in Live : consumer[c].stmt = s
    /\ halted # {} /\ (\E s \in Statements : statement[s].at # 0) =>
           \A c \in Live : consumer[c].token \in stopped
(* A server stops what it executes: nothing else listens meanwhile.        *)
ServerHalts ==
    \A c \in Live : consumer[c].phase = "execute" =>
        /\ Watches(consumer[c].token)
        /\ consumer[c].stmt \in halted => consumer[c].token \in stopped
PgHalts == \A s \in halted : \E c \in Live : consumer[c].phase = "execute" /\ consumer[c].stmt = s
(* A handle is cancelled in a call only, and for its own token.            *)
OdbcHalts ==
    /\ \A c \in Live :
          /\ statement[consumer[c].stmt].token \in {consumer[c].token, None}
          /\ consumer[c].stmt \in halted => InCall(c) /\ consumer[c].token \in stopped
    /\ \A s \in halted : \E c \in Live : consumer[c].stmt = s

Halts ==
    /\ driver = "sqlite" => SqliteHalts
    /\ driver \in {"postgres", "mysql"} => ServerHalts
    /\ driver = "postgres" => PgHalts
    /\ driver = "odbc" => OdbcHalts

HaltsInv ==
    /\ RowsInv /\ Halts
    /\ \A c \in Live : consumer[c].phase \in Ended => consumer[c].token \in stopped

(* A step other than an execution: readers stay what they are or go, and   *)
(* callbacks go, or are a stream's when no call is being executed.         *)
Executing == \E c \in Live : consumer[c].phase = "execute"
Later ==
    /\ driver' = driver /\ stopped \subseteq stopped'
    /\ \A d \in Live' :
          /\ d \in Live /\ consumer'[d].token = consumer[d].token
          /\ consumer'[d].stmt = consumer[d].stmt
          /\ consumer'[d].phase = "execute" => consumer[d].phase = "execute"
    /\ \A s \in Statements : statement'[s].token \in {statement[s].token, None}
    /\ \A d \in Consumers :
          \/ consumer'[d].watch \in {consumer[d].watch, None}
          \/ d \in Live /\ consumer'[d].watch = consumer[d].token /\ ~Executing'

LEMMA WatchesKept ==
    ASSUME Later, NEW t, Watches(t), Executing' \/ \A c \in Live : consumer[c].token = t
    PROVE  Watches(t)'
BY DEF Later, Watches

(* Why a statement is halted: its own callback or its reader's ran, or a   *)
(* stream was made with a token that is stopped.                           *)
HaltedBy ==
    \/ halted' \subseteq halted
    \/ \E s \in Statements :
          /\ \/ statement[s].token \in stopped
             \/ \E c \in Live : /\ consumer[c].watch \in stopped /\ consumer[c].stmt = s
                                /\ consumer[c].watch = consumer[c].token
          /\ halted' = halted \cup Cancel(s)
    \/ /\ \E c \in Live : consumer[c].token \in stopped
       /\ driver \in {"sqlite", "mysql"} /\ ~Executing'

(* A call that a cancel reaches goes on, or its statement is halted no     *)
(* longer.                                                                 *)
Settled(c) ==
    c \in Live /\ (IF driver = "odbc" THEN InCall(c) ELSE consumer[c].phase = "execute") =>
        \/ driver \notin {"postgres", "odbc"}
        \/ c \in Live' /\ consumer'[c].phase = consumer[c].phase
        \/ consumer[c].stmt \notin halted'

LEMMA ServerKept ==
    ASSUME TypesInv, ServerHalts, Later, HaltedBy, driver \in {"postgres", "mysql"}
    PROVE  ServerHalts'
<1> SUFFICES ASSUME NEW d \in Live', consumer'[d].phase = "execute"
             PROVE  /\ Watches(consumer[d].token)'
                    /\ consumer'[d].stmt \in halted' => consumer'[d].token \in stopped'
  BY DEF ServerHalts
<1>1. PICK t, s : t = consumer[d].token /\ s = consumer[d].stmt
  OBVIOUS
<1>2. /\ d \in Live /\ consumer'[d].token = t /\ consumer'[d].stmt = s
      /\ consumer[d].phase = "execute" /\ stopped \subseteq stopped'
  BY <1>1 DEF Later
<1>3. Watches(t) /\ (s \in halted => t \in stopped)
  BY <1>1, <1>2 DEF ServerHalts
<1>4. Executing' /\ None \notin stopped
  BY StoppedTokens DEF Executing
<1>5. Watches(t)'
  BY <1>3, <1>4, WatchesKept
<1>6. s \in halted' => t \in stopped
  <2>1. CASE halted' \subseteq halted
    BY <1>3, <2>1
  <2>2. CASE halted' \subseteq halted => FALSE
    <3>1. PICK u \in Statements :
             \/ statement[u].token \in stopped
             \/ \E c \in Live : consumer[c].watch \in stopped
      BY <1>4, <2>2 DEF HaltedBy
    <3> QED BY <1>3, <1>4, <3>1 DEF Watches, Live
  <2> QED BY <2>1, <2>2
<1> QED BY <1>2, <1>5, <1>6

LEMMA PgKept ==
    ASSUME TypesInv, PgHalts, HaltedBy, driver = "postgres", NEW c,
           OtherConsumers(c), Settled(c),
           c \in Live' => consumer'[c].stmt = consumer[c].stmt
    PROVE  PgHalts'
<1> SUFFICES ASSUME NEW s \in halted'
             PROVE  \E d \in Live' : consumer'[d].phase = "execute" /\ consumer'[d].stmt = s
  BY DEF PgHalts
<1>1. \E d \in Live : consumer[d].phase = "execute" /\ consumer[d].stmt = s
  <2>1. CASE halted' \subseteq halted
    BY <2>1 DEF PgHalts
  <2>2. CASE \E u : halted' = halted \cup Cancel(u)
    <3>1. s \in halted \/ \E u : s \in PgCancel(u)
      BY <2>2 DEF Cancel
    <3> QED BY <3>1 DEF PgHalts, PgCancel
  <2> QED BY <2>1, <2>2 DEF HaltedBy
<1>2. PICK d \in Live : consumer[d].phase = "execute" /\ consumer[d].stmt = s
  BY <1>1
<1>3. d # c => d \in Live' /\ consumer'[d] = consumer[d]
  BY LiveConsumer DEF OtherConsumers, Live
<1>4. d = c => d \in Live' /\ consumer'[d].phase = "execute"
  BY <1>2 DEF Settled
<1> QED BY <1>2, <1>3, <1>4

LEMMA OdbcKept ==
    ASSUME TypesInv, Alone, OdbcHalts, Later, HaltedBy, driver = "odbc", NEW c,
           OtherConsumers(c), Settled(c)
    PROVE  OdbcHalts'
<1>1. ASSUME NEW d \in Live'
      PROVE  statement'[consumer'[d].stmt].token \in {consumer'[d].token, None}
  BY LiveConsumer DEF Later, OdbcHalts
<1>2. ASSUME NEW d \in Live, consumer[d].stmt \in halted'
      PROVE  InCall(d) /\ consumer[d].token \in stopped
  <2>1. CASE halted' \subseteq halted
    BY <1>2, <2>1 DEF OdbcHalts
  <2>2. CASE consumer[d].stmt \notin halted
    <3>1. PICK s \in Statements :
             /\ \/ statement[s].token \in stopped
                \/ \E x \in Live : /\ consumer[x].watch \in stopped /\ consumer[x].stmt = s
                                   /\ consumer[x].watch = consumer[x].token
             /\ halted' = halted \cup Cancel(s)
      BY <1>2, <2>2 DEF HaltedBy
    <3>2. consumer[d].stmt \in OdbcCancel(s)
      BY <1>2, <2>2, <3>1 DEF Cancel
    <3>3. PICK x \in Live : InCall(x) /\ consumer[x].stmt = s /\ consumer[d].stmt = consumer[x].stmt
      BY <3>2 DEF OdbcCancel
    <3>4. d = x
      BY <3>3 DEF Alone
    <3>5. \A y \in Live : consumer[y].stmt = s => y = d
      BY <3>3 DEF Alone
    <3>6. statement[s].token \in {consumer[d].token, None} /\ None \notin stopped
      BY <3>3, StoppedTokens DEF OdbcHalts
    <3> QED BY <3>1, <3>3, <3>4, <3>5, <3>6
  <2> QED BY <2>1, <2>2 DEF OdbcHalts
<1>3. ASSUME NEW d \in Live, consumer[d].stmt \in halted'
      PROVE  d \in Live' /\ InCall(d)'
  <2>1. InCall(d)
    BY <1>3, <1>2
  <2>2. d # c => d \in Live' /\ consumer'[d] = consumer[d]
    BY LiveConsumer DEF OtherConsumers, Live
  <2>3. d = c => d \in Live' /\ consumer'[d].phase = consumer[d].phase
    BY <1>3, <2>1 DEF Settled
  <2> QED BY <2>1, <2>2, <2>3 DEF InCall
<1>4. ASSUME NEW d \in Live', consumer'[d].stmt \in halted'
      PROVE  InCall(d)' /\ consumer'[d].token \in stopped'
  <2>1. /\ d \in Live /\ consumer'[d].stmt = consumer[d].stmt
        /\ consumer'[d].token = consumer[d].token /\ stopped \subseteq stopped'
    BY DEF Later
  <2> QED BY <1>2, <1>3, <1>4, <2>1
<1>5. ASSUME NEW s \in halted' PROVE \E d \in Live' : consumer'[d].stmt = s
  <2>1. \E d \in Live : consumer[d].stmt = s
    <3>1. CASE halted' \subseteq halted
      BY <3>1 DEF OdbcHalts
    <3>2. CASE \E u : halted' = halted \cup Cancel(u)
      <4>1. s \in halted \/ \E u : s \in OdbcCancel(u)
        BY <3>2 DEF Cancel
      <4> QED BY <4>1 DEF OdbcHalts, OdbcCancel
    <3> QED BY <3>1, <3>2 DEF HaltedBy
  <2> QED BY <1>3, <2>1 DEF Later
<1> QED BY <1>1, <1>4, <1>5 DEF OdbcHalts

LEMMA SqliteStops ==
    ASSUME TypesInv, SqliteHalts, HaltedBy, ~(halted' \subseteq halted)
    PROVE  \A d \in Live : consumer[d].token \in stopped
<1> SUFFICES ASSUME NEW d \in Live PROVE consumer[d].token \in stopped
  OBVIOUS
<1>1. Watches(consumer[d].token) /\ None \notin stopped
  BY StoppedTokens DEF SqliteHalts
<1>2. CASE \E c \in Live : consumer[c].token \in stopped
  BY <1>2 DEF SqliteHalts
<1>3. CASE \E s \in Statements : statement[s].token \in stopped
  BY <1>1, <1>3 DEF Watches
<1> QED BY <1>2, <1>3 DEF HaltedBy

LEMMA SqliteKept ==
    ASSUME TypesInv, SqliteHalts, Later, HaltedBy,
           \A d \in Live' : consumer'[d].phase # "refused",
           \A s \in Statements : statement'[s].at # 0 =>
               \/ statement[s].at # 0 /\ \A d \in Live : consumer[d].stmt = s => d \in Live'
               \/ halted' = {} /\ \E d \in Live' : consumer[d].stmt = s
    PROVE  SqliteHalts'
<1>1. ASSUME NEW d \in Live' PROVE Watches(consumer[d].token)'
  <2>1. PICK t : t = consumer[d].token
    OBVIOUS
  <2>2. Watches(t) /\ \A c \in Live : consumer[c].token = t
    BY <2>1 DEF Later, SqliteHalts
  <2>3. Watches(t)'
    BY <2>2, WatchesKept
  <2> QED BY <2>1, <2>3 DEF Later
<1>2. \A c, d \in Live' : consumer'[c].token = consumer'[d].token
  BY DEF Later, SqliteHalts
<1>3. ASSUME NEW s \in Statements, statement'[s].at # 0
      PROVE  \E d \in Live' : consumer'[d].stmt = s
  BY <1>3 DEF Later, SqliteHalts
<1>4. ASSUME halted' # {}, NEW s \in Statements, statement'[s].at # 0, NEW d \in Live'
      PROVE  consumer'[d].token \in stopped'
  <2>1. statement[s].at # 0
    BY <1>4
  <2>2. consumer[d].token \in stopped
    <3>1. d \in Live
      BY DEF Later
    <3>2. CASE halted' \subseteq halted
      BY <1>4, <2>1, <3>1, <3>2 DEF SqliteHalts
    <3> QED BY <3>1, <3>2, SqliteStops
  <2> QED BY <2>2 DEF Later
<1> QED BY <1>1, <1>2, <1>3, <1>4 DEF SqliteHalts

HaltsKept(c) == Later /\ HaltedBy /\ OtherConsumers(c) /\ Settled(c)
EndedKept(c) ==
    c \in Live' /\ consumer'[c].phase \in Ended =>
        consumer[c].token \in stopped \/ consumer[c].phase \in Ended
SqliteCursors(c) ==
    driver = "sqlite" =>
        /\ c \in Live' /\ consumer'[c].phase = "refused" => consumer[c].phase = "refused"
        /\ \A s \in Statements : statement'[s].at # 0 =>
               \/ statement[s].at # 0 /\ \A d \in Live : consumer[d].stmt = s => d \in Live'
               \/ halted' = {} /\ \E d \in Live' : consumer[d].stmt = s

LEMMA KeptByStep ==
    ASSUME HaltsInv, RowsInv', NEW c, HaltsKept(c), EndedKept(c), SqliteCursors(c)
    PROVE  HaltsInv'
<1>1. TypesInv /\ Alone /\ Halts /\ Later /\ HaltedBy /\ OtherConsumers(c) /\ Settled(c)
      /\ driver' = driver /\ driver \in {"sqlite", "postgres", "mysql", "odbc"}
  BY DEF HaltsInv, RowsInv, HaltsKept, Later, TypesInv, Globals
<1>2. c \in Live' => consumer'[c].stmt = consumer[c].stmt
  BY <1>1 DEF Later
<1>3. \A d \in Live' : d \in Live /\ (d # c => consumer'[d] = consumer[d])
  BY <1>1, LiveConsumer DEF Later, OtherConsumers
<1>4. Halts'
  <2>1. CASE driver = "sqlite"
    <3>1. SqliteHalts
      BY <1>1, <2>1 DEF Halts
    <3>2. \A d \in Live' : consumer'[d].phase # "refused"
      BY <1>3, <2>1, <3>1 DEF SqliteHalts, SqliteCursors
    <3>3. SqliteHalts'
      BY <1>1, <2>1, <3>1, <3>2, SqliteKept DEF SqliteCursors
    <3> QED BY <1>1, <2>1, <3>3 DEF Halts
  <2>2. CASE driver = "postgres"
    BY <1>1, <1>2, <2>2, ServerKept, PgKept DEF Halts
  <2>3. CASE driver = "mysql"
    BY <1>1, <2>3, ServerKept DEF Halts
  <2>4. CASE driver = "odbc"
    BY <1>1, <2>4, OdbcKept DEF Halts
  <2> QED BY <1>1, <2>1, <2>2, <2>3, <2>4
<1>5. ASSUME NEW d \in Live', consumer'[d].phase \in Ended PROVE consumer'[d].token \in stopped'
  <2>1. d \in Live /\ consumer'[d].token = consumer[d].token /\ stopped \subseteq stopped'
    BY <1>1 DEF Later
  <2>2. consumer[d].token \in stopped
    BY <1>3, <1>5, <2>1 DEF HaltsInv, EndedKept
  <2> QED BY <2>1, <2>2
<1> QED BY <1>4, <1>5 DEF HaltsInv

(* The steps, one by one.                                                  *)
LEMMA SameReaderLater ==
    ASSUME TypesInv, NEW c \in Live, NEW p, NEW w, SameReader(c, p, w),
           UNCHANGED <<driver, statement, stopped>>,
           p = "execute" => consumer[c].phase = "execute",
           w \in {consumer[c].watch, None} \/ (w = consumer[c].token /\ ~Executing')
    PROVE  /\ Later /\ \A d : d \in Live' <=> d \in Live
           /\ statement' = statement /\ OtherConsumers(c)
<1>1. c \in Consumers /\ consumer[c].kind # "none"
  BY LiveConsumer
<1>2. \A d \in Consumers : d # c => consumer'[d] = consumer[d]
  BY DEF SameReader, OtherConsumers
<1>3. \A d : d \in Live' <=> d \in Live
  BY <1>1, <1>2 DEF Live, SameReader
<1>4. \A d \in Live' :
          /\ d \in Live /\ consumer'[d].token = consumer[d].token
          /\ consumer'[d].stmt = consumer[d].stmt
          /\ consumer'[d].phase = "execute" => consumer[d].phase = "execute"
  BY <1>2, <1>3, LiveConsumer DEF SameReader
<1>5. \A d \in Consumers :
          \/ consumer'[d].watch \in {consumer[d].watch, None}
          \/ d \in Live /\ consumer'[d].watch = consumer[d].token /\ ~Executing'
  BY <1>2 DEF SameReader
<1>6. \A s \in Statements : statement'[s].token \in {statement[s].token, None}
  OBVIOUS
<1>7. Later
  BY <1>4, <1>5, <1>6 DEF Later
<1> QED BY <1>3, <1>7 DEF SameReader

LEMMA SqliteStays ==
    ASSUME NEW c, statement' = statement, \A d : d \in Live' <=> d \in Live,
           driver = "sqlite" /\ c \in Live' /\ consumer'[c].phase = "refused" =>
               consumer[c].phase = "refused"
    PROVE  SqliteCursors(c)
BY DEF SqliteCursors

LEMMA NobodyExecutes ==
    ASSUME TypesInv, NEW c \in Live, NEW w, SameReader(c, "fresh", w),
           Calling = {} \/ InCall(c)
    PROVE  ~Executing'
<1> SUFFICES ASSUME NEW d \in Live', consumer'[d].phase = "execute" PROVE FALSE
  BY DEF Executing
<1>1. d \in Consumers /\ consumer'[d].kind # "none" /\ d # c
  BY DEF Live, SameReader
<1>2. consumer'[d] = consumer[d]
  BY <1>1 DEF SameReader, OtherConsumers
<1>3. d \in Calling
  BY <1>1, <1>2 DEF Calling, InCall, Live
<1>4. InCall(c) => c \in Calling
  BY DEF Calling
<1> QED BY <1>1, <1>3, <1>4 DEF TypesInv, OneCall

LEMMA InitStopCallbackHalts ==
    ASSUME TypesInv, NEW c \in Live, InitStopCallback(c), UNCHANGED <<driver, statement, stopped>>,
           Calling = {} \/ InCall(c)
    PROVE  /\ Later /\ HaltedBy /\ OtherConsumers(c) /\ SqliteCursors(c)
           /\ consumer'[c].phase = "fresh"
           /\ driver \in {"postgres", "odbc"} => halted' = halted
<1> DEFINE k == Registered(consumer[c].token)
<1>1. /\ SameReader(c, "fresh", k) /\ k \in {consumer[c].token, None}
      /\ halted' = halted \cup
             (IF driver \in {"sqlite", "mysql"}
              THEN CancelIfStopped(consumer[c].stmt, consumer[c].token) ELSE {})
  BY InitStopCallbackIs
<1> HIDE DEF k
<1>2. ~Executing'
  BY <1>1, NobodyExecutes
<1>3. /\ Later /\ \A d : d \in Live' <=> d \in Live
      /\ statement' = statement /\ OtherConsumers(c)
  BY <1>1, <1>2, SameReaderLater
<1>4. consumer'[c].phase = "fresh"
  BY <1>1 DEF SameReader
<1>5. SqliteCursors(c)
  BY <1>3, <1>4, LiveConsumer, SqliteStays
<1>6. HaltedBy
  BY <1>1, <1>2 DEF HaltedBy, CancelIfStopped
<1>7. driver \in {"postgres", "odbc"} => halted' = halted
  BY <1>1
<1> QED BY <1>3, <1>4, <1>5, <1>6, <1>7

(* A call is refused for its own token.                                    *)
LEMMA RefusedHalts ==
    ASSUME HaltsInv, RowsInv', NEW c \in Consumers, ExecuteRefused(c)
    PROVE  HaltsInv'
<1>1. TypesInv /\ consumer[c].phase = "execute" /\ driver # "sqlite" /\ consumer[c].stmt \in halted
  BY DEF HaltsInv, RowsInv, ExecuteRefused
<1>2. /\ c \in Live /\ SameReader(c, "refused", consumer[c].watch)
      /\ UNCHANGED <<driver, statement, stopped>>
      /\ halted' = IF driver = "mysql" THEN halted ELSE halted \ {consumer[c].stmt}
  BY <1>1, RefusedIs
<1>3. /\ Later /\ \A d : d \in Live' <=> d \in Live
      /\ statement' = statement /\ OtherConsumers(c)
  BY <1>1, <1>2, SameReaderLater
<1>4. consumer[c].token \in stopped
  BY <1>1, <1>2 DEF HaltsInv, Halts, ServerHalts, OdbcHalts, TypesInv, Globals
<1>5. HaltedBy /\ EndedKept(c) /\ SqliteCursors(c)
  BY <1>1, <1>2, <1>3, <1>4, SqliteStays DEF HaltedBy, EndedKept
<1>6. Settled(c)
  BY <1>2 DEF Settled
<1> QED BY <1>3, <1>5, <1>6, KeptByStep DEF HaltsKept

LEMMA ReturnsHalts ==
    ASSUME HaltsInv, RowsInv', NEW c \in Consumers, ExecuteReturns(c)
    PROVE  HaltsInv'
<1>1. driver = "sqlite" \/ consumer[c].stmt \notin halted
  BY DEF ExecuteReturns
<1>2. /\ TypesInv /\ c \in Live /\ InCall(c) /\ UNCHANGED <<driver, statement, stopped>>
      /\ IF consumer[c].kind = "stream" THEN InitStopCallback(c)
         ELSE SameReader(c, "checked", consumer[c].watch) /\ halted' = halted
  BY ReturnsIs DEF HaltsInv, RowsInv
<1>3. /\ Later /\ HaltedBy /\ OtherConsumers(c) /\ SqliteCursors(c)
      /\ consumer'[c].phase \in {"fresh", "checked"}
      /\ driver \in {"postgres", "odbc"} => halted' = halted
  <2>1. CASE consumer[c].kind = "stream"
    BY <1>2, <2>1, InitStopCallbackHalts
  <2>2. CASE consumer[c].kind # "stream"
    <3>1. SameReader(c, "checked", consumer[c].watch) /\ halted' = halted
      BY <1>2, <2>2
    <3>2. /\ Later /\ \A d : d \in Live' <=> d \in Live
          /\ statement' = statement /\ OtherConsumers(c) /\ consumer'[c].phase = "checked"
      BY <1>2, <3>1, SameReaderLater DEF SameReader
    <3> QED BY <3>1, <3>2, SqliteStays DEF HaltedBy
  <2> QED BY <2>1, <2>2
<1>4. Settled(c)
  BY <1>1, <1>3 DEF Settled
<1>5. EndedKept(c)
  BY <1>3 DEF EndedKept, Ended
<1> QED BY <1>3, <1>4, <1>5, KeptByStep DEF HaltsKept

LEMMA AdvanceHalts ==
    ASSUME HaltsInv, RowsInv', NEW c \in Consumers, Advance(c)
    PROVE  HaltsInv'
<1>1. PICK p : /\ p = IF consumer[c].token \in stopped THEN "cancelled" ELSE "checked"
               /\ TypesInv /\ c \in Live /\ Calling = {} /\ SameReader(c, p, consumer[c].watch)
               /\ UNCHANGED <<driver, statement, stopped, halted>>
  BY AdvanceIs DEF HaltsInv, RowsInv
<1>2. /\ Later /\ \A d : d \in Live' <=> d \in Live
      /\ statement' = statement /\ OtherConsumers(c) /\ consumer'[c].phase = p
  BY <1>1, SameReaderLater DEF SameReader
<1>3. ~InCall(c) /\ consumer[c].phase # "execute"
  BY <1>1 DEF Calling, InCall
<1>4. Settled(c)
  BY <1>3 DEF Settled
<1>5. HaltedBy /\ SqliteCursors(c) /\ EndedKept(c)
  BY <1>1, <1>2, SqliteStays DEF HaltedBy, EndedKept, Ended
<1> QED BY <1>2, <1>4, <1>5, KeptByStep DEF HaltsKept

LEMMA MoveHalts ==
    ASSUME HaltsInv, RowsInv', NEW c \in Consumers, MoveStream(c)
    PROVE  HaltsInv'
<1>1. /\ c \in Live /\ Calling = {} /\ InitStopCallback(c) /\ consumer[c].phase = "fresh"
      /\ UNCHANGED <<driver, statement, stopped>> /\ TypesInv
  BY MoveIs DEF HaltsInv, RowsInv
<1>2. /\ Later /\ HaltedBy /\ OtherConsumers(c) /\ SqliteCursors(c)
      /\ consumer'[c].phase = "fresh"
  BY <1>1, InitStopCallbackHalts
<1>3. Settled(c) /\ EndedKept(c)
  BY <1>1, <1>2 DEF Settled, InCall, EndedKept, Ended
<1> QED BY <1>2, <1>3, KeptByStep DEF HaltsKept

LEMMA StreamCallbackHalts ==
    ASSUME HaltsInv, RowsInv', NEW c \in Consumers, StreamCallback(c)
    PROVE  HaltsInv'
<1>1. /\ TypesInv /\ c \in Live /\ SameReader(c, consumer[c].phase, None)
      /\ consumer[c].watch \in stopped /\ consumer[c].watch = consumer[c].token
      /\ halted' = halted \cup Cancel(consumer[c].stmt)
      /\ UNCHANGED <<driver, statement, stopped>>
  BY StreamCallbackIs DEF HaltsInv, RowsInv
<1>2. /\ Later /\ \A d : d \in Live' <=> d \in Live
      /\ statement' = statement /\ OtherConsumers(c) /\ consumer'[c].phase = consumer[c].phase
  BY <1>1, SameReaderLater DEF SameReader
<1>3. HaltedBy
  BY <1>1, LiveConsumer DEF HaltedBy
<1>4. Settled(c) /\ EndedKept(c) /\ SqliteCursors(c)
  BY <1>1, <1>2, SqliteStays DEF Settled, EndedKept
<1> QED BY <1>2, <1>3, <1>4, KeptByStep DEF HaltsKept

(* A row is refused for the reader's own token.                            *)
LEMMA ThrowsForItsToken ==
    ASSUME HaltsInv, NEW c \in Live, consumer[c].phase = "checked",
           NEW step, step = ReaderNext(c), step.out = "throws"
    PROVE  consumer[c].token \in stopped
<1>1. TypesInv /\ InPlace(c) /\ consumer[c].of # 0 /\ c \in Consumers
      /\ driver \in {"sqlite", "postgres", "mysql", "odbc"}
  BY LiveConsumer DEF HaltsInv, RowsInv, ReadOf, ReadingPhases, ReadsFrom, TypesInv, Globals
<1>2. ~consumer[c].own
  BY <1>1, OwnNextIs
<1>3. driver # "postgres" /\ statement[consumer[c].stmt].of # 0
  BY <1>1, <1>2, LiveConsumer DEF ReadsFrom, InPlace
<1>4. CASE driver = "sqlite"
  <2>1. StillHalted # {}
    BY <1>1, <1>2, <1>4, SqliteNextIs
  <2> QED BY <1>4, <2>1 DEF StillHalted, HaltsInv, Halts, SqliteHalts
<1>5. CASE driver = "odbc" \/ driver = "mysql"
  <2>1. driver = "odbc" /\ consumer[c].stmt \in halted
    BY <1>2, <1>3, <1>5, CursorThrows
  <2> QED BY <2>1 DEF HaltsInv, Halts, OdbcHalts
<1> QED BY <1>1, <1>3, <1>4, <1>5

LEMMA FetchHalts ==
    ASSUME HaltsInv, RowsInv', NEW c \in Consumers, NEW step, Fetched(c, step)
    PROVE  HaltsInv'
<1>1. PICK s \in Statements : s = consumer[c].stmt
  BY LiveConsumer DEF HaltsInv, RowsInv, Fetched
<1>2. /\ TypesInv /\ c \in Live /\ consumer[c].phase = "checked" /\ step = ReaderNext(c)
      /\ statement'[s] = step.st /\ OtherStatements(s) /\ halted' = step.halted
      /\ UNCHANGED <<driver, stopped>> /\ consumer[c].kind \in {"stream", "list", "first"}
  BY <1>1, LiveConsumer DEF HaltsInv, RowsInv, Fetched, TypesInv, ConsumerOf
<1>3. /\ step.out \in {"row", "ends", "throws"} /\ halted' \subseteq halted
      /\ statement'[s].token = statement[s].token
      /\ step.out # "row" => statement'[s].at \in {statement[s].at, 0}
  <2>1. /\ step.out \in {"row", "ends", "throws"} /\ step.halted \subseteq halted
        /\ step.st = St(statement[s].of, step.st.at, statement[s].token)
        /\ consumer[c].own => step.st = statement[s]
        /\ ~consumer[c].own => (step.out # "row" => step.st.at \in {statement[s].at, 0})
    BY <1>1, <1>2, NextIs
  <2>2. step.st.token = statement[s].token
    BY <2>1 DEF St
  <2> QED BY <1>2, <2>1, <2>2
<1>4. /\ OtherConsumers(c) /\ consumer'[c].kind = consumer[c].kind
      /\ consumer'[c].token = consumer[c].token /\ consumer'[c].stmt = s
      /\ consumer'[c].watch = consumer[c].watch
      /\ consumer'[c].phase \in {"row", "checked", "end", "failed"}
      /\ consumer'[c].phase = "failed" => step.out = "throws"
  <2>1. CASE step.out = "row"
    <3>1. \E at, row : Yields(c, at, row)
      BY <2>1 DEF Fetched
    <3>2. consumer'[c].phase \in {"row", "checked", "end"}
      BY <1>2, <3>1 DEF Yields
    <3> QED BY <1>1, <3>1, <3>2 DEF Yields, Kept
  <2>2. CASE step.out # "row"
    BY <1>1, <1>3, <2>2 DEF Fetched, SameReader
  <2> QED BY <2>1, <2>2
<1>5. /\ \A d : d \in Live' <=> d \in Live
      /\ \A d \in Consumers : d # c => consumer'[d] = consumer[d]
  BY <1>2, <1>4, LiveConsumer DEF Live, OtherConsumers
<1>6. Later
  <2>1. \A u \in Statements : statement'[u].token = statement[u].token
    BY <1>2, <1>3 DEF OtherStatements
  <2>2. \A d \in Live' :
          /\ d \in Live /\ consumer'[d].token = consumer[d].token
          /\ consumer'[d].stmt = consumer[d].stmt
          /\ consumer'[d].phase = "execute" => consumer[d].phase = "execute"
    BY <1>1, <1>2, <1>4, <1>5, LiveConsumer
  <2>3. \A d \in Consumers : consumer'[d].watch = consumer[d].watch
    BY <1>4, <1>5
  <2> QED BY <1>2, <2>1, <2>2, <2>3 DEF Later
<1>7. Settled(c)
  <2>1. driver = "odbc" => s \notin halted'
    <3>1. driver = "odbc" => ~consumer[c].own
      BY <1>2, LiveConsumer DEF ReadsFrom
    <3> QED BY <1>1, <1>2, <3>1, CursorNextIs
  <2> QED BY <1>1, <1>2, <2>1 DEF Settled
<1>8. EndedKept(c)
  BY <1>2, <1>4, ThrowsForItsToken DEF EndedKept, Ended
<1>9. SqliteCursors(c)
  <2> SUFFICES ASSUME driver = "sqlite", NEW u \in Statements, statement'[u].at # 0
               PROVE  \/ statement[u].at # 0 /\ \A d \in Live : consumer[d].stmt = u => d \in Live'
                      \/ halted' = {} /\ \E d \in Live' : consumer[d].stmt = u
    BY <1>4 DEF SqliteCursors
  <2>1. CASE u # s
    BY <1>2, <1>5, <2>1 DEF OtherStatements
  <2>2. CASE u = s /\ step.out # "row"
    BY <1>3, <1>5, <2>2
  <2>3. CASE u = s /\ step.out = "row"
    <3>1. ~consumer[c].own
      BY <1>2, LiveConsumer DEF ReadsFrom
    <3>2. halted' = {}
      BY <1>2, <2>3, <3>1, SqliteNextIs
    <3> QED BY <1>1, <1>2, <1>5, <2>3, <3>2
  <2> QED BY <2>1, <2>2, <2>3
<1> QED BY <1>3, <1>4, <1>6, <1>7, <1>8, <1>9, KeptByStep DEF HaltsKept, HaltedBy

LEMMA GoneHalts ==
    ASSUME HaltsInv, RowsInv', NEW c \in Consumers, Gone(c)
    PROVE  HaltsInv'
<1>1. PICK s \in Statements : s = consumer[c].stmt
  BY LiveConsumer DEF HaltsInv, RowsInv, Gone
<1>2. /\ TypesInv /\ c \in Live /\ ~InCall(c) /\ OtherConsumers(c) /\ OtherStatements(s)
      /\ UNCHANGED <<driver, stopped, halted>>
      /\ statement'[s] = IF s = c THEN FreshStatement
                         ELSE IF consumer[c].own \/ consumer[c].phase = "refused" THEN statement[s]
                         ELSE St(IF driver = "sqlite" THEN statement[s].of ELSE 0, 0,
                                 statement[s].token)
  BY <1>1 DEF HaltsInv, RowsInv, Gone
<1>3. consumer'[c].kind = "none" /\ consumer'[c].watch = None
  BY DEF Gone, NoConsumer, Reader
<1>4. statement'[s].token \in {statement[s].token, None}
  BY <1>2 DEF FreshStatement, St
<1>5. driver = "sqlite" => statement'[s].at = 0
  <2>1. driver = "sqlite" => ~consumer[c].own /\ consumer[c].phase # "refused"
    BY <1>2, LiveConsumer DEF ReadsFrom, HaltsInv, Halts, SqliteHalts
  <2> QED BY <1>2, <2>1 DEF FreshStatement, St
<1>6. /\ \A d : d \in Live' <=> d \in Live /\ d # c
      /\ \A d \in Consumers : d # c => consumer'[d] = consumer[d]
  BY <1>2, <1>3 DEF Live, OtherConsumers
<1>7. Later
  <2>1. \A u \in Statements : statement'[u].token \in {statement[u].token, None}
    BY <1>2, <1>4 DEF OtherStatements
  <2>2. \A d \in Live' :
          /\ d \in Live /\ consumer'[d].token = consumer[d].token
          /\ consumer'[d].stmt = consumer[d].stmt
          /\ consumer'[d].phase = "execute" => consumer[d].phase = "execute"
    BY <1>2, <1>6, LiveConsumer
  <2>3. \A d \in Consumers : consumer'[d].watch \in {consumer[d].watch, None}
    BY <1>3, <1>6
  <2> QED BY <1>2, <2>1, <2>2, <2>3 DEF Later
<1>8. Settled(c) /\ EndedKept(c) /\ HaltedBy
  BY <1>2, <1>6 DEF Settled, InCall, EndedKept, HaltedBy
<1>9. SqliteCursors(c)
  BY <1>1, <1>2, <1>5, <1>6 DEF SqliteCursors, OtherStatements
<1> QED BY <1>2, <1>7, <1>8, <1>9, KeptByStep DEF HaltsKept

LEMMA CallbackHalts ==
    ASSUME HaltsInv, RowsInv', NEW s \in Statements, StatementCallback(s)
    PROVE  HaltsInv'
<1>1. /\ TypesInv /\ OtherStatements(s) /\ statement[s].token \in stopped
      /\ statement'[s].token = None /\ statement'[s].at = statement[s].at
      /\ halted' = halted \cup Cancel(s)
      /\ UNCHANGED <<driver, consumer, stopped>>
  <2>1. TypesInv
    BY DEF HaltsInv, RowsInv
  <2>2. /\ OtherStatements(s) /\ statement[s].token \in stopped
        /\ statement'[s] = St(statement[s].of, statement[s].at, None)
        /\ halted' = halted \cup Cancel(s)
        /\ UNCHANGED <<driver, consumer, stopped>>
    BY <2>1, CallbackIs
  <2> QED BY <2>1, <2>2 DEF St
<1>2. \A d : (d \in Live' <=> d \in Live)
  BY <1>1 DEF Live
<1>3. Later
  <2>1. \A u \in Statements : statement'[u].token \in {statement[u].token, None}
    BY <1>1 DEF OtherStatements
  <2> QED BY <1>1, <1>2, <2>1 DEF Later
<1>4. OtherConsumers(None) /\ Settled(None) /\ EndedKept(None) /\ HaltedBy
  BY <1>1, <1>2 DEF OtherConsumers, Settled, EndedKept, HaltedBy, TypesInv, Shape
<1>5. SqliteCursors(None)
  BY <1>1, <1>2 DEF SqliteCursors, OtherStatements
<1> QED BY <1>3, <1>4, <1>5, KeptByStep DEF HaltsKept

LEMMA ElseHalts ==
    ASSUME HaltsInv, RowsInv', ElseStep
    PROVE  HaltsInv'
<1>1. /\ TypesInv /\ stopped \subseteq stopped'
      /\ UNCHANGED <<driver, consumer, statement, halted>>
  BY DEF HaltsInv, RowsInv, ElseStep
<1>2. \A d : (d \in Live' <=> d \in Live)
  BY <1>1 DEF Live
<1>3. Later
  BY <1>1, <1>2 DEF Later
<1>4. OtherConsumers(None) /\ Settled(None) /\ EndedKept(None) /\ HaltedBy
  BY <1>1, <1>2 DEF OtherConsumers, Settled, EndedKept, HaltedBy, TypesInv, Shape
<1>5. SqliteCursors(None)
  BY <1>1, <1>2 DEF SqliteCursors
<1> QED BY <1>3, <1>4, <1>5, KeptByStep DEF HaltsKept

(* A call begins: what listens on the connection listens for its token.    *)
LEMMA BeginsHalts ==
    ASSUME Odd = {}, HaltsInv, RowsInv', NEW c \in Consumers, NEW s \in Queries \cup {c}, NEW kind,
           NEW t, NEW own, NEW old, Begins(c, s, kind, t, own, old)
    PROVE  HaltsInv'
<1> DEFINE k == IF t = None THEN old ELSE Registered(t)
           r == Reader(kind, s, Len(answers) + 1, t, own, "execute")
<1>1. /\ OtherConsumers(c) /\ OtherStatements(s) /\ UNCHANGED <<driver, stopped>>
      /\ consumer'[c] = r /\ consumer[c].kind = "none" /\ Calling = {}
      /\ statement'[s] = St(Len(answers) + 1, 0, k) /\ kind # "none"
  BY DEF Begins, Starts
<1>2. /\ TypesInv /\ Alone /\ driver \in {"sqlite", "postgres", "mysql", "odbc"} /\ NoSharing
      /\ s \in Statements /\ t \in Tokens \cup {None}
  BY DEF HaltsInv, RowsInv, TypesInv, Globals, NoSharing, Statements, Begins
<1>3. k \in {t, None}
  <2>1. t = None => old = None
    <3>1. CASE OnQuery(s, t, old, own)
      BY <3>1 DEF OnQuery, Supported
    <3>2. CASE OnOwn(c, s, t, old, own)
      BY <3>2 DEF OnOwn
    <3> QED BY <3>1, <3>2 DEF Begins
  <2> QED BY <2>1 DEF Registered
<1> HIDE DEF k
<1>4. /\ consumer'[c].kind = kind /\ consumer'[c].stmt = s /\ consumer'[c].token = t
      /\ consumer'[c].watch = None /\ consumer'[c].phase = "execute"
  BY <1>1 DEF Reader
<1> HIDE DEF r
<1>5. statement'[s].token = k /\ statement'[s].at = 0
  BY <1>1 DEF St
<1>6. /\ \A d : d \in Live' <=> d \in Live \/ d = c
      /\ \A d \in Live : d # c /\ consumer'[d] = consumer[d] /\ ~InCall(d)
  BY <1>1, <1>4, LiveConsumer DEF Live, OtherConsumers, Calling
<1>7. \A d \in Live : driver = "postgres" \/ consumer[d].stmt # s
  BY <1>2, BeginsAlone
<1>8. driver # "odbc" => Watches(t)' /\ \A d \in Live : driver = "sqlite" => consumer[d].token = t
  <2> SUFFICES ASSUME driver # "odbc"
               PROVE  Watches(t)' /\ \A d \in Live : driver = "sqlite" => consumer[d].token = t
    OBVIOUS
  <2>1. AloneOnConnection(s, t)
    BY DEF Begins, OnQuery, OnOwn, Supported
  <2>2. /\ \A u \in Statements : u # s => statement[u].token \in {t, None}
        /\ \A d \in Consumers : consumer[d].watch \in {t, None}
    BY <2>1 DEF AloneOnConnection, Watched
  <2>3. \A u \in Statements : statement'[u].token \in {t, None}
    BY <1>1, <1>3, <1>5, <2>2 DEF OtherStatements
  <2>4. \A d \in Consumers : consumer'[d].watch \in {t, None}
    BY <1>1, <1>4, <2>2 DEF OtherConsumers
  <2> QED BY <2>1, <2>3, <2>4 DEF Watches, AloneOnConnection
<1>9. \E h : /\ h \subseteq halted /\ halted' = h \cup CancelIfStopped(s, t)
             /\ driver = "mysql" => s \notin h
  <2>1. CASE OnQuery(s, t, old, own)
    <3>1. halted' = halted \cup CancelIfStopped(s, t) /\ (driver = "mysql" => s \notin halted)
      BY <2>1 DEF OnQuery, Supported
    <3> QED BY <3>1
  <2>2. CASE OnOwn(c, s, t, old, own)
    <3> DEFINE h == IF driver = "sqlite" THEN halted ELSE halted \ {c}
    <3>1. halted' = h \cup CancelIfStopped(s, t) /\ s = c
      BY <2>2 DEF OnOwn
    <3>2. h \subseteq halted /\ (driver = "mysql" => c \notin h)
      OBVIOUS
    <3> HIDE DEF h
    <3> QED BY <3>1, <3>2
  <2> QED BY <2>1, <2>2 DEF Begins
<1>10. ASSUME driver = "sqlite" PROVE Halts'
  <2>1. SqliteHalts /\ driver' = "sqlite"
    BY <1>1, <1>10 DEF HaltsInv, Halts
  <2>2. \A d \in Live' : consumer'[d].token = t /\ consumer'[d].phase # "refused"
    BY <1>4, <1>6, <1>8, <1>10, <2>1 DEF SqliteHalts
  <2>3. ASSUME NEW u \in Statements, statement'[u].at # 0
        PROVE  u # s /\ statement[u].at # 0 /\ \E d \in Live : consumer'[d].stmt = u
    BY <1>1, <1>5, <1>6, <2>1, <2>3 DEF OtherStatements, SqliteHalts
  <2>4. ASSUME halted' # {}, NEW u \in Statements, statement'[u].at # 0 PROVE t \in stopped
    <3>1. halted # {} \/ t \in stopped
      BY <1>9, <2>4 DEF CancelIfStopped
    <3>2. halted # {} => \A d \in Live : consumer[d].token \in stopped
      BY <2>1, <2>3, <2>4 DEF SqliteHalts
    <3> QED BY <1>8, <1>10, <2>3, <2>4, <3>1, <3>2
  <2>5. SqliteHalts'
    BY <1>1, <1>6, <1>8, <1>10, <2>2, <2>3, <2>4 DEF SqliteHalts
  <2> QED BY <2>1, <2>5 DEF Halts
<1>11. ASSUME driver = "postgres" \/ driver = "mysql" PROVE Halts'
  <2>1. driver = "postgres" => halted' = {}
    <3> SUFFICES ASSUME driver = "postgres" PROVE halted' = {}
      OBVIOUS
    <3>1. halted = {}
      BY <1>6 DEF HaltsInv, Halts, PgHalts, InCall
    <3>2. CancelIfStopped(s, t) = {}
      BY <1>6 DEF CancelIfStopped, Cancel, PgCancel, InCall
    <3> QED BY <1>9, <3>1, <3>2
  <2>2. s \in halted' => t \in stopped'
    BY <1>1, <1>9, <1>11, <2>1 DEF CancelIfStopped
  <2>3. \A d \in Live' : consumer'[d].phase = "execute" => d = c
    BY <1>6 DEF InCall
  <2>4. ServerHalts'
    BY <1>4, <1>8, <1>11, <2>2, <2>3 DEF ServerHalts
  <2> QED BY <1>1, <1>11, <2>1, <2>4 DEF Halts, PgHalts
<1>12. ASSUME driver = "odbc" PROVE Halts'
  <2>1. OdbcHalts
    BY <1>12 DEF HaltsInv, Halts
  <2>2. halted = {}
    BY <1>6, <2>1 DEF OdbcHalts
  <2>3. CancelIfStopped(s, t) = {}
    BY <1>6, <1>12 DEF CancelIfStopped, Cancel, OdbcCancel
  <2>4. halted' = {}
    BY <1>9, <2>2, <2>3
  <2>5. ASSUME NEW d \in Live'
        PROVE  statement'[consumer'[d].stmt].token \in {consumer'[d].token, None}
    <3>1. CASE d = c
      BY <1>3, <1>4, <1>5, <3>1
    <3>2. CASE d # c
      <4>1. d \in Live /\ consumer'[d] = consumer[d] /\ consumer[d].stmt # s
        BY <1>6, <1>7, <1>12, <3>2
      <4>2. statement'[consumer[d].stmt] = statement[consumer[d].stmt]
        BY <1>1, <1>2, <4>1, LiveConsumer DEF OtherStatements
      <4> QED BY <2>1, <4>1, <4>2 DEF OdbcHalts
    <3> QED BY <3>1, <3>2
  <2>6. OdbcHalts'
    BY <2>4, <2>5 DEF OdbcHalts
  <2> QED BY <1>1, <1>12, <2>6 DEF Halts
<1>13. \A d \in Live' : consumer'[d].phase \in Ended => consumer'[d].token \in stopped'
  BY <1>1, <1>4, <1>6 DEF HaltsInv, Ended
<1> QED BY <1>2, <1>10, <1>11, <1>12, <1>13 DEF HaltsInv

LEMMA HaltsInit == Init => HaltsInv
<1> SUFFICES ASSUME Init PROVE HaltsInv
  OBVIOUS
<1>1. Live = {} /\ halted = {} /\ \A s \in Statements : statement[s].at = 0
  BY DEF Init, Live, NoConsumer, Reader, FreshStatement
<1> QED BY <1>1, RowsInit DEF HaltsInv, Halts, SqliteHalts, ServerHalts, PgHalts, OdbcHalts

LEMMA HaltsNext == ASSUME Odd = {}, HaltsInv, [Next]_vars PROVE HaltsInv'
<1>1. TypesInv /\ RowsInv
  BY DEF HaltsInv, RowsInv
<1>2. RowsInv'
  BY <1>1, RowsNext DEF NoSharing
<1>3. ASSUME NEW c \in Consumers, ExecuteStep(c) PROVE HaltsInv'
  BY <1>1, <1>2, <1>3, ExecuteBegins, BeginsHalts
<1>4. ASSUME NEW c \in Consumers, ReaderStep(c) PROVE HaltsInv'
  BY <1>2, <1>4, RefusedHalts, ReturnsHalts, AdvanceHalts, MoveHalts, StreamCallbackHalts
     DEF ReaderStep
<1>5. ASSUME NEW c \in Consumers, Fetch(c) PROVE HaltsInv'
  BY <1>1, <1>2, <1>5, FetchIs, FetchHalts
<1>6. ASSUME NEW c \in Consumers, Destroy(c) PROVE HaltsInv'
  BY <1>1, <1>2, <1>6, DestroyIs, GoneHalts
<1> QED BY <1>1, <1>2, <1>3, <1>4, <1>5, <1>6, CallbackHalts, ElseHalts, NextSteps

(* In the supported uses a call or a stream ends with an exception only if *)
(* its own token was stopped, whichever the driver, whatever runs at the   *)
(* same time and whatever was stopped before (prepared_query.h             *)
(* stream_with_options, set_stop_token of the drivers).                    *)
THEOREM StopsReachTheirOwn == Odd = {} => (Spec => []OnlyStoppedThrows)
<1> SUFFICES ASSUME Odd = {} PROVE Spec => []OnlyStoppedThrows
  OBVIOUS
<1>1. HaltsInv /\ [Next]_vars => HaltsInv'
  BY HaltsNext
<1>2. HaltsInv => OnlyStoppedThrows
  BY DEF HaltsInv, OnlyStoppedThrows, Ended
<1> QED BY <1>1, <1>2, HaltsInit, PTL DEF Spec
=============================================================================

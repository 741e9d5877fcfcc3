------------------------- MODULE HttpSession_proofs -------------------------
(***************************************************************************)
(* Theorems about HttpSession for any sessions, answers and buffer size:   *)
(* its type invariant, the count of sessions alive included; that a        *)
(* session calls back at most once, after the end of the stream, never     *)
(* after a failure, and never with more than its buffer holds; and that    *)
(* what it calls back is the content of an answer with status 200.         *)
(***************************************************************************)
EXTENDS HttpSession, FiniteSetTheorems, SequenceTheorems, WellFoundedInduction, TLAPS

-----------------------------------------------------------------------------
(* What the handlers leave of the stream is a stream: each looks for a first position
   that is there, so that no CHOOSE is made from nothing. *)
LEMMA LeastOf ==
  ASSUME NEW n \in Nat, NEW T \in SUBSET (1 .. n), T # {}
  PROVE  \E k \in T : \A j \in 1 .. k - 1 : j \notin T
<1>1. T \subseteq Nat
  OBVIOUS
<1>2. \E k \in T : \A j \in T : ~(<<j, k>> \in OpToRel(<, Nat))
  BY <1>1, NatLessThanWellFounded, WFMin
<1>3. \E k \in T : \A j \in T : ~(j < k)
  BY <1>1, <1>2 DEF OpToRel
<1>4. PICK k \in T : \A j \in T : ~(j < k)
  BY <1>3
<1>5. k \in Nat
  BY <1>1
<1>6. \A j \in 1 .. k - 1 : j < k
  BY <1>5
<1> QED
  BY <1>4, <1>6

LEMMA FromType ==
  ASSUME NEW b \in Seq(Tokens), NEW k \in Nat \ {0}
  PROVE  From(b, k) \in Seq(Tokens)
<1>1. Len(b) \in Int /\ k \in Int /\ \A j \in k .. Len(b) : b[j] \in Tokens
  OBVIOUS
<1> QED
  BY <1>1, SubSeqProperties DEF From

LEMMA SkipSpaceType ==
  ASSUME NEW b \in Seq(Tokens)
  PROVE  SkipSpace(b) \in Seq(Tokens)
<1> DEFINE T == {k \in 1 .. Len(b) : b[k] # CRLF}
<1>1. CASE T = {}
  BY <1>1 DEF SkipSpace
<1>2. CASE T # {}
  <2>1. \E k \in 1 .. Len(b) : b[k] # CRLF /\ \A j \in 1 .. k - 1 : ~(b[j] # CRLF)
    <3>0. Len(b) \in Nat /\ T \in SUBSET (1 .. Len(b))
      OBVIOUS
    <3> HIDE DEF T
    <3>1. PICK k \in T : \A j \in 1 .. k - 1 : j \notin T
      BY <3>0, <1>2, LeastOf
    <3> USE DEF T
    <3>2. k \in 1 .. Len(b) /\ b[k] # CRLF /\ \A j \in 1 .. k - 1 : j \in 1 .. Len(b)
      OBVIOUS
    <3> QED
      BY <3>1, <3>2
  <2>2. First(Len(b), LAMBDA k : b[k] # CRLF) \in 1 .. Len(b)
    BY <2>1 DEF First
  <2> HIDE DEF T
  <2>3. From(b, First(Len(b), LAMBDA k : b[k] # CRLF)) \in Seq(Tokens)
    BY <2>2, FromType
  <2> QED
    BY <2>3 DEF SkipSpace
<1> QED
  BY <1>1, <1>2

LEMMA AfterWordType ==
  ASSUME NEW b \in Seq(Tokens)
  PROVE  AfterWord(b) \in Seq(Tokens)
  BY SkipSpaceType, HeadTailProperties DEF AfterWord

LEMMA AfterLineType ==
  ASSUME NEW b \in Seq(Tokens)
  PROVE  AfterLine(b) \in Seq(Tokens)
<1> DEFINE T == {k \in 1 .. Len(b) : b[k] = CRLF}
<1>1. CASE T = {}
  BY <1>1 DEF AfterLine
<1>2. CASE T # {}
  <2>1. \E k \in 1 .. Len(b) : b[k] = CRLF /\ \A j \in 1 .. k - 1 : ~(b[j] = CRLF)
    <3>0. Len(b) \in Nat /\ T \in SUBSET (1 .. Len(b))
      OBVIOUS
    <3> HIDE DEF T
    <3>1. PICK k \in T : \A j \in 1 .. k - 1 : j \notin T
      BY <3>0, <1>2, LeastOf
    <3> USE DEF T
    <3>2. k \in 1 .. Len(b) /\ b[k] = CRLF /\ \A j \in 1 .. k - 1 : j \in 1 .. Len(b)
      OBVIOUS
    <3> QED
      BY <3>1, <3>2
  <2>2. First(Len(b), LAMBDA k : b[k] = CRLF) \in 1 .. Len(b)
    BY <2>1 DEF First
  <2> HIDE DEF T
  <2>3. From(b, First(Len(b), LAMBDA k : b[k] = CRLF) + 1) \in Seq(Tokens)
    BY <2>2, FromType
  <2> QED
    BY <2>3 DEF AfterLine
<1> QED
  BY <1>1, <1>2

LEMMA AfterStatusType ==
  ASSUME NEW b \in Seq(Tokens)
  PROVE  AfterStatus(b) \in Seq(Tokens)
  BY AfterWordType, AfterLineType DEF AfterStatus

LEMMA AfterHeadersType ==
  ASSUME NEW b \in Seq(Tokens)
  PROVE  AfterHeaders(b) \in Seq(Tokens)
<1> DEFINE T == {k \in 1 .. Len(b) : IsCut(b, k)}
<1>1. CASE T = {}
  BY <1>1 DEF AfterHeaders
<1>2. CASE T # {}
  <2>1. \E k \in 1 .. Len(b) : IsCut(b, k) /\ \A j \in 1 .. k - 1 : ~IsCut(b, j)
    <3>0. Len(b) \in Nat /\ T \in SUBSET (1 .. Len(b))
      OBVIOUS
    <3> HIDE DEF T
    <3>1. PICK k \in T : \A j \in 1 .. k - 1 : j \notin T
      BY <3>0, <1>2, LeastOf
    <3> USE DEF T
    <3>2. k \in 1 .. Len(b) /\ IsCut(b, k) /\ \A j \in 1 .. k - 1 : j \in 1 .. Len(b)
      OBVIOUS
    <3> QED
      BY <3>1, <3>2
  <2>2. First(Len(b), LAMBDA k : IsCut(b, k)) \in 1 .. Len(b)
    BY <2>1 DEF First
  <2> HIDE DEF T
  <2>3. From(b, First(Len(b), LAMBDA k : IsCut(b, k)) + 1) \in Seq(Tokens)
    BY <2>2, FromType
  <2> QED
    BY <2>3 DEF AfterHeaders
<1> QED
  BY <1>1, <1>2

-----------------------------------------------------------------------------
(***************************************************************************)
(* The inductive invariant.  http_counter counts a set that has to be      *)
(* finite; a session that has called back or failed has no operation left, *)
(* so that it is never asked again.                                        *)
(***************************************************************************)
Streams ==
  /\ net \in [Session -> Seq(Tokens)] /\ response_ \in [Session -> Seq(Tokens)]
  /\ calls \in [Session -> Seq(Seq(Tokens))]

FailedIsOver == \A s \in Session : broken[s] => op[s] = "none" /\ s \in asked

(* A session calls back at most once, when the whole stream has come and no failure has,
   and only with what fits its buff_ (http_session.cpp:185-192). *)
CallbackOnce == \A s \in Session : calls[s] # <<>> =>
  /\ Len(calls[s]) = 1 /\ Len(calls[s][1]) < kRecvBufMaxSize
  /\ op[s] = "none" /\ s \in asked /\ net[s] = <<>> /\ ~broken[s]

SessionInv ==
  /\ TypeOK /\ Streams /\ IsFiniteSet(asked)
  /\ FailedIsOver /\ CallbackOnce

LEMMA SessionInit == Init => SessionInv
<1> SUFFICES ASSUME Init PROVE SessionInv
  OBVIOUS
<1> USE DEF Init
<1>1. Alive = {}
  BY DEF Alive
<1>2. IsFiniteSet(asked) /\ http_counter = Cardinality(Alive)
  BY <1>1, FS_EmptySet
<1>3. Streams
  BY DEF Streams
<1>4. TypeOK
  BY <1>1, <1>2 DEF TypeOK, Ops
<1>5. FailedIsOver /\ CallbackOnce
  BY DEF FailedIsOver, CallbackOnce
<1> QED
  BY <1>2, <1>3, <1>4, <1>5 DEF SessionInv

(* The streams' part of TypeOK, and what is left of it. *)
LEMMA TypesFromParts ==
  ASSUME op \in [Session -> Ops], Streams, broken \in [Session -> BOOLEAN],
         asked \subseteq Session, Alive \subseteq asked, http_counter = Cardinality(Alive)
  PROVE  TypeOK
  BY DEF TypeOK, Streams

(* A handler's next operation keeps the count: it goes down when there is none. *)
LEMMA StartsCounts ==
  ASSUME SessionInv, NEW s \in Session, op[s] # "none",
         NEW next \in Ops, Starts(s, next), asked' = asked
  PROVE  /\ op' \in [Session -> Ops] /\ op'[s] = next
         /\ \A t \in Session : t # s => op'[t] = op[t]
         /\ Alive' \subseteq asked' /\ http_counter' = Cardinality(Alive')
<1> USE DEF SessionInv, TypeOK, Starts
<1>1. op' \in [Session -> Ops] /\ op'[s] = next /\ \A t \in Session : t # s => op'[t] = op[t]
  OBVIOUS
<1>2. s \in Alive /\ IsFiniteSet(Alive)
  BY FS_Subset DEF Alive
<1>3. CASE next = "none"
  <2>1. Alive' = Alive \ {s}
    BY <1>1, <1>3 DEF Alive
  <2>2. Cardinality(Alive \ {s}) = Cardinality(Alive) - 1
    BY <1>2, FS_RemoveElement
  <2>3. http_counter' = http_counter - 1 /\ http_counter = Cardinality(Alive)
    BY <1>3
  <2> QED
    BY <1>1, <2>1, <2>2, <2>3
<1>4. CASE next # "none"
  <2>1. Alive' = Alive
    BY <1>1, <1>2, <1>4 DEF Alive
  <2> QED
    BY <1>1, <1>4, <2>1
<1> QED
  BY <1>3, <1>4

(* A handler that neither fails nor calls back. *)
LEMMA HandlerKeeps ==
  ASSUME SessionInv, NEW s \in Session, op[s] # "none",
         NEW next \in Ops, Starts(s, next), UNCHANGED <<broken, calls, asked>>,
         net' \in [Session -> Seq(Tokens)], response_' \in [Session -> Seq(Tokens)],
         \A t \in Session : t # s => net'[t] = net[t]
  PROVE  SessionInv'
<1>1. /\ op' \in [Session -> Ops] /\ op'[s] = next
      /\ \A t \in Session : t # s => op'[t] = op[t]
      /\ Alive' \subseteq asked' /\ http_counter' = Cardinality(Alive')
  BY StartsCounts
<1>2. Streams'
  BY DEF SessionInv, Streams
<1>3. TypeOK'
  BY <1>1, <1>2 DEF SessionInv, TypeOK, Streams
<1>4. FailedIsOver' /\ CallbackOnce'
  BY <1>1 DEF SessionInv, FailedIsOver, CallbackOnce
<1> QED
  BY <1>2, <1>3, <1>4 DEF SessionInv

LEMMA TakeTypes ==
  ASSUME Streams, NEW s \in Session, NEW n, Take(s, n)
  PROVE  /\ net' \in [Session -> Seq(Tokens)] /\ response_' \in [Session -> Seq(Tokens)]
         /\ \A t \in Session : t # s => net'[t] = net[t]
<1>1. net[s] \in Seq(Tokens) /\ response_[s] \in Seq(Tokens) /\ Len(net[s]) \in Nat
  BY DEF Streams
<1>2. n \in 1 .. Len(net[s])
  BY DEF Take
<1>3. 1 \in Int /\ n \in Int /\ n + 1 \in Nat \ {0} /\ \A j \in 1 .. n : net[s][j] \in Tokens
  BY <1>1, <1>2
<1>4. SubSeq(net[s], 1, n) \in Seq(Tokens)
  BY <1>3, SubSeqProperties
<1>5. response_[s] \o SubSeq(net[s], 1, n) \in Seq(Tokens)
  BY <1>1, <1>4, ConcatProperties
<1>6. From(net[s], n + 1) \in Seq(Tokens)
  BY <1>1, <1>3, FromType
<1> QED
  BY <1>5, <1>6 DEF Take, Streams

LEMMA SessionRequest ==
  ASSUME SessionInv, NEW s \in Session, HttpRequest(s)
  PROVE  SessionInv'
<1> USE DEF HttpRequest
<1>1. op[s] = "none" /\ calls[s] = <<>> /\ ~broken[s] /\ s \notin asked /\ s \notin Alive
  BY DEF SessionInv, TypeOK, Streams, FailedIsOver, CallbackOnce, Alive
<1>2. /\ op' \in [Session -> Ops] /\ op'[s] = "resolve"
      /\ \A t \in Session : t # s => op'[t] = op[t]
  BY DEF SessionInv, TypeOK, Ops
<1>3. Alive' = Alive \cup {s} /\ IsFiniteSet(Alive) /\ Alive \subseteq asked
  BY <1>2, FS_Subset DEF SessionInv, TypeOK, Alive
<1>4. Cardinality(Alive \cup {s}) = Cardinality(Alive) + 1
  BY <1>1, <1>3, FS_AddElement
<1>5. http_counter' = Cardinality(Alive') /\ Alive' \subseteq asked'
  BY <1>3, <1>4 DEF SessionInv, TypeOK
<1>6. IsFiniteSet(asked')
  BY FS_AddElement DEF SessionInv
<1>7. Streams' /\ \A t \in Session : t # s => net'[t] = net[t]
  BY SessionAssumption DEF SessionInv, Streams
<1>8. TypeOK'
  BY <1>2, <1>5, <1>7 DEF SessionInv, TypeOK, Streams
<1>9. FailedIsOver' /\ CallbackOnce'
  BY <1>1, <1>2, <1>7 DEF SessionInv, FailedIsOver, CallbackOnce
<1> QED
  BY <1>6, <1>7, <1>8, <1>9 DEF SessionInv

LEMMA SessionError ==
  ASSUME SessionInv, NEW s \in Session, HandleError(s)
  PROVE  SessionInv'
<1> USE DEF HandleError
<1>1. /\ op' \in [Session -> Ops] /\ op'[s] = "none"
      /\ \A t \in Session : t # s => op'[t] = op[t]
      /\ Alive' \subseteq asked' /\ http_counter' = Cardinality(Alive')
  BY StartsCounts DEF Ops
<1>2. s \in asked /\ calls[s] = <<>>
  BY DEF SessionInv, TypeOK, Alive, CallbackOnce
<1>3. /\ broken' \in [Session -> BOOLEAN]
      /\ \A t \in Session : t # s => broken'[t] = broken[t]
  BY DEF SessionInv, TypeOK
<1>4. Streams'
  BY DEF SessionInv, Streams
<1>5. TypeOK'
  BY <1>1, <1>3, <1>4 DEF SessionInv, TypeOK, Streams
<1>6. FailedIsOver'
  BY <1>1, <1>2, <1>3 DEF SessionInv, FailedIsOver
<1>7. CallbackOnce'
  BY <1>1, <1>2, <1>3 DEF SessionInv, CallbackOnce
<1> QED
  BY <1>4, <1>5, <1>6, <1>7 DEF SessionInv

(* The end of the stream: the one step that calls back. *)
LEMMA SessionContent ==
  ASSUME SessionInv, NEW s \in Session, ContentRead(s)
  PROVE  SessionInv'
<1> USE DEF ContentRead
<1>1. /\ op' \in [Session -> Ops] /\ op'[s] = "none"
      /\ \A t \in Session : t # s => op'[t] = op[t]
      /\ Alive' \subseteq asked' /\ http_counter' = Cardinality(Alive')
  BY StartsCounts DEF Ops
<1>2. s \in asked /\ calls[s] = <<>> /\ ~broken[s] /\ net[s] = <<>>
  BY DEF SessionInv, TypeOK, Alive, FailedIsOver, CallbackOnce
<1>3. CASE TooLong(response_[s])
  <2>1. Streams'
    BY <1>3 DEF SessionInv, Streams
  <2>2. TypeOK'
    BY <1>1, <2>1 DEF SessionInv, TypeOK, Streams
  <2>3. FailedIsOver' /\ CallbackOnce'
    BY <1>1, <1>2, <1>3 DEF SessionInv, FailedIsOver, CallbackOnce
  <2> QED
    BY <2>1, <2>2, <2>3 DEF SessionInv
<1>4. CASE ~TooLong(response_[s])
  <2>1. response_[s] \in Seq(Tokens) /\ Len(response_[s]) < kRecvBufMaxSize
    BY <1>4, SessionAssumption DEF SessionInv, Streams, TooLong
  <2>2. Append(<<>>, response_[s]) \in Seq(Seq(Tokens))
        /\ Len(Append(<<>>, response_[s])) = 1 /\ Append(<<>>, response_[s])[1] = response_[s]
    BY <2>1
  <2>3. calls'[s] = Append(<<>>, response_[s]) /\ \A t \in Session : t # s => calls'[t] = calls[t]
    BY <1>2, <1>4 DEF SessionInv, Streams
  <2>4. Streams'
    BY ZenonT(40), <1>2, <1>4, <2>2 DEF SessionInv, Streams
  <2>5. TypeOK'
    BY <1>1, <2>4 DEF SessionInv, TypeOK, Streams
  <2>6. FailedIsOver' /\ CallbackOnce'
    BY ZenonT(40), <1>1, <1>2, <2>1, <2>2, <2>3 DEF SessionInv, FailedIsOver, CallbackOnce
  <2> QED
    BY <2>4, <2>5, <2>6 DEF SessionInv
<1> QED
  BY <1>3, <1>4

LEMMA SessionHandler ==
  ASSUME SessionInv, NEW s \in Session, Handler(s)
  PROVE  SessionInv'
<1>1. /\ net \in [Session -> Seq(Tokens)] /\ response_ \in [Session -> Seq(Tokens)]
      /\ response_[s] \in Seq(Tokens)
  BY DEF SessionInv, Streams
<1>2. {"none", "connect", "write", "status", "headers", "content"} \subseteq Ops
  BY DEF Ops
<1>3. CASE handle_resolve(s)
  BY <1>1, <1>2, <1>3, HandlerKeeps DEF handle_resolve
<1>4. CASE handle_connect(s)
  BY <1>1, <1>2, <1>4, HandlerKeeps DEF handle_connect
<1>5. CASE handle_write_request(s)
  BY <1>1, <1>2, <1>5, HandlerKeeps DEF handle_write_request
<1>6. CASE EofTooEarly(s)
  BY <1>1, <1>2, <1>6, HandlerKeeps DEF EofTooEarly
<1>7. CASE handle_read_status_line(s)
  <2>1. AfterStatus(response_[s]) \in Seq(Tokens)
    BY <1>1, AfterStatusType
  <2>2. response_' \in [Session -> Seq(Tokens)]
    BY <1>1, <1>7, <2>1 DEF handle_read_status_line
  <2>3. \E next \in Ops : Starts(s, next)
    BY <1>2, <1>7 DEF handle_read_status_line
  <2>4. op[s] # "none" /\ UNCHANGED <<net, broken, calls, asked>>
    BY <1>7 DEF handle_read_status_line
  <2> QED
    BY <1>1, <2>2, <2>3, <2>4, HandlerKeeps
<1>8. CASE handle_read_headers(s)
  <2>1. AfterHeaders(response_[s]) \in Seq(Tokens)
    BY <1>1, AfterHeadersType
  <2>2. response_' \in [Session -> Seq(Tokens)]
    BY <1>1, <1>8, <2>1 DEF handle_read_headers
  <2> QED
    BY <1>1, <1>2, <1>8, <2>2, HandlerKeeps DEF handle_read_headers
<1>9. CASE ContentRead(s)
  BY <1>9, SessionContent
<1> QED
  BY <1>3, <1>4, <1>5, <1>6, <1>7, <1>8, <1>9 DEF Handler

LEMMA SessionArrive ==
  ASSUME SessionInv, NEW s \in Session, Arrive(s)
  PROVE  SessionInv'
<1> PICK n \in 1 .. Longest : Receive(s, n) \/ ReadOn(s, n)
  BY DEF Arrive
<1>1. Take(s, n)
  BY DEF Receive, ReadOn
<1>2. /\ net' \in [Session -> Seq(Tokens)] /\ response_' \in [Session -> Seq(Tokens)]
      /\ \A t \in Session : t # s => net'[t] = net[t]
  BY <1>1, TakeTypes DEF SessionInv
<1>3. op[s] # "none" /\ UNCHANGED <<broken, calls, asked>>
  BY DEF Receive, ReadOn
<1>4. CASE ReadOn(s, n)
  BY <1>2, <1>3, <1>4, HandlerKeeps DEF ReadOn, Ops
<1>5. CASE Receive(s, n)
  <2>1. UNCHANGED <<op, http_counter>> /\ Alive' = Alive
    BY <1>5 DEF Receive, Alive
  <2>2. Streams'
    BY <1>2, <1>3 DEF SessionInv, Streams
  <2>3. TypeOK'
    BY <1>3, <2>1, <2>2 DEF SessionInv, TypeOK, Streams
  <2>4. FailedIsOver' /\ CallbackOnce'
    BY <1>2, <1>3, <2>1 DEF SessionInv, FailedIsOver, CallbackOnce
  <2> QED
    BY <1>3, <2>2, <2>3, <2>4 DEF SessionInv
<1> QED
  BY <1>4, <1>5

LEMMA SessionInvariant == Spec => []SessionInv
<1>1. SessionInv /\ [Next]_vars => SessionInv'
  <2> SUFFICES ASSUME SessionInv, [Next]_vars PROVE SessionInv'
    OBVIOUS
  <2>1. ASSUME NEW s \in Session, HttpRequest(s) \/ Handler(s) \/ Arrive(s) \/ HandleError(s)
        PROVE  SessionInv'
    BY <2>1, SessionRequest, SessionHandler, SessionArrive, SessionError
  <2>2. CASE UNCHANGED vars
    <3> USE <2>2 DEF vars
    <3>1. Alive' = Alive
      BY DEF Alive
    <3>2. TypeOK' /\ Streams' /\ FailedIsOver' /\ CallbackOnce'
      BY <3>1 DEF SessionInv, TypeOK, Streams, FailedIsOver, CallbackOnce
    <3> QED
      BY <3>2 DEF SessionInv
  <2> QED
    BY <2>1, <2>2 DEF Next
<1> QED
  BY SessionInit, <1>1, PTL DEF Spec

(* Every variable keeps its type; http_counter is the number of the sessions alive, and
   the first position that a handler looks for in the stream is always there. *)
THEOREM SessionTypeOK == Spec => []TypeOK
  BY SessionInvariant, PTL DEF SessionInv

(* However the stream comes, is cut or fails, a session calls back once at most, after the
   last byte, never after an error, and with no more than its buffer holds. *)
THEOREM SessionCallsBackOnce == Spec => []CallbackOnce
  BY SessionInvariant, PTL DEF SessionInv
-----------------------------------------------------------------------------
(***************************************************************************)
(* What the handlers leave of the stream, position by position.            *)
(***************************************************************************)
LEMMA FromIs ==
  ASSUME NEW b \in Seq(Tokens), NEW k \in 1 .. Len(b) + 1
  PROVE  /\ From(b, k) \in Seq(Tokens) /\ Len(From(b, k)) = Len(b) + 1 - k
         /\ \A i \in 1 .. Len(b) + 1 - k : From(b, k)[i] = b[k - 1 + i]
<1>1. Len(b) \in Int /\ k \in Int /\ k \in Nat \ {0} /\ \A j \in k .. Len(b) : b[j] \in Tokens
  OBVIOUS
<1>2. /\ SubSeq(b, k, Len(b)) \in Seq(Tokens)
      /\ Len(SubSeq(b, k, Len(b))) = IF k <= Len(b) THEN Len(b) - k + 1 ELSE 0
      /\ \A i \in 1 .. Len(b) - k + 1 : SubSeq(b, k, Len(b))[i] = b[k + i - 1]
  BY <1>1, SubSeqProperties
<1>3. Len(From(b, k)) = Len(b) + 1 - k /\ From(b, k) \in Seq(Tokens)
  BY <1>1, <1>2 DEF From
<1>4. \A i \in 1 .. Len(b) + 1 - k : i \in 1 .. Len(b) - k + 1 /\ k + i - 1 = k - 1 + i
  BY <1>1
<1> QED
  BY <1>2, <1>3, <1>4 DEF From

LEMMA FromFrom ==
  ASSUME NEW b \in Seq(Tokens), NEW i \in 1 .. Len(b) + 1, NEW k \in 1 .. Len(b) + 2 - i
  PROVE  From(From(b, i), k) = From(b, i + k - 1)
<1> DEFINE a == From(b, i)
<1>1. /\ a \in Seq(Tokens) /\ Len(a) = Len(b) + 1 - i
      /\ \A n \in 1 .. Len(b) + 1 - i : a[n] = b[i - 1 + n]
  BY FromIs
<1> HIDE DEF a
<1>2. k \in 1 .. Len(a) + 1 /\ i + k - 1 \in 1 .. Len(b) + 1 /\ Len(b) \in Nat
  BY <1>1
<1>3. /\ From(a, k) \in Seq(Tokens) /\ Len(From(a, k)) = Len(a) + 1 - k
      /\ \A n \in 1 .. Len(a) + 1 - k : From(a, k)[n] = a[k - 1 + n]
  BY <1>1, <1>2, FromIs
<1>4. /\ From(b, i + k - 1) \in Seq(Tokens)
      /\ Len(From(b, i + k - 1)) = Len(b) + 1 - (i + k - 1)
      /\ \A n \in 1 .. Len(b) + 1 - (i + k - 1) : From(b, i + k - 1)[n] = b[(i + k - 1) - 1 + n]
  BY <1>2, FromIs
<1>5. Len(From(a, k)) = Len(From(b, i + k - 1))
  BY <1>1, <1>2, <1>3, <1>4
<1>6. ASSUME NEW n \in 1 .. Len(From(a, k)) PROVE From(a, k)[n] = From(b, i + k - 1)[n]
  <2>1. n \in 1 .. Len(a) + 1 - k /\ n \in 1 .. Len(b) + 1 - (i + k - 1)
    BY <1>3, <1>4, <1>5
  <2>2. k - 1 + n \in 1 .. Len(b) + 1 - i /\ i - 1 + (k - 1 + n) = (i + k - 1) - 1 + n
    BY <1>1, <1>2, <2>1
  <2> QED
    BY <1>1, <1>3, <1>4, <2>1, <2>2
<1> QED
  BY <1>3, <1>4, <1>5, <1>6, SeqEqual DEF a

LEMMA TailFrom ==
  ASSUME NEW b \in Seq(Tokens), NEW k \in 1 .. Len(b)
  PROVE  From(b, k) # <<>> /\ Head(From(b, k)) = b[k] /\ Tail(From(b, k)) = From(b, k + 1)
<1>1. /\ From(b, k) \in Seq(Tokens) /\ Len(From(b, k)) = Len(b) + 1 - k
      /\ \A i \in 1 .. Len(b) + 1 - k : From(b, k)[i] = b[k - 1 + i]
  BY FromIs
<1>2. Len(From(b, k)) \in Nat \ {0} /\ 1 \in 1 .. Len(b) + 1 - k /\ k - 1 + 1 = k
  BY <1>1
<1>3. From(b, k) # <<>>
  BY <1>2
<1>4. Head(From(b, k)) = b[k]
  BY <1>1, <1>2, <1>3
<1>5. Len(b) \in k .. Len(b)
  OBVIOUS
<1>6. Tail(From(b, k)) = From(b, k + 1)
  BY <1>5, HeadTailOfSubSeq DEF From
<1> QED
  BY <1>3, <1>4, <1>6

LEMMA SkipSpaceIs ==
  ASSUME NEW b \in Seq(Tokens), SkipSpace(b) # <<>>
  PROVE  \E i \in 1 .. Len(b) : /\ b[i] # CRLF /\ \A j \in 1 .. i - 1 : b[j] = CRLF
                                /\ SkipSpace(b) = From(b, i)
<1> DEFINE T == {k \in 1 .. Len(b) : b[k] # CRLF}
           i == First(Len(b), LAMBDA k : b[k] # CRLF)
<1>1. T # {} /\ SkipSpace(b) = From(b, i)
  BY DEF SkipSpace
<1>2. T \in SUBSET (1 .. Len(b)) /\ Len(b) \in Nat
  OBVIOUS
<1> HIDE DEF T, i
<1>3. PICK k \in T : \A j \in 1 .. k - 1 : j \notin T
  BY <1>1, <1>2, LeastOf
<1>4. k \in 1 .. Len(b) /\ b[k] # CRLF /\ \A j \in 1 .. k - 1 : j \in 1 .. Len(b)
  BY DEF T
<1>5. \A j \in 1 .. k - 1 : ~(b[j] # CRLF)
  BY <1>3, <1>4 DEF T
<1>6. i \in 1 .. Len(b) /\ b[i] # CRLF /\ \A j \in 1 .. i - 1 : ~(b[j] # CRLF)
  BY <1>4, <1>5 DEF i, First
<1> QED
  BY <1>1, <1>6

LEMMA AfterLineIs ==
  ASSUME NEW b \in Seq(Tokens), HasLine(b)
  PROVE  \E i \in 1 .. Len(b) : /\ b[i] = CRLF /\ \A j \in 1 .. i - 1 : b[j] # CRLF
                                /\ AfterLine(b) = From(b, i + 1)
<1> DEFINE T == {k \in 1 .. Len(b) : b[k] = CRLF}
           i == First(Len(b), LAMBDA k : b[k] = CRLF)
<1>1. T # {} /\ AfterLine(b) = From(b, i + 1)
  BY DEF AfterLine, HasLine
<1>2. T \in SUBSET (1 .. Len(b)) /\ Len(b) \in Nat
  OBVIOUS
<1> HIDE DEF T, i
<1>3. PICK k \in T : \A j \in 1 .. k - 1 : j \notin T
  BY <1>1, <1>2, LeastOf
<1>4. k \in 1 .. Len(b) /\ b[k] = CRLF /\ \A j \in 1 .. k - 1 : j \in 1 .. Len(b)
  BY DEF T
<1>5. \A j \in 1 .. k - 1 : ~(b[j] = CRLF)
  BY <1>3, <1>4 DEF T
<1>6. i \in 1 .. Len(b) /\ b[i] = CRLF /\ \A j \in 1 .. i - 1 : ~(b[j] = CRLF)
  BY <1>4, <1>5 DEF i, First
<1> QED
  BY <1>1, <1>6

LEMMA AfterHeadersIs ==
  ASSUME NEW b \in Seq(Tokens), HasBlank(b)
  PROVE  \E i \in 1 .. Len(b) : /\ IsCut(b, i) /\ \A j \in 1 .. i - 1 : ~IsCut(b, j)
                                /\ AfterHeaders(b) = From(b, i + 1)
<1> DEFINE T == {k \in 1 .. Len(b) : IsCut(b, k)}
           i == First(Len(b), LAMBDA k : IsCut(b, k))
<1>1. T # {} /\ AfterHeaders(b) = From(b, i + 1)
  BY DEF AfterHeaders, HasBlank, IsBlank, IsCut
<1>2. T \in SUBSET (1 .. Len(b)) /\ Len(b) \in Nat
  OBVIOUS
<1> HIDE DEF T, i
<1>3. PICK k \in T : \A j \in 1 .. k - 1 : j \notin T
  BY <1>1, <1>2, LeastOf
<1>4. k \in 1 .. Len(b) /\ IsCut(b, k) /\ \A j \in 1 .. k - 1 : j \in 1 .. Len(b)
  BY DEF T
<1>5. \A j \in 1 .. k - 1 : ~IsCut(b, j)
  BY <1>3, <1>4 DEF T
<1>6. i \in 1 .. Len(b) /\ IsCut(b, i) /\ \A j \in 1 .. i - 1 : ~IsCut(b, j)
  BY <1>4, <1>5 DEF i, First
<1> QED
  BY <1>1, <1>6

(* The two words that the status line's handler takes, and what it leaves. *)
LEMMA StatusIs ==
  ASSUME NEW b \in Seq(Tokens), StatusOf(b) = "200"
  PROVE  \E i, j \in 1 .. Len(b) :
            /\ OkWords(b, i, j) /\ From(b, j + 1) # <<>>
            /\ AfterStatus(b) = AfterLine(From(b, j + 1))
<1> DEFINE version == SkipSpace(b)
           code    == SkipSpace(AfterWord(b))
           message == AfterWord(AfterWord(b))
<1>1. /\ version # <<>> /\ code # <<>> /\ message # <<>>
      /\ Head(version) = "HTTP/" /\ Head(code) = "200"
  BY DEF StatusOf
<1>2. PICK i \in 1 .. Len(b) : /\ b[i] # CRLF /\ \A k \in 1 .. i - 1 : b[k] = CRLF
                               /\ version = From(b, i)
  BY <1>1, SkipSpaceIs
<1>3. Len(b) \in Nat /\ i + 1 \in 1 .. Len(b) + 1
  OBVIOUS
<1>4. b[i] = "HTTP/" /\ AfterWord(b) = From(b, i + 1)
  BY <1>1, <1>2, TailFrom DEF AfterWord
<1>5. PICK a \in Seq(Tokens) : /\ a = From(b, i + 1) /\ Len(a) = Len(b) - i
                               /\ \A n \in 1 .. Len(b) - i : a[n] = b[i + n]
  <2>1. /\ From(b, i + 1) \in Seq(Tokens) /\ Len(From(b, i + 1)) = Len(b) + 1 - (i + 1)
        /\ \A n \in 1 .. Len(b) + 1 - (i + 1) : From(b, i + 1)[n] = b[(i + 1) - 1 + n]
    BY <1>3, FromIs
  <2>2. Len(b) + 1 - (i + 1) = Len(b) - i /\ \A n \in 1 .. Len(b) - i : (i + 1) - 1 + n = i + n
    BY <1>3
  <2> QED
    BY <2>1, <2>2
<1>6. PICK n \in 1 .. Len(a) : /\ a[n] # CRLF /\ \A k \in 1 .. n - 1 : a[k] = CRLF
                               /\ code = From(a, n)
  BY <1>1, <1>4, <1>5, SkipSpaceIs
<1>7. PICK j \in 1 .. Len(b) : j = i + n
  BY <1>5, <1>3
<1>8. code = From(b, j)
  <2>1. n \in 1 .. Len(b) + 2 - (i + 1) /\ (i + 1) + n - 1 = j
    BY <1>3, <1>5, <1>7
  <2> QED
    BY <2>1, <1>3, <1>5, <1>6, FromFrom
<1>9. b[j] = "200" /\ AfterWord(AfterWord(b)) = From(b, j + 1)
  BY <1>1, <1>8, TailFrom DEF AfterWord
<1>10. ASSUME NEW k \in 1 .. j - 1, k # i PROVE b[k] = CRLF
  <2>1. CASE k < i
    BY <2>1, <1>2
  <2>2. CASE k > i
    <3>1. k - i \in 1 .. n - 1 /\ k - i \in 1 .. Len(b) - i /\ i + (k - i) = k
      BY <2>2, <1>3, <1>5, <1>7
    <3> QED
      BY <3>1, <1>5, <1>6
  <2> QED
    BY <2>1, <2>2, <1>10
<1>11. OkWords(b, i, j)
  BY <1>4, <1>7, <1>9, <1>10 DEF OkWords
<1> QED
  BY <1>1, <1>9, <1>11 DEF AfterStatus

(***************************************************************************)
(* The stream.  Of the whole answer r the handlers have consumed c tokens, *)
(* a is received, b still to come.  Of an answer that is well begun they   *)
(* have consumed after the status line what is up to a CRLF before its     *)
(* first blank line, and after the headers what is up to that.             *)
(***************************************************************************)
Stream(r, a, b, c) ==
  /\ Len(r) = c + Len(a) + Len(b)
  /\ \A i \in 1 .. Len(a) : a[i] = r[c + i]
  /\ \A i \in 1 .. Len(b) : b[i] = r[c + Len(a) + i]

FirstLine(r, c) ==
  c \in 1 .. Len(r) /\ r[c] = CRLF /\ \A j \in 1 .. c : ~IsBlank(r, j)

FirstBlank(r, c) ==
  c \in 1 .. Len(r) /\ IsBlank(r, c) /\ \A j \in 1 .. c - 1 : ~IsBlank(r, j)

Consumed(r, o, c) ==
  /\ o \in {"resolve", "connect", "write", "status"} => c = 0
  /\ o \in {"headers", "content"} => OkFirst(r)
  /\ WellBegun(r) /\ o = "headers" => FirstLine(r, c)
  /\ WellBegun(r) /\ o = "content" => FirstBlank(r, c)

Reading(s) ==
  /\ answer[s] \in Responses
  /\ \E c \in Nat : /\ Stream(answer[s], response_[s], net[s], c)
                    /\ Consumed(answer[s], op[s], c)

CalledBack(s) ==
  /\ answer[s] \in Responses /\ OkFirst(answer[s])
  /\ WellBegun(answer[s]) => calls[s] = <<Content(answer[s])>>

StreamOf(s) ==
  /\ s \notin asked => response_[s] = <<>>
  /\ op[s] # "none" => Reading(s)
  /\ calls[s] # <<>> => CalledBack(s)

StreamInv ==
  /\ answer \in [Session -> Responses \cup {<<>>}]
  /\ \A s \in Session : StreamOf(s)

LEMMA AnswerType == ASSUME NEW r \in Responses PROVE r \in Seq(Tokens)
BY SessionAssumption

(* Taking n tokens moves them from what is to come to what is received. *)
LEMMA TakeStream ==
  ASSUME NEW r \in Seq(Tokens), NEW a \in Seq(Tokens), NEW b \in Seq(Tokens), NEW c \in Nat,
         Stream(r, a, b, c), NEW n \in 1 .. Len(b)
  PROVE  Stream(r, a \o SubSeq(b, 1, n), From(b, n + 1), c)
<1>1. Len(a) \in Nat /\ Len(b) \in Nat /\ n \in Nat /\ n <= Len(b) /\ n + 1 \in 1 .. Len(b) + 1
  OBVIOUS
<1>2. PICK d \in Seq(Tokens) : /\ d = SubSeq(b, 1, n) /\ Len(d) = n
                               /\ \A i \in 1 .. n : d[i] = b[i]
  <2>1. 1 \in Int /\ n \in Int /\ \A i \in 1 .. n : b[i] \in Tokens
    BY <1>1
  <2>2. /\ SubSeq(b, 1, n) \in Seq(Tokens)
        /\ Len(SubSeq(b, 1, n)) = IF 1 <= n THEN n - 1 + 1 ELSE 0
        /\ \A i \in 1 .. n - 1 + 1 : SubSeq(b, 1, n)[i] = b[1 + i - 1]
    BY <2>1, SubSeqProperties
  <2>3. n - 1 + 1 = n /\ 1 <= n /\ \A i \in 1 .. n : 1 + i - 1 = i
    BY <1>1
  <2>4. Len(SubSeq(b, 1, n)) = n /\ \A i \in 1 .. n : SubSeq(b, 1, n)[i] = b[i]
    BY <2>2, <2>3
  <2> QED
    BY <2>2, <2>4
<1>3. PICK e \in Seq(Tokens) : /\ e = a \o d /\ Len(e) = Len(a) + n
                               /\ \A i \in 1 .. Len(a) + n :
                                    e[i] = IF i <= Len(a) THEN a[i] ELSE d[i - Len(a)]
  <2>1. /\ a \o d \in Seq(Tokens) /\ Len(a \o d) = Len(a) + Len(d)
        /\ \A i \in 1 .. Len(a) + Len(d) :
             (a \o d)[i] = IF i <= Len(a) THEN a[i] ELSE d[i - Len(a)]
    BY ConcatProperties
  <2>2. Len(d) = n
    BY <1>2
  <2> QED
    BY <2>1, <2>2
<1>4. PICK f \in Seq(Tokens) : /\ f = From(b, n + 1) /\ Len(f) = Len(b) - n
                               /\ \A i \in 1 .. Len(b) - n : f[i] = b[n + i]
  <2>1. /\ From(b, n + 1) \in Seq(Tokens) /\ Len(From(b, n + 1)) = Len(b) + 1 - (n + 1)
        /\ \A i \in 1 .. Len(b) + 1 - (n + 1) : From(b, n + 1)[i] = b[(n + 1) - 1 + i]
    BY <1>1, FromIs
  <2>2. Len(b) + 1 - (n + 1) = Len(b) - n /\ \A i \in 1 .. Len(b) - n : (n + 1) - 1 + i = n + i
    BY <1>1
  <2> QED
    BY <2>1, <2>2
<1>l. Len(e) = Len(a) + n /\ Len(f) = Len(b) - n
  BY <1>3, <1>4
<1>5. ASSUME NEW i \in 1 .. Len(e) PROVE e[i] = r[c + i]
  <2>1. CASE i <= Len(a)
    <3>1. i \in 1 .. Len(a) /\ i \in 1 .. Len(a) + n
      BY <2>1, <1>1, <1>3
    <3> QED
      BY <3>1, <2>1, <1>3 DEF Stream
  <2>2. CASE i > Len(a)
    <3>1. /\ i - Len(a) \in 1 .. n /\ i - Len(a) \in 1 .. Len(b) /\ i \in 1 .. Len(a) + n
          /\ c + Len(a) + (i - Len(a)) = c + i
      BY <2>2, <1>1, <1>3
    <3>2. e[i] = b[i - Len(a)]
      BY <3>1, <2>2, <1>1, <1>2, <1>3
    <3> QED
      BY <3>1, <3>2 DEF Stream
  <2> QED
    BY <2>1, <2>2, <1>1, <1>3
<1>6. ASSUME NEW i \in 1 .. Len(f) PROVE f[i] = r[c + Len(e) + i]
  <2>1. n + i \in 1 .. Len(b) /\ c + Len(a) + (n + i) = c + Len(e) + i /\ i \in 1 .. Len(b) - n
    BY <1>1, <1>l
  <2> QED
    BY <2>1, <1>4 DEF Stream
<1>7. Len(r) = c + Len(e) + Len(f)
  <2>1. Len(r) = c + Len(a) + Len(b)
    BY DEF Stream
  <2> QED
    BY <2>1, <1>1, <1>l
<1> QED
  BY <1>2, <1>3, <1>4, <1>5, <1>6, <1>7 DEF Stream

(* Dropping the first k tokens received consumes them. *)
LEMMA DropStream ==
  ASSUME NEW r \in Seq(Tokens), NEW a \in Seq(Tokens), NEW b \in Seq(Tokens), NEW c \in Nat,
         Stream(r, a, b, c), NEW k \in 0 .. Len(a)
  PROVE  Stream(r, From(a, k + 1), b, c + k)
<1>1. Len(a) \in Nat /\ Len(b) \in Nat /\ k \in Nat /\ k + 1 \in 1 .. Len(a) + 1
  OBVIOUS
<1>2. PICK d \in Seq(Tokens) : /\ d = From(a, k + 1) /\ Len(d) = Len(a) - k
                               /\ \A i \in 1 .. Len(a) - k : d[i] = a[k + i]
  <2>1. /\ From(a, k + 1) \in Seq(Tokens) /\ Len(From(a, k + 1)) = Len(a) + 1 - (k + 1)
        /\ \A i \in 1 .. Len(a) + 1 - (k + 1) : From(a, k + 1)[i] = a[(k + 1) - 1 + i]
    BY <1>1, FromIs
  <2>2. Len(a) + 1 - (k + 1) = Len(a) - k /\ \A i \in 1 .. Len(a) - k : (k + 1) - 1 + i = k + i
    BY <1>1
  <2> QED
    BY <2>1, <2>2
<1>3. ASSUME NEW i \in 1 .. Len(d) PROVE d[i] = r[(c + k) + i]
  <2>1. k + i \in 1 .. Len(a) /\ c + (k + i) = (c + k) + i /\ i \in 1 .. Len(a) - k
    BY <1>1, <1>2
  <2> QED
    BY <2>1, <1>2 DEF Stream
<1>4. \A i \in 1 .. Len(b) : (c + k) + Len(d) + i = c + Len(a) + i
  <2>1. Len(d) = Len(a) - k
    BY <1>2
  <2> QED
    BY <2>1, <1>1
<1>5. Len(r) = (c + k) + Len(d) + Len(b)
  BY <1>1, <1>2 DEF Stream
<1> QED
  BY <1>2, <1>3, <1>4, <1>5 DEF Stream

(* The status line is consumed with all before it. *)
LEMMA StatusStream ==
  ASSUME NEW r \in Seq(Tokens), NEW a \in Seq(Tokens), NEW b \in Seq(Tokens),
         Stream(r, a, b, 0), HasLine(a), StatusOf(a) = "200"
  PROVE  /\ OkFirst(r)
         /\ \E c \in Nat : /\ Stream(r, AfterStatus(a), b, c)
                           /\ WellBegun(r) => FirstLine(r, c)
<1>1. PICK i \in 1 .. Len(a), j \in 1 .. Len(a) :
        /\ OkWords(a, i, j) /\ From(a, j + 1) # <<>>
        /\ AfterStatus(a) = AfterLine(From(a, j + 1))
  BY StatusIs
<1>2. Len(a) \in Nat /\ Len(b) \in Nat /\ Len(r) = Len(a) + Len(b) /\ j + 1 \in 1 .. Len(a) + 1
  BY DEF Stream
<1>3. \A k \in 1 .. Len(a) : k \in 1 .. Len(r) /\ r[k] = a[k]
  <2>1. \A k \in 1 .. Len(a) : a[k] = r[0 + k] /\ 0 + k = k
    BY DEF Stream
  <2> QED
    BY <2>1, <1>2
<1>4. i < j /\ a[i] = "HTTP/" /\ a[j] = "200" /\ \A k \in 1 .. j - 1 : k = i \/ a[k] = CRLF
  BY <1>1 DEF OkWords
<1>w. i \in DOMAIN r /\ j \in DOMAIN r /\ OkWords(r, i, j)
  <2>1. i \in DOMAIN r /\ j \in DOMAIN r /\ \A k \in 1 .. j - 1 : k \in 1 .. Len(a)
    BY <1>2, <1>3
  <2> QED
    BY <2>1, <1>3, <1>4 DEF OkWords
<1>5. OkFirst(r)
  BY <1>w DEF OkFirst
<1>6. PICK d \in Seq(Tokens) : /\ d = From(a, j + 1) /\ Len(d) = Len(a) - j
                               /\ \A n \in 1 .. Len(a) - j : d[n] = a[j + n]
  <2>1. /\ From(a, j + 1) \in Seq(Tokens) /\ Len(From(a, j + 1)) = Len(a) + 1 - (j + 1)
        /\ \A n \in 1 .. Len(a) + 1 - (j + 1) : From(a, j + 1)[n] = a[(j + 1) - 1 + n]
    BY <1>2, FromIs
  <2>2. Len(a) + 1 - (j + 1) = Len(a) - j /\ \A n \in 1 .. Len(a) - j : (j + 1) - 1 + n = j + n
    BY <1>2
  <2>3. /\ Len(From(a, j + 1)) = Len(a) - j
        /\ \A n \in 1 .. Len(a) - j : From(a, j + 1)[n] = a[j + n]
    BY <2>1, <2>2
  <2> QED
    BY <2>1, <2>3
<1>len. Len(d) = Len(a) - j
  BY <1>6
<1>7. CASE HasLine(d)
  <2>1. PICK m \in 1 .. Len(d) : /\ d[m] = CRLF /\ \A n \in 1 .. m - 1 : d[n] # CRLF
                                 /\ AfterLine(d) = From(d, m + 1)
    BY <1>7, AfterLineIs
  <2>2. PICK c \in Nat : c = j + m
    BY <1>2
  <2>3. /\ c \in 0 .. Len(a) /\ c \in 1 .. Len(a) /\ m + 1 \in 1 .. Len(a) + 2 - (j + 1)
        /\ (j + 1) + (m + 1) - 1 = c + 1
    BY <1>2, <1>len, <2>2
  <2>4. AfterStatus(a) = From(a, c + 1)
    <3>1. From(From(a, j + 1), m + 1) = From(a, (j + 1) + (m + 1) - 1)
      BY <2>3, <1>2, FromFrom
    <3> QED
      BY <3>1, <2>1, <2>3, <1>1, <1>6
  <2>5. Stream(r, AfterStatus(a), b, 0 + c)
    BY <2>3, <2>4, DropStream
  <2>6. ASSUME WellBegun(r) PROVE FirstLine(r, c)
    <3>1. m \in 1 .. Len(a) - j /\ c - j = m
      BY <1>len, <1>2, <2>2
    <3>2. a[c] = CRLF
      BY <3>1, <2>1, <2>2, <1>6
    <3>3. ASSUME NEW k \in j + 1 .. c - 1 PROVE a[k] # CRLF
      <4>1. k - j \in 1 .. m - 1 /\ k - j \in 1 .. Len(a) - j /\ j + (k - j) = k
        BY <3>1
      <4> QED
        BY <4>1, <2>1, <1>6
    <3>4. ASSUME NEW k \in 1 .. c, IsBlank(r, k) PROVE FALSE
      <4>1. k > j
        <5>1. \A x \in 1 .. j : ~IsBlank(r, x)
          BY <1>w, <2>6 DEF WellBegun
        <5> QED
          BY <5>1, <3>4
      <4>2. k \in 1 .. Len(a) /\ k - 1 \in 1 .. Len(a)
        BY <4>1, <2>3
      <4>3. a[k] = CRLF /\ a[k - 1] = CRLF
        BY <4>2, <3>4, <1>3 DEF IsBlank
      <4>4. k = c
        BY <4>1, <4>3, <3>3
      <4>5. k - 1 = j
        BY <4>1, <4>3, <4>4, <3>3
      <4> QED
        BY <4>3, <4>5, <1>4 DEF CRLF
    <3>5. c \in 1 .. Len(r) /\ r[c] = CRLF
      BY <3>2, <2>3, <1>3
    <3> QED
      BY <3>4, <3>5 DEF FirstLine
  <2>7. 0 + c = c
    OBVIOUS
  <2> QED
    BY <1>5, <2>5, <2>6, <2>7
<1>8. CASE ~HasLine(d)
  <2>1. AfterStatus(a) = <<>>
    <3>1. \A k \in DOMAIN d : d[k] # CRLF
      BY <1>8 DEF HasLine
    <3> QED
      BY <3>1, <1>1, <1>6 DEF AfterLine
  <2>2. From(a, Len(a) + 1) = <<>>
    <3>1. Len(a) + 1 \in 1 .. Len(a) + 1 /\ Len(a) + 1 - (Len(a) + 1) = 0
      BY <1>2
    <3>2. From(a, Len(a) + 1) \in Seq(Tokens) /\ Len(From(a, Len(a) + 1)) = 0
      BY <3>1, FromIs
    <3> QED
      BY <3>2
  <2>3. Stream(r, AfterStatus(a), b, 0 + Len(a))
    BY <2>1, <2>2, <1>2, DropStream
  <2>4. ~WellBegun(r)
    <3> SUFFICES ASSUME WellBegun(r) PROVE FALSE
      OBVIOUS
    <3>1. 1 \in 1 .. Len(a) - j /\ j + 1 \in 1 .. Len(a)
      <4>1. Len(d) # 0
        BY <1>1, <1>6
      <4> QED
        BY <4>1, <1>len, <1>2
    <3>2. d[1] = a[j + 1] /\ 1 \in 1 .. Len(d)
      BY <3>1, <1>6
    <3>3. a[j + 1] # CRLF
      BY <3>2, <1>8 DEF HasLine
    <3>4. j = 2
      <4>1. j + 1 \in DOMAIN r /\ r[j + 1] = a[j + 1] /\ j # Len(r)
        BY <3>1, <1>2, <1>3
      <4> QED
        BY <4>1, <3>3, <1>w DEF WellBegun
    <3>5. PICK k \in 1 .. Len(a) : a[k] = CRLF
      BY DEF HasLine
    <3>6. i = 1
      BY <3>4, <1>4
    <3>7. k # 1 /\ k # 2
      BY <3>4, <3>5, <3>6, <1>4 DEF CRLF
    <3>8. k - 2 \in 1 .. Len(a) - j /\ j + (k - 2) = k
      BY <3>4, <3>7, <1>2
    <3>9. k - 2 \in 1 .. Len(d) /\ d[k - 2] = CRLF
      BY <3>5, <3>8, <1>6
    <3> QED
      BY <3>9, <1>8 DEF HasLine
  <2>5. 0 + Len(a) = Len(a)
    BY <1>2
  <2> QED
    BY <1>5, <2>3, <2>4, <2>5, <1>2
<1> QED
  BY <1>7, <1>8

(* The first empty line that is left ends the headers; it is the answer's first blank line
   if what is consumed is up to the first CRLF. *)
LEMMA HeadersStream ==
  ASSUME NEW r \in Seq(Tokens), NEW a \in Seq(Tokens), NEW b \in Seq(Tokens), NEW c \in Nat,
         Stream(r, a, b, c), HasBlank(a)
  PROVE  \E e \in Nat : /\ Stream(r, AfterHeaders(a), b, e)
                        /\ FirstLine(r, c) => FirstBlank(r, e)
<1>1. PICK k \in 1 .. Len(a) : /\ IsCut(a, k) /\ \A j \in 1 .. k - 1 : ~IsCut(a, j)
                               /\ AfterHeaders(a) = From(a, k + 1)
  BY AfterHeadersIs
<1>2. Len(a) \in Nat /\ Len(b) \in Nat /\ Len(r) = c + Len(a) + Len(b) /\ k \in 0 .. Len(a)
  BY DEF Stream
<1>3. Stream(r, AfterHeaders(a), b, c + k)
  BY <1>1, <1>2, DropStream
<1>4. ASSUME FirstLine(r, c) PROVE FirstBlank(r, c + k)
  <2>1. r[c + k] = CRLF /\ r[c + k - 1] = CRLF
    <3>1. a[k] = CRLF /\ a[k] = r[c + k]
      BY <1>1 DEF IsCut, Stream
    <3>2. CASE k = 1
      <4>1. c + k - 1 = c
        BY <3>2
      <4> QED
        BY <3>1, <4>1, <1>4 DEF FirstLine
    <3>3. CASE k # 1
      <4>1. k - 1 \in 1 .. Len(a) /\ c + (k - 1) = c + k - 1
        BY <3>3, <1>2
      <4>2. a[k - 1] = CRLF
        BY <3>3, <1>1 DEF IsCut
      <4> QED
        BY <3>1, <4>1, <4>2 DEF Stream
    <3> QED
      BY <3>2, <3>3
  <2>2. c + k \in 1 .. Len(r) /\ c + k > 1
    BY <1>2, <1>4 DEF FirstLine
  <2>3. ASSUME NEW j \in 1 .. c + k - 1, IsBlank(r, j) PROVE FALSE
    <3>1. j > 1 /\ r[j] = CRLF /\ r[j - 1] = CRLF
      BY <2>3 DEF IsBlank
    <3>2. j - 1 >= c
      <4>1. j <= c => j \in 1 .. c
        BY <3>1
      <4> QED
        BY <4>1, <2>3, <1>4 DEF FirstLine
    <3>3. PICK i \in 1 .. k - 1 : j = c + i /\ i \in 1 .. Len(a) /\ j - 1 = c + (i - 1)
      <4>1. j - c \in 1 .. k - 1 /\ j = c + (j - c) /\ j - c \in 1 .. Len(a)
            /\ j - 1 = c + ((j - c) - 1)
        BY <3>1, <3>2, <1>2
      <4> QED
        BY <4>1
    <3>4. a[i] = CRLF
      BY <3>1, <3>3 DEF Stream
    <3>5. i # 1 => a[i - 1] = CRLF
      <4>1. i # 1 => i - 1 \in 1 .. Len(a)
        BY <3>3
      <4> QED
        BY <4>1, <3>1, <3>3 DEF Stream
    <3> QED
      BY <3>4, <3>5, <1>1 DEF IsCut
  <2> QED
    BY <2>1, <2>2, <2>3 DEF FirstBlank, IsBlank
<1>5. c + k \in Nat
  OBVIOUS
<1> QED
  BY <1>3, <1>4, <1>5

(* All that is left at the end of the stream is the content. *)
LEMMA ContentStream ==
  ASSUME NEW r \in Seq(Tokens), NEW a \in Seq(Tokens), NEW c \in Nat,
         Stream(r, a, <<>>, c), FirstBlank(r, c)
  PROVE  a = Content(r)
<1>1. Len(a) \in Nat /\ Len(r) = c + Len(a) /\ c \in 1 .. Len(r) /\ c + 1 \in 1 .. Len(r) + 1
  <2>1. Len(<<>>) = 0 /\ Len(a) \in Nat
    OBVIOUS
  <2> QED
    BY <2>1 DEF Stream, FirstBlank
<1>2. First(Len(r), LAMBDA k : IsBlank(r, k)) = c
  <2> DEFINE Q(k) == IsBlank(r, k)
             x == CHOOSE k \in 1 .. Len(r) : Q(k) /\ \A j \in 1 .. k - 1 : ~Q(j)
  <2>1. Q(c) /\ \A j \in 1 .. c - 1 : ~Q(j)
    BY DEF FirstBlank
  <2>2. x \in 1 .. Len(r) /\ Q(x) /\ \A j \in 1 .. x - 1 : ~Q(j)
    <3> HIDE DEF Q
    <3> QED
      BY <2>1, <1>1
  <2>3. x = c
    <3> HIDE DEF Q, x
    <3>1. x < c => x \in 1 .. c - 1
      BY <2>2, <1>1
    <3>2. c < x => c \in 1 .. x - 1
      BY <2>2, <1>1
    <3> QED
      BY <3>1, <3>2, <2>1, <2>2, <1>1
  <2> QED
    BY <2>3 DEF First
<1>3. Content(r) = From(r, c + 1)
  BY <1>2 DEF Content
<1>4. /\ From(r, c + 1) \in Seq(Tokens) /\ Len(From(r, c + 1)) = Len(r) + 1 - (c + 1)
      /\ \A i \in 1 .. Len(r) + 1 - (c + 1) : From(r, c + 1)[i] = r[(c + 1) - 1 + i]
  BY <1>1, FromIs
<1>5. Len(r) + 1 - (c + 1) = Len(a)
  BY <1>1
<1>6. \A i \in 1 .. Len(a) : From(r, c + 1)[i] = a[i]
  <2>1. \A i \in 1 .. Len(a) : (c + 1) - 1 + i = c + i /\ a[i] = r[c + i]
    BY <1>1 DEF Stream
  <2> QED
    BY <2>1, <1>4, <1>5
<1> QED
  BY <1>3, <1>4, <1>5, <1>6, SeqEqual

-----------------------------------------------------------------------------
(***************************************************************************)
(* Every step keeps the stream of the session it is of, and no other's.    *)
(***************************************************************************)
Same(t) ==
  /\ op'[t] = op[t] /\ net'[t] = net[t] /\ response_'[t] = response_[t]
  /\ calls'[t] = calls[t] /\ answer'[t] = answer[t]

LEMMA SameStream ==
  ASSUME NEW t \in Session, StreamOf(t), Same(t), asked \subseteq asked'
  PROVE  StreamOf(t)'
<1>1. (t \notin asked')  => response_'[t] = <<>>
  BY DEF StreamOf, Same
<1>2. ASSUME op'[t] # "none" PROVE Reading(t)'
  <2>1. Reading(t)
    BY <1>2 DEF StreamOf, Same
  <2>2. PICK c \in Nat : /\ Stream(answer[t], response_[t], net[t], c)
                         /\ Consumed(answer[t], op[t], c)
    BY <2>1 DEF Reading
  <2>3. /\ Stream(answer'[t], response_'[t], net'[t], c)
        /\ Consumed(answer'[t], op'[t], c) /\ answer'[t] \in Responses
    BY <2>1, <2>2 DEF Same, Reading
  <2> QED
    BY <2>3 DEF Reading
<1>3. ASSUME calls'[t] # <<>> PROVE CalledBack(t)'
  <2>1. CalledBack(t)
    BY <1>3 DEF StreamOf, Same
  <2> QED
    BY <2>1 DEF Same, CalledBack
<1> QED
  BY <1>1, <1>2, <1>3 DEF StreamOf

LEMMA StepStream ==
  ASSUME StreamInv, NEW s \in Session, StreamOf(s)',
         answer' \in [Session -> Responses \cup {<<>>}], asked \subseteq asked',
         \A t \in Session : t # s => Same(t)
  PROVE  StreamInv'
<1>1. \A t \in Session : StreamOf(t)'
  <2> TAKE t \in Session
  <2>1. CASE t = s
    BY <2>1
  <2>2. CASE t # s
    BY <2>2, SameStream DEF StreamInv
  <2> QED
    BY <2>1, <2>2
<1> QED
  BY <1>1 DEF StreamInv

LEMMA StreamInit == Init => StreamInv
<1> SUFFICES ASSUME Init PROVE StreamInv
  OBVIOUS
<1>1. \A s \in Session : StreamOf(s)
  BY DEF Init, StreamOf
<1> QED
  BY <1>1 DEF Init, StreamInv

(* The session asked for has received nothing of its answer. *)
LEMMA RequestStream ==
  ASSUME SessionInv, StreamInv, NEW s \in Session, HttpRequest(s)
  PROVE  StreamInv'
<1> USE DEF HttpRequest
<1>1. calls[s] = <<>> /\ s \notin asked /\ response_[s] = <<>>
  BY DEF SessionInv, CallbackOnce, StreamInv, StreamOf
<1>2. PICK r \in Responses :
        net' = [net EXCEPT ![s] = r] /\ answer' = [answer EXCEPT ![s] = r]
  OBVIOUS
<1>3. /\ op'[s] = "resolve" /\ net'[s] = r /\ answer'[s] = r
      /\ response_'[s] = <<>> /\ calls'[s] = <<>> /\ s \in asked'
  BY <1>1, <1>2 DEF SessionInv, TypeOK, Streams, StreamInv
<1>4. \A t \in Session : t # s => Same(t)
  BY <1>2 DEF SessionInv, TypeOK, Streams, StreamInv, Same
<1>5. Stream(r, <<>>, r, 0)
  <2>1. Len(r) \in Nat /\ Len(<<>>) = 0
    BY AnswerType
  <2> QED
    BY <2>1 DEF Stream
<1>6. Consumed(r, "resolve", 0)
  BY DEF Consumed
<1>7. Reading(s)'
  BY <1>3, <1>5, <1>6 DEF Reading
<1>8. StreamOf(s)'
  BY <1>3, <1>7 DEF StreamOf
<1>9. answer' \in [Session -> Responses \cup {<<>>}]
  BY <1>2 DEF StreamInv
<1> QED
  BY <1>4, <1>8, <1>9, StepStream

(* A handler that starts next and does not call back leaves the stream of its session. *)
LEMMA NextStream ==
  ASSUME SessionInv, StreamInv, NEW s \in Session, op[s] # "none",
         NEW next, op' = [op EXCEPT ![s] = next], UNCHANGED <<calls, answer, asked>>,
         \A t \in Session : t # s => net'[t] = net[t] /\ response_'[t] = response_[t],
         next # "none" => \E c \in Nat : /\ Stream(answer[s], response_'[s], net'[s], c)
                                         /\ Consumed(answer[s], next, c)
  PROVE  StreamInv'
<1>1. s \in asked /\ calls[s] = <<>> /\ answer[s] \in Responses
  BY DEF SessionInv, TypeOK, Alive, CallbackOnce, StreamInv, StreamOf, Reading
<1>2. op'[s] = next /\ \A t \in Session : t # s => op'[t] = op[t]
  BY DEF SessionInv, TypeOK
<1>3. \A t \in Session : t # s => Same(t)
  BY <1>2 DEF Same
<1>4. ASSUME next # "none" PROVE Reading(s)'
  <2>1. PICK c \in Nat : /\ Stream(answer[s], response_'[s], net'[s], c)
                         /\ Consumed(answer[s], next, c)
    BY <1>4
  <2>2. /\ Stream(answer'[s], response_'[s], net'[s], c)
        /\ Consumed(answer'[s], op'[s], c) /\ answer'[s] \in Responses
    BY <1>1, <1>2, <2>1
  <2> QED
    BY <2>2 DEF Reading
<1>5. StreamOf(s)'
  BY <1>1, <1>2, <1>4 DEF StreamOf
<1>6. answer' \in [Session -> Responses \cup {<<>>}]
  BY DEF StreamInv
<1> QED
  BY <1>3, <1>5, <1>6, StepStream

(* What a session that is reading knows of its stream. *)
LEMMA ReadingStream ==
  ASSUME SessionInv, StreamInv, NEW s \in Session, op[s] # "none"
  PROVE  /\ answer[s] \in Responses /\ answer[s] \in Seq(Tokens)
         /\ response_[s] \in Seq(Tokens) /\ net[s] \in Seq(Tokens)
         /\ \E c \in Nat : /\ Stream(answer[s], response_[s], net[s], c)
                           /\ Consumed(answer[s], op[s], c)
<1>1. Reading(s)
  BY DEF StreamInv, StreamOf
<1>2. answer[s] \in Responses
  BY <1>1 DEF Reading
<1> QED
  BY <1>1, <1>2, AnswerType DEF Reading, SessionInv, Streams

LEMMA HandlerStream ==
  ASSUME SessionInv, StreamInv, NEW s \in Session,
         handle_resolve(s) \/ handle_connect(s) \/ handle_write_request(s)
           \/ EofTooEarly(s) \/ HandleError(s)
  PROVE  StreamInv'
<1>1. /\ op[s] # "none" /\ UNCHANGED <<net, response_, calls, answer, asked>>
      /\ \E next \in {"none", "connect", "write", "status"} :
           /\ op' = [op EXCEPT ![s] = next]
           /\ next # "none" => op[s] \in {"resolve", "connect", "write"}
  BY DEF handle_resolve, handle_connect, handle_write_request, EofTooEarly, HandleError, Starts
<1>2. PICK next \in {"none", "connect", "write", "status"} :
        /\ op' = [op EXCEPT ![s] = next]
        /\ next # "none" => op[s] \in {"resolve", "connect", "write"}
  BY <1>1
<1>3. PICK c \in Nat : /\ Stream(answer[s], response_[s], net[s], c)
                       /\ Consumed(answer[s], op[s], c)
  BY <1>1, ReadingStream
<1>4. next # "none" => c = 0
  BY <1>2, <1>3 DEF Consumed
<1>5. next # "none" => Consumed(answer[s], next, 0)
  BY <1>2 DEF Consumed
<1> QED
  BY <1>1, <1>2, <1>3, <1>4, <1>5, NextStream

LEMMA ArriveStream ==
  ASSUME SessionInv, StreamInv, NEW s \in Session, Arrive(s)
  PROVE  StreamInv'
<1> PICK n \in 1 .. Longest : Receive(s, n) \/ ReadOn(s, n)
  BY DEF Arrive
<1>1. /\ Take(s, n) /\ op[s] # "none" /\ UNCHANGED <<calls, answer, asked>>
      /\ op' = [op EXCEPT ![s] = op[s]]
  BY DEF Receive, ReadOn, Starts, SessionInv, TypeOK
<1>2. PICK c \in Nat : /\ Stream(answer[s], response_[s], net[s], c)
                       /\ Consumed(answer[s], op[s], c)
  BY <1>1, ReadingStream
<1>3. /\ response_'[s] = response_[s] \o SubSeq(net[s], 1, n)
      /\ net'[s] = From(net[s], n + 1) /\ n \in 1 .. Len(net[s])
      /\ \A t \in Session : t # s => net'[t] = net[t] /\ response_'[t] = response_[t]
  BY <1>1 DEF Take, SessionInv, Streams
<1>4. Stream(answer[s], response_'[s], net'[s], c)
  BY <1>1, <1>2, <1>3, ReadingStream, TakeStream
<1> QED
  BY <1>1, <1>2, <1>3, <1>4, NextStream

LEMMA StatusLineStream ==
  ASSUME SessionInv, StreamInv, NEW s \in Session, handle_read_status_line(s)
  PROVE  StreamInv'
<1> DEFINE r == answer[s]
           a == response_[s]
<1>1. /\ op[s] = "status" /\ HasLine(a) /\ UNCHANGED <<net, calls, answer, asked>>
  BY DEF handle_read_status_line, Satisfied
<1>2. /\ r \in Responses /\ r \in Seq(Tokens) /\ a \in Seq(Tokens) /\ net[s] \in Seq(Tokens)
      /\ Stream(r, a, net[s], 0)
  BY <1>1, ReadingStream DEF Consumed
<1>3. CASE StatusOf(a) = "200"
  <2>1. /\ response_' = [response_ EXCEPT ![s] = AfterStatus(a)]
        /\ op' = [op EXCEPT ![s] = "headers"]
    BY <1>3 DEF handle_read_status_line, Starts
  <2>2. response_'[s] = AfterStatus(a) /\ \A t \in Session : t # s => response_'[t] = response_[t]
    BY <2>1 DEF SessionInv, Streams
  <2>3. OkFirst(r) /\ \E c \in Nat :
          /\ Stream(r, AfterStatus(a), net[s], c)
          /\ WellBegun(r) => FirstLine(r, c)
    <3> HIDE DEF r, a
    <3> QED
      BY <1>1, <1>2, <1>3, StatusStream
  <2>4. PICK c \in Nat :
          /\ Stream(r, AfterStatus(a), net[s], c)
          /\ WellBegun(r) => FirstLine(r, c)
    BY <2>3
  <2>5. Consumed(r, "headers", c)
    BY <1>2, <2>3, <2>4 DEF Consumed
  <2> QED
    BY <1>1, <2>1, <2>2, <2>4, <2>5, NextStream
<1>4. CASE StatusOf(a) # "200"
  <2>1. op' = [op EXCEPT ![s] = "none"] /\ response_' = response_
    BY <1>4 DEF handle_read_status_line, Starts
  <2> QED
    BY <1>1, <2>1, NextStream
<1> QED
  BY <1>3, <1>4

LEMMA HeaderLinesStream ==
  ASSUME SessionInv, StreamInv, NEW s \in Session, handle_read_headers(s)
  PROVE  StreamInv'
<1> DEFINE r == answer[s]
           a == response_[s]
<1>1. /\ op[s] = "headers" /\ HasBlank(a) /\ UNCHANGED <<net, calls, answer, asked>>
      /\ response_' = [response_ EXCEPT ![s] = AfterHeaders(a)]
      /\ op' = [op EXCEPT ![s] = "content"]
  BY DEF handle_read_headers, Satisfied, Starts
<1>2. /\ r \in Seq(Tokens) /\ a \in Seq(Tokens) /\ net[s] \in Seq(Tokens)
      /\ \E c \in Nat : Stream(r, a, net[s], c) /\ Consumed(r, "headers", c)
  BY <1>1, ReadingStream
<1>3. response_'[s] = AfterHeaders(a) /\ \A t \in Session : t # s => response_'[t] = response_[t]
  BY <1>1 DEF SessionInv, Streams
<1>4. PICK c \in Nat : Stream(r, a, net[s], c) /\ Consumed(r, "headers", c)
  BY <1>2
<1>5. PICK e \in Nat : /\ Stream(r, AfterHeaders(a), net[s], e)
                       /\ FirstLine(r, c) => FirstBlank(r, e)
  <2> HIDE DEF r, a
  <2> QED
    BY <1>1, <1>2, <1>4, HeadersStream
<1>6. Consumed(r, "content", e)
  BY <1>4, <1>5 DEF Consumed
<1> QED
  BY <1>1, <1>3, <1>5, <1>6, NextStream

(* What is called back is what is left when all has come. *)
LEMMA ContentReadStream ==
  ASSUME SessionInv, StreamInv, NEW s \in Session, ContentRead(s)
  PROVE  StreamInv'
<1> DEFINE r == answer[s]
           a == response_[s]
<1>1. /\ op[s] = "content" /\ net[s] = <<>> /\ UNCHANGED <<net, answer, asked>>
      /\ op' = [op EXCEPT ![s] = "none"]
  BY DEF ContentRead, Starts
<1>2. CASE TooLong(a)
  <2>1. UNCHANGED <<response_, calls>>
    BY <1>2 DEF ContentRead
  <2> QED
    BY <1>1, <2>1, NextStream
<1>3. CASE ~TooLong(a)
  <2>1. /\ response_' = [response_ EXCEPT ![s] = <<>>]
        /\ calls' = [calls EXCEPT ![s] = Append(@, a)]
    BY <1>3 DEF ContentRead
  <2>2. /\ r \in Responses /\ r \in Seq(Tokens) /\ a \in Seq(Tokens)
        /\ \E c \in Nat : Stream(r, a, <<>>, c) /\ Consumed(r, "content", c)
    BY <1>1, ReadingStream
  <2>3. PICK c \in Nat : Stream(r, a, <<>>, c) /\ Consumed(r, "content", c)
    BY <2>2
  <2>4. OkFirst(r)
    BY <2>3 DEF Consumed
  <2>5. WellBegun(r) => FirstBlank(r, c)
    BY <2>3 DEF Consumed
  <2>6. WellBegun(r) => a = Content(r)
    <3> HIDE DEF r, a
    <3> QED
      BY <2>2, <2>3, <2>5, ContentStream
  <2>7. calls[s] = <<>>
    BY <1>1 DEF SessionInv, CallbackOnce
  <2>8. Append(<<>>, a) = <<a>>
    OBVIOUS
  <2>9. calls'[s] = <<a>> /\ op'[s] = "none" /\ response_'[s] = <<>> /\ answer'[s] = r
    BY <1>1, <2>1, <2>7, <2>8 DEF SessionInv, TypeOK, Streams
  <2>10. CalledBack(s)'
    BY <2>2, <2>4, <2>6, <2>9 DEF CalledBack
  <2>11. StreamOf(s)'
    BY <2>9, <2>10 DEF StreamOf
  <2>12. \A t \in Session : t # s => Same(t)
    BY <1>1, <2>1 DEF Same, SessionInv, TypeOK, Streams
  <2>13. answer' \in [Session -> Responses \cup {<<>>}] /\ asked \subseteq asked'
    BY <1>1 DEF StreamInv
  <2> QED
    BY <2>11, <2>12, <2>13, StepStream
<1> QED
  BY <1>2, <1>3

LEMMA StreamInvariant == Spec => [](SessionInv /\ StreamInv)
<1>1. SessionInv /\ StreamInv /\ [Next]_vars => StreamInv'
  <2> SUFFICES ASSUME SessionInv, StreamInv, [Next]_vars PROVE StreamInv'
    OBVIOUS
  <2>1. ASSUME NEW s \in Session, HttpRequest(s) \/ Handler(s) \/ Arrive(s) \/ HandleError(s)
        PROVE  StreamInv'
    <3>1. CASE Handler(s)
      BY <3>1, HandlerStream, StatusLineStream, HeaderLinesStream, ContentReadStream DEF Handler
    <3> QED
      BY <2>1, <3>1, RequestStream, ArriveStream, HandlerStream
  <2>2. CASE UNCHANGED vars
    <3>1. \A t \in Session : Same(t) /\ asked \subseteq asked'
      BY <2>2 DEF vars, Same
    <3>2. \A t \in Session : StreamOf(t)'
      BY <3>1, SameStream DEF StreamInv
    <3> QED
      BY <2>2, <3>2 DEF StreamInv, vars
  <2> QED
    BY <2>1, <2>2 DEF Next
<1> QED
  BY SessionInvariant, StreamInit, <1>1, PTL DEF Spec

(* However the stream is cut, no callback is made for an answer whose first two words are
   not HTTP/ and 200: the status line's handler lets nothing else pass, and no other step
   leads to the callback (http_session.cpp:105-138). *)
THEOREM SessionOnlyOk == Spec => []OnlyOkIsCalledBack
<1>1. StreamInv => OnlyOkIsCalledBack
  BY DEF StreamInv, StreamOf, CalledBack, OnlyOkIsCalledBack
<1> QED
  BY <1>1, StreamInvariant, PTL

(* From servers whose answers are well begun, a session calls back with the
   content, all that follows the first blank line, and with nothing else, however the
   stream is cut, and only when it is short enough, all of it has come, and nothing has
   failed (http_session.cpp:105-212). *)
THEOREM SessionContentRight ==
  ASSUME \A r \in Responses : WellBegun(r)
  PROVE  Spec => []CallbackIsTheContent
<1>1. SessionInv /\ StreamInv => CallbackIsTheContent
  <2> SUFFICES ASSUME SessionInv, StreamInv, NEW s \in Session, calls[s] # <<>>
               PROVE  /\ calls[s] = <<Content(answer[s])>> /\ Short(answer[s])
                      /\ net[s] = <<>> /\ op[s] = "none" /\ ~broken[s]
    BY DEF CallbackIsTheContent
  <2>1. calls[s] = <<Content(answer[s])>>
    BY DEF StreamInv, StreamOf, CalledBack
  <2>2. /\ Len(calls[s][1]) < kRecvBufMaxSize
        /\ op[s] = "none" /\ net[s] = <<>> /\ ~broken[s]
    BY DEF SessionInv, CallbackOnce
  <2>3. calls[s][1] = Content(answer[s])
    BY <2>1
  <2> QED
    BY <2>1, <2>2, <2>3 DEF Short
<1> QED
  BY <1>1, StreamInvariant, PTL
=============================================================================

------------------------- MODULE HttpRequest_proofs -------------------------
(***************************************************************************)
(* Theorems about HttpRequest for any size of the blob, of the contents    *)
(* and of the answers, and any number of requests on one handle.           *)
(***************************************************************************)
EXTENDS HttpRequest, SequenceTheorems, TLAPS

(***************************************************************************)
(* The inductive invariant.  While a request is in curl, the blob is what  *)
(* has arrived of its own answer, without a gap: for that the loop of Push *)
(* must never get past its condition, since the chunk that Realloc cannot  *)
(* make room for would be lost.  It does not, because halving starts from  *)
(* a size that is too small already.                                       *)
(***************************************************************************)
Prefix(id, n) == [k \in 1 .. n |-> <<id, k>>]

Arrived == pc \in {"perform", "grow"} => blob = Prefix(job.id, arrived)

LoopStays == pc = "grow" => /\ newSize < chunk + use_size_
                            /\ chunk \in Nat /\ arrived + chunk <= answer.size

Freed == freed \subseteq 1 .. job.id

Unused == pc = "new" => ~result

SizeFits == fieldsSize = fields.size

AnswerOK == answer \in [size : Nat, kind : Kinds] /\ blob \in Seq(Nat \X Nat)

HandleInv ==
  /\ TypeOK /\ Arrived /\ LoopStays /\ Freed /\ Unused /\ SizeFits /\ AnswerOK
  /\ TrueMeansThisAnswer /\ PostIsOneContent

LEMMA PrefixSeq ==
  ASSUME NEW id \in Nat, NEW n \in Nat
  PROVE  /\ Prefix(id, n) \in Seq(Nat \X Nat) /\ Len(Prefix(id, n)) = n
         /\ \A k \in 1 .. n : Prefix(id, n)[k] = <<id, k>>
<1>1. Prefix(id, n) \in [1 .. n -> Nat \X Nat]
  BY DEF Prefix
<1>2. Prefix(id, n) \in Seq(Nat \X Nat)
  BY <1>1, SeqDef
<1>3. Len(Prefix(id, n)) = n
  BY <1>1, <1>2, LenProperties
<1> QED
  BY <1>2, <1>3 DEF Prefix

(* Appending the next n bytes of an answer to its first a gives its first a + n. *)
LEMMA PrefixGrows ==
  ASSUME job.id \in Nat, arrived \in Nat, blob = Prefix(job.id, arrived), NEW n \in Nat
  PROVE  Appended(n) = Prefix(job.id, arrived + n)
<1>1. /\ Bytes(n) \in Seq(Nat \X Nat) /\ Len(Bytes(n)) = n
      /\ \A k \in 1 .. n : Bytes(n)[k] = <<job.id, arrived + k>>
  <2>1. Bytes(n) \in [1 .. n -> Nat \X Nat]
    BY DEF Bytes
  <2>2. Bytes(n) \in Seq(Nat \X Nat)
    BY <2>1, SeqDef
  <2>3. Len(Bytes(n)) = n
    BY <2>1, <2>2, LenProperties
  <2> QED
    BY <2>2, <2>3 DEF Bytes
<1>2. /\ blob \in Seq(Nat \X Nat) /\ Len(blob) = arrived
      /\ \A k \in 1 .. arrived : blob[k] = <<job.id, k>>
  BY PrefixSeq
<1>3. /\ Appended(n) \in Seq(Nat \X Nat) /\ Len(Appended(n)) = arrived + n
      /\ \A k \in 1 .. arrived + n :
           Appended(n)[k] = IF k <= arrived THEN blob[k] ELSE Bytes(n)[k - arrived]
  <2>1. /\ blob \o Bytes(n) \in Seq(Nat \X Nat)
        /\ Len(blob \o Bytes(n)) = Len(blob) + Len(Bytes(n))
        /\ \A k \in 1 .. Len(blob) + Len(Bytes(n)) :
             (blob \o Bytes(n))[k] = IF k <= Len(blob) THEN blob[k] ELSE Bytes(n)[k - Len(blob)]
    BY <1>1, <1>2, ConcatProperties
  <2> QED
    BY <1>1, <1>2, <2>1 DEF Appended
<1>4. /\ Prefix(job.id, arrived + n) \in Seq(Nat \X Nat)
      /\ Len(Prefix(job.id, arrived + n)) = arrived + n
      /\ \A k \in 1 .. arrived + n : Prefix(job.id, arrived + n)[k] = <<job.id, k>>
  <2>1. arrived + n \in Nat
    OBVIOUS
  <2> QED
    BY <2>1, PrefixSeq
<1>5. ASSUME NEW k \in 1 .. arrived + n
      PROVE  Appended(n)[k] = Prefix(job.id, arrived + n)[k]
  <2>1. CASE k <= arrived
    <3>1. k \in 1 .. arrived
      BY <2>1
    <3> QED
      BY <1>2, <1>3, <1>4, <2>1, <3>1
  <2>2. CASE ~(k <= arrived)
    <3>1. k - arrived \in 1 .. n /\ arrived + (k - arrived) = k
      BY <2>2
    <3> QED
      BY <1>1, <1>3, <1>4, <2>2, <3>1
  <2> QED
    BY <2>1, <2>2
<1> QED
  BY <1>3, <1>4, <1>5, SeqEqual
-----------------------------------------------------------------------------
LEMMA InitInv == Init => HandleInv
<1> SUFFICES ASSUME Init PROVE HandleInv
  OBVIOUS
<1>1. blob \in Seq(Nat \X Nat) /\ Len(blob) = 0
  BY EmptySeq DEF Init
<1>2. TypeOK
  <2>1. use_size_ = 0 /\ answer.size = 0 /\ job.id = 0
    BY <1>1 DEF Init, NoJob, use_size_
  <2>2. job \in [id : 0 .. MaxJobs, size : Contents \cup {0}]
    BY RequestAssumption DEF Init, NoJob
  <2> QED
    <3>1. /\ pc = "new" /\ freed = {} /\ content_type_ = 0 /\ fieldsSize = 0
          /\ arrived = 0 /\ buff_size_ = DefaultBuffSize /\ newSize = 0
          /\ json = "null"
      BY DEF Init
    <3>2. result \in BOOLEAN
      BY DEF Init
    <3>3. fields = NoJob /\ fields \in [id : 0 .. job.id, size : Contents \cup {0}]
      BY DEF Init, NoJob
    <3> QED
      BY <3>2, <3>3, <2>1, <2>2, <3>1, RequestAssumption DEF TypeOK
<1> QED
  BY <1>1, <1>2 DEF Init, HandleInv, Arrived, LoopStays, Freed, Unused, SizeFits, AnswerOK, TrueMeansThisAnswer,
     PostIsOneContent, NoJob, Kinds

LEMMA CreateInv ==
  ASSUME HandleInv, Create
  PROVE  HandleInv'
BY DEF Create, HandleInv, TypeOK, Arrived, LoopStays, Freed, Unused, SizeFits, AnswerOK, TrueMeansThisAnswer,
   PostIsOneContent, WholeAnswer, use_size_, request, exchange, push, outcome

LEMMA BeginResponseInv ==
  ASSUME HandleInv, NEW size \in Contents, BeginResponse(size)
  PROVE  HandleInv'
<1> USE DEF HandleInv
<1>1. /\ pc' = "perform" /\ arrived' = 0 /\ blob' = <<>> /\ json' = "null"
      /\ job' = [id |-> job.id + 1, size |-> size] /\ job.id < MaxJobs
      /\ Setopt(size)
      /\ sent' = [url |-> job'.id, method |-> PerformedBody.method,
                  body |-> PerformedBody.body, size |-> PerformedBody.size]
      /\ UNCHANGED <<freed, buff_size_, content_type_, push, result>>
  BY DEF BeginResponse, Reset
<1>2. size \in Nat /\ job.id \in 0 .. MaxJobs /\ job'.id = job.id + 1 /\ job'.size = size
      /\ job'.id \in 1 .. MaxJobs
  BY <1>1, RequestAssumption DEF TypeOK
<1>3. AnswerOK' /\ answer'.size \in Nat
  BY RequestAssumption DEF BeginResponse, AnswerOK, Reset
<1>4. Freed' /\ job'.id \notin freed
  BY <1>1, <1>2 DEF Freed
<1>5. Arrived'
  <2>1. Prefix(job'.id, 0) = <<>>
    BY <1>2 DEF Prefix
  <2> QED
    BY <1>1, <2>1 DEF Arrived, Prefix
<1>6. LoopStays' /\ TrueMeansThisAnswer' /\ Unused'
  BY <1>1 DEF LoopStays, TrueMeansThisAnswer, Unused
<1>7. TypeOK' /\ SizeFits'
  <2>1. /\ fields' \in [id : 0 .. job'.id, size : Contents \cup {0}]
        /\ fieldsSize' \in Contents \cup {0} /\ fieldsSize' = fields'.size
        /\ (fields' = NoJob <=> fieldsSize' = 0)
    <3>1. CASE size > 0
      <4>1. fields' = job' /\ fieldsSize' = size
        BY <1>1, <3>1 DEF Setopt
      <4>2. job' # NoJob /\ job' \in [id : 0 .. job'.id, size : Contents \cup {0}]
        BY <1>1, <1>2, <3>1 DEF NoJob
      <4> QED
        BY <4>1, <4>2, <1>2, <3>1
    <3>2. CASE ~(size > 0)
      <4>1. UNCHANGED <<fields, fieldsSize>>
        BY <1>1, <3>2 DEF Setopt
      <4>2. fields \in [id : 0 .. job'.id, size : Contents \cup {0}]
        <5>1. \A i \in 0 .. job.id : i \in 0 .. job'.id
          BY <1>2
        <5> QED
          BY <5>1 DEF TypeOK
      <4> QED
        BY <4>1, <4>2 DEF TypeOK, SizeFits
    <3> QED
      BY <3>1, <3>2
  <2>2. Len(<<>>) = 0 /\ use_size_' <= buff_size_'
    BY <1>1, EmptySeq DEF use_size_, TypeOK
  <2>3. /\ job' \in [id : 0 .. MaxJobs, size : Contents \cup {0}]
        /\ content_type_' \in 0 .. job'.id
    BY <1>1, <1>2 DEF TypeOK
  <2> QED
    BY <1>1, <1>3, <2>1, <2>2, <2>3 DEF TypeOK, SizeFits, push, Kinds
<1>8. PostIsOneContent'
  <2>1. sent'.method = "POST" => sent'.size = fieldsSize'
    BY <1>1 DEF PerformedBody
  <2>2. ASSUME size > 0
        PROVE  sent'.method = "POST" /\ sent'.body = job'.id /\ fields' = job'
    <3>1. fields' = job' /\ fields' # NoJob /\ fields'.id \notin freed
      BY <1>1, <1>2, <1>4, <2>2 DEF Setopt, NoJob
    <3> QED
      BY <1>1, <3>1 DEF PerformedBody
  <2> QED
    BY <1>2, <1>7, <2>1, <2>2 DEF PostIsOneContent, SizeFits
<1> QED
  BY <1>3, <1>4, <1>5, <1>6, <1>7, <1>8

LEMMA SetUrlFailsInv ==
  ASSUME HandleInv, NEW size \in Contents, SetUrlFails(size)
  PROVE  HandleInv'
<1> USE DEF HandleInv
<1>1. /\ pc = "idle" /\ pc' = pc /\ blob' = <<>> /\ result' = FALSE /\ json' = "null"
      /\ job' = [id |-> job.id + 1, size |-> size] /\ job.id < MaxJobs
      /\ UNCHANGED <<freed, fields, fieldsSize, sent, answer, arrived, buff_size_,
                     content_type_, newSize>>
  BY DEF SetUrlFails, Reset, exchange, push
<1>2. job.id \in 0 .. MaxJobs /\ job'.id = job.id + 1
      /\ job' \in [id : 0 .. MaxJobs, size : Contents \cup {0}]
  BY <1>1, RequestAssumption DEF TypeOK
<1>3. blob' \in Seq(Nat \X Nat) /\ Len(blob') = 0
  BY <1>1, EmptySeq
<1>4. TypeOK'
  <2>1. use_size_' = 0
    BY <1>3 DEF use_size_
  <2>2. /\ fields' \in [id : 0 .. job'.id, size : Contents \cup {0}]
        /\ content_type_' \in 0 .. job'.id
        /\ fieldsSize' \in Contents \cup {0} /\ (fields' = NoJob <=> fieldsSize' = 0)
        /\ freed' \subseteq 1 .. MaxJobs
    <3>1. \A i \in 0 .. job.id : i \in 0 .. job'.id
      BY <1>2
    <3> QED
      BY <1>1, <3>1 DEF TypeOK
  <2>3. arrived' \in 0 .. answer'.size /\ buff_size_' \in Nat \ {0} /\ newSize' \in 0 .. buff_size_'
    BY <1>1 DEF TypeOK
  <2>4. result' \in BOOLEAN
    BY <1>1
  <2>5. json' \in Kinds \cup {"null", "partial"} /\ pc' \in {"new", "failed", "idle", "perform", "grow"}
    BY <1>1
  <2> QED
    BY <1>2, <2>1, <2>2, <2>3, <2>4, <2>5 DEF TypeOK
<1> QED
  BY <1>1, <1>2, <1>3, <1>4 DEF Arrived, LoopStays, Freed, Unused, SizeFits, AnswerOK, TrueMeansThisAnswer,
     PostIsOneContent

LEMMA HeaderFunctionInv ==
  ASSUME HandleInv, HeaderFunction
  PROVE  HandleInv'
BY DEF HeaderFunction, HandleInv, TypeOK, Arrived, LoopStays, Freed, Unused, SizeFits, AnswerOK,
   TrueMeansThisAnswer, PostIsOneContent, WholeAnswer, use_size_, request, exchange, push, outcome

LEMMA WriteFunctionInv ==
  ASSUME HandleInv, NEW n \in Nat \ {0}, WriteFunction(n)
  PROVE  HandleInv'
<1> USE DEF HandleInv
<1>1. /\ pc = "perform" /\ n <= answer.size - arrived
      /\ UNCHANGED <<job, fields, fieldsSize, sent, freed, answer, buff_size_, content_type_,
                     result, json>>
  BY DEF WriteFunction, request, outcome
<1>2. /\ job.id \in Nat /\ arrived \in Nat /\ answer.size \in Nat
      /\ blob = Prefix(job.id, arrived) /\ use_size_ = arrived /\ use_size_' = Len(blob')
  BY <1>1, PrefixSeq DEF TypeOK, AnswerOK, Arrived, use_size_
<1>3. CASE FreeSize < n
  <2>1. pc' = "grow" /\ newSize' = buff_size_ /\ chunk' = n /\ UNCHANGED <<blob, arrived>>
    BY <1>3 DEF WriteFunction, Push
  <2>2. buff_size_ \in Nat /\ buff_size_ < n + use_size_
    BY <1>2, <1>3 DEF FreeSize, TypeOK
  <2>3. TypeOK'
    BY <1>1, <2>1, <2>2 DEF TypeOK, use_size_
  <2>4. LoopStays'
    BY <1>1, <1>2, <2>1, <2>2 DEF LoopStays, use_size_
  <2> QED
    BY <1>1, <2>1, <2>3, <2>4 DEF Arrived, Freed, Unused, SizeFits, AnswerOK, TrueMeansThisAnswer, PostIsOneContent
<1>4. CASE ~(FreeSize < n)
  <2>1. pc' = "perform" /\ blob' = Appended(n) /\ arrived' = arrived + n
        /\ UNCHANGED <<newSize, chunk>>
    BY <1>1, <1>4 DEF WriteFunction, Push, push
  <2>2. /\ blob' = Prefix(job.id, arrived + n) /\ arrived + n \in Nat
        /\ blob' \in Seq(Nat \X Nat) /\ Len(blob') = arrived + n
    <3>1. n \in Nat /\ arrived + n \in Nat
      BY <1>2
    <3>2. Appended(n) = Prefix(job.id, arrived + n)
      BY <1>2, <3>1, PrefixGrows
    <3>3. /\ Prefix(job.id, arrived + n) \in Seq(Nat \X Nat)
          /\ Len(Prefix(job.id, arrived + n)) = arrived + n
      BY <1>2, <3>1, PrefixSeq
    <3> QED
      BY <2>1, <3>1, <3>2, <3>3
  <2>3. arrived + n <= buff_size_ /\ arrived + n \in 0 .. answer.size
    BY <1>1, <1>2, <1>4 DEF FreeSize, TypeOK
  <2>4. TypeOK'
    BY <1>1, <1>2, <2>1, <2>2, <2>3 DEF TypeOK
  <2> QED
    BY <1>1, <2>1, <2>2, <2>4
       DEF Arrived, LoopStays, Freed, Unused, SizeFits, AnswerOK, TrueMeansThisAnswer, PostIsOneContent
<1> QED
  BY <1>3, <1>4

(* The loop only goes on: its size only gets smaller. *)
LEMMA GrowInv ==
  ASSUME HandleInv, Grow
  PROVE  HandleInv'
<1> USE DEF HandleInv
<1>1. /\ pc = "grow" /\ newSize' = newSize \div 2
      /\ UNCHANGED <<pc, blob, arrived, buff_size_, job, fields, fieldsSize, sent, freed, answer,
                     content_type_, chunk, result, json>>
  BY DEF Grow, LoopStays, request, outcome
<1>2. newSize' \in 0 .. newSize
  BY <1>1 DEF TypeOK
<1>3. newSize \in Nat /\ newSize <= buff_size_ /\ buff_size_ \in Nat
      /\ newSize < chunk + use_size_ /\ chunk \in Nat /\ use_size_ \in Nat
  BY <1>1, LenProperties DEF TypeOK, LoopStays, AnswerOK, use_size_
<1>4. newSize' \in 0 .. buff_size_ /\ newSize' < chunk + use_size_
  BY <1>2, <1>3
<1>5. TypeOK'
  BY <1>1, <1>4 DEF TypeOK, use_size_
<1>6. LoopStays'
  BY <1>1, <1>4 DEF LoopStays, use_size_
<1> QED
  BY <1>1, <1>5, <1>6 DEF Arrived, Freed, Unused, SizeFits, AnswerOK, TrueMeansThisAnswer, PostIsOneContent

LEMMA PerformFailsInv ==
  ASSUME HandleInv, PerformFails
  PROVE  HandleInv'
BY DEF PerformFails, HandleInv, TypeOK, Arrived, LoopStays, Freed, Unused, SizeFits, AnswerOK,
   TrueMeansThisAnswer, PostIsOneContent, use_size_, request, exchange, push

LEMMA PerformedInv ==
  ASSUME HandleInv, Performed
  PROVE  HandleInv'
<1> USE DEF HandleInv
<1>1. /\ pc = "perform" /\ arrived = answer.size /\ pc' = "idle"
      /\ UNCHANGED <<job, fields, fieldsSize, sent, freed, answer, arrived, blob, buff_size_,
                     content_type_, newSize, chunk>>
  BY DEF Performed, request, exchange, push
<1>2. WholeAnswer
  BY <1>1 DEF Arrived, WholeAnswer, Prefix
<1>3. /\ result' = (answer.kind = "object")
      /\ json' \in IF answer.kind = "unparsable" THEN {"null", "partial"} ELSE {answer.kind}
      /\ answer.kind \in Kinds
  BY <1>2 DEF Performed, Parsed, AnswerOK
<1>4. TrueMeansThisAnswer'
  BY <1>1, <1>2, <1>3 DEF TrueMeansThisAnswer, WholeAnswer
<1>5. TypeOK'
  BY <1>1, <1>3 DEF TypeOK, use_size_
<1> QED
  BY <1>1, <1>4, <1>5 DEF Arrived, LoopStays, Freed, Unused, SizeFits, AnswerOK, PostIsOneContent

LEMMA FreeJobInv ==
  ASSUME HandleInv, NEW id \in 1 .. MaxJobs, FreeJob(id)
  PROVE  HandleInv'
<1> USE DEF HandleInv
<1>1. /\ id <= job.id /\ freed' = freed \cup {id} /\ job.id \in Nat
      /\ UNCHANGED <<pc, job, fields, fieldsSize, sent, answer, arrived, blob, buff_size_,
                     content_type_, newSize, chunk, result, json>>
  BY DEF FreeJob, TypeOK, request, exchange, push, outcome
<1>2. TypeOK' /\ Freed'
  BY <1>1 DEF TypeOK, Freed, use_size_
<1> QED
  BY <1>1, <1>2
     DEF Arrived, LoopStays, Unused, SizeFits, AnswerOK, TrueMeansThisAnswer, PostIsOneContent, WholeAnswer, use_size_

LEMMA HandleStep == HandleInv /\ [Next]_vars => HandleInv'
<1> SUFFICES ASSUME HandleInv, [Next]_vars
             PROVE  HandleInv'
  OBVIOUS
<1>1. ASSUME UNCHANGED vars
      PROVE  HandleInv'
  BY <1>1 DEF vars, HandleInv, TypeOK, Arrived, LoopStays, Freed, Unused, SizeFits, AnswerOK,
     TrueMeansThisAnswer, PostIsOneContent, WholeAnswer, use_size_, request, exchange, push, outcome
<1>2. \A n \in 1 .. DefaultBuffSize + 1 : n \in Nat \ {0}
  BY RequestAssumption
<1>3. ASSUME GetResponse
      PROVE  HandleInv'
  BY <1>2, <1>3, BeginResponseInv, SetUrlFailsInv, WriteFunctionInv, HeaderFunctionInv, GrowInv,
     PerformFailsInv, PerformedInv DEF GetResponse
<1> QED
  BY <1>1, <1>3, CreateInv, FreeJobInv DEF Next

(* The inductive invariant holds of every step of GetResponse, of curl and of the master. *)
THEOREM HandleInvariant == Spec => []HandleInv
BY InitInv, HandleStep, PTL DEF Spec

(* What arrived never exceeds the answer, what is used never exceeds the blob, and
   POSTFIELDS and its size are set together. *)
THEOREM TypeCorrect == Spec => []TypeOK
<1>1. HandleInv => TypeOK
  BY DEF HandleInv
<1> QED
  BY <1>1, HandleInvariant, PTL

(* True is returned only for the object that this request's own server sent, whole. *)
THEOREM OwnAnswer == Spec => []TrueMeansThisAnswer
<1>1. HandleInv => TrueMeansThisAnswer
  BY DEF HandleInv
<1> QED
  BY <1>1, HandleInvariant, PTL

(* Whatever was requested on the handle before: what is posted is the whole of the content
   that it points to, and a request's own if it carries one (http_request.cpp:62-75). *)
THEOREM OneContent == Spec => []PostIsOneContent
<1>1. HandleInv => PostIsOneContent
  BY DEF HandleInv
<1> QED
  BY <1>1, HandleInvariant, PTL
=============================================================================

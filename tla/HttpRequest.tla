----------------------------- MODULE HttpRequest ----------------------------
(***************************************************************************)
(* http/http_request and http/response_blob: one worker's curl handle and  *)
(* the buffer its answers are collected in.  Both outlive the requests:    *)
(* the handle keeps every option that was set on it, and holds the request *)
(* body by pointer, into a job the master may have freed since; the buffer *)
(* keeps its size.  libcurl and the server are the environment.            *)
(***************************************************************************)
EXTENDS Integers, Sequences

CONSTANTS
  DefaultBuffSize,  \* bytes the blob is allocated with
  Contents,         \* sizes of the contents that requests carry
  Answers,          \* sizes of the bodies that servers answer with
  MaxJobs           \* bound: requests made

ASSUME RequestAssumption ==
  /\ DefaultBuffSize \in Nat \ {0} /\ MaxJobs \in Nat
  /\ Contents \subseteq Nat /\ Answers \subseteq Nat

VARIABLES
  pc,         \* "new", "idle" once created, or inside GetResponse: "perform" (in curl),
              \*   "grow" (in Push)
  job,        \* the request GetResponse works on: [id, size of content]
  freed,      \* jobs whose JobNode, and so its content, is gone
  fields,     \* CURLOPT_POSTFIELDS: the job whose content it points to, NoJob while unset
  fieldsSize, \* CURLOPT_POSTFIELDSIZE
  sent,       \* what the server was sent: [url, method, body, size]
  answer,     \* the server's answer: [size, what it parses to], and
  arrived,    \*   how much of it curl has handed to WriteFunction
  blob,       \* the first use_size_ bytes of the blob: [of job, number]
  buff_size_, \* the blob's allocated size
  content_type_, \* the job whose answer its content type is of, 0 while it has none
  newSize,    \* Push's local new_size
  chunk,      \* Push's len
  result,     \* what the last GetResponse returned
  json        \* what it left in the job's json_value

request  == <<job, fields, fieldsSize, sent>>
exchange == <<answer, arrived>>
push     == <<newSize, chunk>>
outcome  == <<result, json>>
vars     == <<pc, request, freed, exchange, blob, buff_size_, content_type_, push, outcome>>

use_size_ == Len(blob)
FreeSize  == buff_size_ - use_size_

(* What an answer's bytes parse to: a JSON object, one with an "error" member, another
   JSON value, or nothing (json_value is then as the parser leaves it). *)
Kinds == {"object", "error", "scalar", "unparsable"}

NoJob  == [id |-> 0, size |-> 0]
NoSent == [url |-> 0, method |-> "GET", body |-> 0, size |-> 0]

Init ==
  /\ pc = "new" /\ job = NoJob /\ freed = {} /\ content_type_ = 0
  /\ fields = NoJob /\ fieldsSize = 0 /\ sent = NoSent
  /\ answer = [size |-> 0, kind |-> "unparsable"] /\ arrived = 0
  /\ blob = <<>> /\ buff_size_ = DefaultBuffSize
  /\ newSize = 0 /\ chunk = 0
  /\ result = FALSE /\ json = "null"

(* Create: the handle and its options.  One that cannot be made or set up is never used:
   the worker is not started. *)
Create ==
  /\ pc = "new" /\ pc' \in {"idle", "failed"}
  /\ UNCHANGED <<request, freed, exchange, blob, buff_size_, content_type_, push, outcome>>

(***************************************************************************)
(* GetResponse, up to the call of curl_easy_perform.  The URL is copied by *)
(* curl, the content is not; a handle with POSTFIELDS set sends a POST.    *)
(***************************************************************************)
SetoptSizeOnce(size) ==                                       \* mutant
  IF size > 0
  THEN fields' = job' /\ fieldsSize' = IF fieldsSize = 0 THEN size ELSE fieldsSize
  ELSE UNCHANGED <<fields, fieldsSize>>

Setopt(size) ==
  IF size > 0
  THEN fields' = job' /\ fieldsSize' = size
  ELSE UNCHANGED <<fields, fieldsSize>>

PerformedBody == IF fields' = NoJob THEN [method |-> "GET", body |-> 0, size |-> 0]
                 ELSE [method |-> "POST", size |-> fieldsSize',
                       body |-> IF fields'.id \in freed THEN -1 ELSE fields'.id]

ResetForgotten == UNCHANGED blob                              \* mutant
Reset == blob' = <<>>

BeginResponse(size) ==
  /\ pc = "idle" /\ job.id < MaxJobs
  /\ job' = [id |-> job.id + 1, size |-> size]
  /\ Reset
  /\ Setopt(size)
  /\ sent' = [url |-> job'.id, method |-> PerformedBody.method,
              body |-> PerformedBody.body, size |-> PerformedBody.size]
  /\ \E n \in Answers, kind \in Kinds : answer' = [size |-> n, kind |-> kind]
  /\ arrived' = 0
  /\ pc' = "perform" /\ json' = "null"
  /\ UNCHANGED <<freed, buff_size_, content_type_, push, result>>

(* curl refuses the URL: no option changes and nothing is sent. *)
SetUrlFails(size) ==
  /\ pc = "idle" /\ job.id < MaxJobs
  /\ job' = [id |-> job.id + 1, size |-> size]
  /\ Reset
  /\ result' = FALSE /\ json' = "null"
  /\ UNCHANGED <<pc, freed, fields, fieldsSize, sent, exchange, buff_size_, content_type_, push>>

(* A Content-Type header, of the answer or of a redirection before it.  Reset leaves the
   type as it is, so an answer without one has that of an earlier answer. *)
HeaderFunction ==
  /\ pc = "perform" /\ arrived = 0
  /\ content_type_' = job.id
  /\ UNCHANGED <<pc, request, freed, exchange, blob, buff_size_, push, outcome>>

(***************************************************************************)
(* WriteFunction and Push.  A chunk that fits is appended; for one that    *)
(* does not, Push looks for a larger size by halving (>> 1) the present    *)
(* one until it is large enough.                                           *)
(***************************************************************************)
Bytes(n) == [k \in 1 .. n |-> <<job.id, arrived + k>>]

AppendedFromStart(n) == Bytes(n)                              \* mutant
Appended(n) == blob \o Bytes(n)

PushUnchecked(n) ==                                           \* mutant
  /\ blob' = Appended(n) /\ arrived' = arrived + n
  /\ UNCHANGED <<pc, push>>

Push(n) ==
  IF FreeSize < n
  THEN /\ pc' = "grow" /\ newSize' = buff_size_ /\ chunk' = n
       /\ UNCHANGED <<blob, arrived>>
  ELSE /\ blob' = Appended(n) /\ arrived' = arrived + n
       /\ UNCHANGED <<pc, push>>

WriteFunction(n) ==
  /\ pc = "perform" /\ n <= answer.size - arrived
  /\ Push(n)
  /\ UNCHANGED <<request, freed, answer, buff_size_, content_type_, outcome>>

(* One turn of Push's loop, or its end: Realloc refuses the size the buffer has already
   and may fail, and WriteFunction hides Push's result from curl. *)
Realloc(bytes) == buff_size_ # bytes /\ buff_size_' = bytes

Grow ==
  /\ pc = "grow"
  /\ IF newSize < chunk + use_size_
     THEN newSize' = newSize \div 2 /\ UNCHANGED <<pc, blob, arrived, buff_size_>>
     ELSE /\ pc' = "perform" /\ arrived' = arrived + chunk
          /\ \/ Realloc(newSize) /\ blob' = Appended(chunk)
             \/ UNCHANGED <<blob, buff_size_>>
          /\ UNCHANGED newSize
  /\ UNCHANGED <<request, freed, answer, content_type_, chunk, outcome>>

(***************************************************************************)
(* The return from curl_easy_perform and the rest of GetResponse.          *)
(***************************************************************************)
PerformFails ==
  /\ pc = "perform"
  /\ pc' = "idle" /\ result' = FALSE
  /\ UNCHANGED <<request, freed, exchange, blob, buff_size_, content_type_, push, json>>

WholeAnswer == blob = [k \in 1 .. answer.size |-> <<job.id, k>>]

Parsed == IF WholeAnswer THEN {answer.kind} ELSE Kinds

Performed ==
  /\ pc = "perform" /\ arrived = answer.size
  /\ \E kind \in Parsed :
       /\ result' = (kind = "object")
       /\ json' \in IF kind = "unparsable" THEN {"null", "partial"} ELSE {kind}
  /\ pc' = "idle"
  /\ UNCHANGED <<request, freed, exchange, blob, buff_size_, content_type_, push>>

(* The last owner of a job already dealt with lets it go. *)
FreeJob(id) ==
  /\ id \notin freed /\ (id < job.id \/ (id = job.id /\ pc = "idle"))
  /\ freed' = freed \cup {id}
  /\ UNCHANGED <<pc, request, exchange, blob, buff_size_, content_type_, push, outcome>>

GetResponse ==
  \/ \E size \in Contents : BeginResponse(size) \/ SetUrlFails(size)
  \/ \E n \in 1 .. DefaultBuffSize + 1 : WriteFunction(n)
  \/ HeaderFunction \/ Grow \/ PerformFails \/ Performed

Next == Create \/ GetResponse \/ \E id \in 1 .. MaxJobs : FreeJob(id)

Spec == Init /\ [][Next]_vars

(***************************************************************************)
(* Inside GetResponse the thread goes on, and the server, which no time    *)
(* limit is set for, goes on sending; nobody has to ask again.             *)
(***************************************************************************)
InCurl == \/ \E n \in 1 .. DefaultBuffSize + 1 : WriteFunction(n)
          \/ Grow \/ Performed

FairSpec == Spec /\ WF_vars(InCurl)
-----------------------------------------------------------------------------
(* Sizes, and which jobs the handle may point into. *)
TypeOK ==
  /\ pc \in {"new", "failed", "idle", "perform", "grow"}
  /\ job \in [id : 0 .. MaxJobs, size : Contents \cup {0}]
  /\ freed \subseteq 1 .. MaxJobs /\ content_type_ \in 0 .. job.id
  /\ fields \in [id : 0 .. job.id, size : Contents \cup {0}]
  /\ fieldsSize \in Contents \cup {0} /\ (fields = NoJob <=> fieldsSize = 0)
  /\ arrived \in 0 .. answer.size /\ use_size_ <= buff_size_
  /\ buff_size_ \in Nat \ {0} /\ newSize \in 0 .. buff_size_
  /\ result \in BOOLEAN /\ json \in Kinds \cup {"null", "partial"}

(***************************************************************************)
(* GetResponse returns true only with the JSON object this request's       *)
(* server sent: no byte of an earlier answer, cut off or complete, is left *)
(* in the blob, and none of this one is missing or out of place.           *)
(***************************************************************************)
TrueMeansThisAnswer ==
  pc = "idle" /\ result =>
     WholeAnswer /\ answer.kind = "object" /\ json = "object"

(***************************************************************************)
(* Whatever the handle posts, after any requests with and without content  *)
(* and refused URLs before, is as long as the one content it points to:    *)
(* none is cut off or read past its end.  For a request that carries       *)
(* content, that is its own.                                               *)
(***************************************************************************)
PostIsOneContent ==
  pc \in {"perform", "grow"} =>
    /\ sent.method = "POST" => sent.size = fields.size
    /\ job.size > 0 => sent.method = "POST" /\ sent.body = job.id /\ fields = job

(* A request whose answer fits the blob's first allocation comes back, whatever was
   requested on the handle before and however that ended. *)
FittingAnswersReturn ==
  (pc = "perform" /\ answer.size <= DefaultBuffSize) ~> (pc = "idle")

(* http_request.cpp:71 marks the one branch that makes a request a POST: a request
   without content is not one, and sends no content. *)
NoContentNoPost ==
  pc \in {"perform", "grow"} /\ job.size = 0 => sent.method = "GET"

(* response_blob.h:26: use_size_ is the real length of the content.  So it gets to be the
   length of the answer, unless the transfer fails. *)
UseSizeIsContentLength ==
  \A n \in Answers : (pc = "perform" /\ answer.size = n) ~>
                        (pc = "idle" /\ (use_size_ = n \/ ~result))
=============================================================================

----------------------------- MODULE HttpSession ----------------------------
(***************************************************************************)
(* http/http_request_mgr and http/http_session: GET requests over          *)
(* boost::asio.  A session is a chain of handlers, each run when the       *)
(* operation the one before it started is done, and each starting the next *)
(* one; it lives as long as an operation of its own is pending.  Whatever  *)
(* an error or an unexpected answer ends, ends without a callback.  All    *)
(* handlers run on the thread of the io_service.                           *)
(*                                                                         *)
(* A byte stream is a sequence of tokens: CRLF, the protocol name, the     *)
(* status code, and words, of which headers and bodies are made.           *)
(***************************************************************************)
EXTENDS Integers, Sequences, FiniteSets

CONSTANTS
  Session,         \* sessions a caller may ask for
  Responses,       \* what servers answer, up to the end of the stream
  kRecvBufMaxSize  \* the callback buffer, in tokens

CRLF == "CRLF"
Tokens == {CRLF, "HTTP/", "200", "404", "word"}

ASSUME SessionAssumption ==
  kRecvBufMaxSize \in Nat \ {0} /\ Responses \subseteq Seq(Tokens)

VARIABLES
  op,           \* each session's pending operation, "none" for a session that is not there
  net,          \* what its server has sent or will send and has not been received
  response_,    \* received and not yet consumed
  broken,       \* history: its connection, or the lookup, failed
  calls,        \* history: the contents its callback was called with
  answer,       \* history: the whole answer of its server
  asked,        \* history: the sessions asked for
  http_counter  \* sessions alive

vars == <<op, net, response_, broken, calls, answer, asked, http_counter>>

Ops == {"none", "resolve", "connect", "write", "status", "headers", "content"}

Init ==
  /\ op = [s \in Session |-> "none"]
  /\ net = [s \in Session |-> <<>>] /\ response_ = [s \in Session |-> <<>>]
  /\ broken = [s \in Session |-> FALSE] /\ calls = [s \in Session |-> <<>>]
  /\ answer = [s \in Session |-> <<>>]
  /\ asked = {} /\ http_counter = 0
-----------------------------------------------------------------------------
(***************************************************************************)
(* What the handlers read from response_.                                  *)
(***************************************************************************)
IsCut(b, k) == b[k] = CRLF /\ (k = 1 \/ b[k - 1] = CRLF)

(* The position of the first token p holds of, and the tokens from position k on. *)
First(n, p(_)) == CHOOSE k \in 1 .. n : p(k) /\ \A j \in 1 .. k - 1 : ~p(j)
From(b, k) == SubSeq(b, k, Len(b))

(* operator >> : a word after white space, of which CRLF is part; <<>> if there is none. *)
SkipSpace(b) == IF \A k \in DOMAIN b : b[k] = CRLF THEN <<>>
                ELSE From(b, First(Len(b), LAMBDA k : b[k] # CRLF))
AfterWord(b) == IF SkipSpace(b) = <<>> THEN <<>> ELSE Tail(SkipSpace(b))

(* getline: up to and with the next CRLF. *)
AfterLine(b) == IF \A k \in DOMAIN b : b[k] # CRLF THEN <<>>
                ELSE From(b, First(Len(b), LAMBDA k : b[k] = CRLF) + 1)

StatusUnchecked(b) == "200"                                   \* mutant

(* "response_stream >> http_version >> status_code; getline(status_message)": the stream
   is good if there was a word, a number and something for getline to take. *)
StatusOf(b) ==
  LET version == SkipSpace(b)
      code    == SkipSpace(AfterWord(b))
      message == AfterWord(AfterWord(b))
  IN  CASE version = <<>> \/ code = <<>> \/ message = <<>>            -> "bad stream"
        [] Head(version) # "HTTP/" \/ Head(code) \notin {"200", "404"} -> "bad stream"
        [] OTHER -> Head(code)

AfterStatusAndALine(b) == AfterLine(AfterLine(AfterWord(AfterWord(b))))  \* mutant
AfterStatus(b) == AfterLine(AfterWord(AfterWord(b)))

(* The header loop: lines up to and with the first empty one. *)
AfterFirstLine(b) == AfterLine(b)                             \* mutant
AfterHeaders(b) == IF \A k \in DOMAIN b : ~IsCut(b, k) THEN <<>>
                   ELSE From(b, First(Len(b), LAMBDA k : IsCut(b, k)) + 1)

HasLine(b)  == \E k \in DOMAIN b : b[k] = CRLF
IsBlank(b, k) == k > 1 /\ b[k] = CRLF /\ b[k - 1] = CRLF
HasBlank(b) == \E k \in DOMAIN b : IsBlank(b, k)

StartsUncounted(s, next) ==                                   \* mutant
  op' = [op EXCEPT ![s] = next] /\ UNCHANGED http_counter

(* A handler starts operation next, or ends the session by starting none. *)
Starts(s, next) ==
  /\ op' = [op EXCEPT ![s] = next]
  /\ http_counter' = IF next = "none" THEN http_counter - 1 ELSE http_counter

(* HttpRequestMgr::HttpRequest, constructor and start; a NULL call_back makes no session. *)
HttpRequest(s) ==
  /\ s \notin asked
  /\ asked' = asked \cup {s}
  /\ op' = [op EXCEPT ![s] = "resolve"]
  /\ http_counter' = http_counter + 1
  /\ \E r \in Responses : net' = [net EXCEPT ![s] = r] /\ answer' = [answer EXCEPT ![s] = r]
  /\ UNCHANGED <<response_, broken, calls>>

(* The lookup, the connection, the write or a read fails: the handler only prints it. *)
HandleError(s) ==
  /\ op[s] # "none"
  /\ broken' = [broken EXCEPT ![s] = TRUE]
  /\ Starts(s, "none")
  /\ UNCHANGED <<net, response_, calls, answer, asked>>

handle_resolve(s) ==
  /\ op[s] = "resolve" /\ Starts(s, "connect")
  /\ UNCHANGED <<net, response_, broken, calls, answer, asked>>

handle_connect(s) ==
  /\ op[s] = "connect" /\ Starts(s, "write")
  /\ UNCHANGED <<net, response_, broken, calls, answer, asked>>

handle_write_request(s) ==
  /\ op[s] = "write" /\ Starts(s, "status")
  /\ UNCHANGED <<net, response_, broken, calls, answer, asked>>

(***************************************************************************)
(* Reading: async_read_until takes what comes, in pieces, until what it    *)
(* has holds its delimiter; what is there already may be enough.           *)
(***************************************************************************)
Satisfied(s) == \/ op[s] = "status" /\ HasLine(response_[s])
                \/ op[s] = "headers" /\ HasBlank(response_[s])

Take(s, n) ==
  /\ n \in 1 .. Len(net[s])
  /\ response_' = [response_ EXCEPT ![s] = @ \o SubSeq(net[s], 1, n)]
  /\ net' = [net EXCEPT ![s] = From(@, n + 1)]

Receive(s, n) ==
  /\ op[s] \in {"status", "headers"} /\ ~Satisfied(s)
  /\ Take(s, n)
  /\ UNCHANGED <<op, broken, calls, answer, asked, http_counter>>

(* The stream ends before the delimiter: error::eof, like any other error. *)
EofTooEarly(s) ==
  /\ op[s] \in {"status", "headers"} /\ ~Satisfied(s) /\ net[s] = <<>>
  /\ Starts(s, "none")
  /\ UNCHANGED <<net, response_, broken, calls, answer, asked>>

handle_read_status_line(s) ==
  /\ op[s] = "status" /\ Satisfied(s)
  /\ IF StatusOf(response_[s]) = "200"
     THEN response_' = [response_ EXCEPT ![s] = AfterStatus(@)] /\ Starts(s, "headers")
     ELSE Starts(s, "none") /\ UNCHANGED response_
  /\ UNCHANGED <<net, broken, calls, answer, asked>>

handle_read_headers(s) ==
  /\ op[s] = "headers" /\ Satisfied(s)
  /\ response_' = [response_ EXCEPT ![s] = AfterHeaders(@)]
  /\ Starts(s, "content")
  /\ UNCHANGED <<net, broken, calls, answer, asked>>

(* handle_read_content after at least one byte: it reads on until the end of the stream. *)
ReadOn(s, n) ==
  /\ op[s] = "content"
  /\ Take(s, n) /\ Starts(s, "content")
  /\ UNCHANGED <<broken, calls, answer, asked>>

TooLong(b) == Len(b) >= kRecvBufMaxSize

ContentReadAgain(s) ==                                        \* mutant
  /\ op[s] = "content" /\ net[s] = <<>>
  /\ Starts(s, IF TooLong(response_[s]) THEN "content" ELSE "none")
  /\ IF TooLong(response_[s])
     THEN UNCHANGED <<response_, calls>>
     ELSE /\ response_' = [response_ EXCEPT ![s] = <<>>]
          /\ calls' = [calls EXCEPT ![s] = Append(@, response_[s])]
  /\ UNCHANGED <<net, broken, answer, asked>>

(* ... and at its end: the callback, unless the content does not fit buff_. *)
ContentRead(s) ==
  /\ op[s] = "content" /\ net[s] = <<>>
  /\ Starts(s, "none")
  /\ IF TooLong(response_[s])
     THEN UNCHANGED <<response_, calls>>
     ELSE /\ response_' = [response_ EXCEPT ![s] = <<>>]
          /\ calls' = [calls EXCEPT ![s] = Append(@, response_[s])]
  /\ UNCHANGED <<net, broken, answer, asked>>

Handler(s) ==
  \/ handle_resolve(s) \/ handle_connect(s) \/ handle_write_request(s)
  \/ EofTooEarly(s) \/ handle_read_status_line(s) \/ handle_read_headers(s)
  \/ ContentRead(s)

Longest == CHOOSE n \in {Len(r) : r \in Responses} : \A r \in Responses : Len(r) <= n

Arrive(s) == \E n \in 1 .. Longest : Receive(s, n) \/ ReadOn(s, n)

Next == \E s \in Session : HttpRequest(s) \/ Handler(s) \/ Arrive(s) \/ HandleError(s)

Spec == Init /\ [][Next]_vars

(* The io_service is run, and a server sends its answer and then closes the connection,
   as start's "Connection: close" asks it to.  Errors need not happen. *)
FairSpec == Spec /\ \A s \in Session : WF_vars(Handler(s)) /\ WF_vars(Arrive(s))
-----------------------------------------------------------------------------
(* http_counter is the number of sessions with an operation pending; a session starts at
   most once. *)
Alive == {s \in Session : op[s] # "none"}

TypeOK ==
  /\ op \in [Session -> Ops]
  /\ \A s \in Session : /\ net[s] \in Seq(Tokens) /\ response_[s] \in Seq(Tokens)
                        /\ calls[s] \in Seq(Seq(Tokens))
  /\ broken \in [Session -> BOOLEAN] /\ asked \subseteq Session
  /\ Alive \subseteq asked /\ http_counter = Cardinality(Alive)

(* The content of an answer: all that follows its first blank line. *)
Content(r) == From(r, First(Len(r), LAMBDA k : IsBlank(r, k)) + 1)

StatusIsOk(r) == Len(r) > 3 /\ r[1] = "HTTP/" /\ r[2] = "200"
Short(r)      == Len(Content(r)) < kRecvBufMaxSize
HasHeader(r)  == Len(r) - Len(Content(r)) > First(Len(r), LAMBDA k : r[k] = CRLF) + 1

(***************************************************************************)
(* However the stream is cut into pieces, a callback is made once at most, *)
(* after the whole stream has come, with the content of the answer and     *)
(* nothing of its headers, and only for content that fits its buffer.      *)
(***************************************************************************)
CallbackIsTheContent == \A s \in Session : calls[s] # <<>> =>
  /\ calls[s] = <<Content(answer[s])>> /\ Short(answer[s])
  /\ net[s] = <<>> /\ op[s] = "none" /\ ~broken[s]

(* The first two words are HTTP/ and 200, at i and j. *)
OkWords(r, i, j) ==
  i < j /\ r[i] = "HTTP/" /\ r[j] = "200" /\ \A k \in 1 .. j - 1 : k = i \/ r[k] = CRLF

(* No callback is made for an answer whose first two words are not HTTP/ and 200. *)
OkFirst(r) == \E i, j \in DOMAIN r : OkWords(r, i, j)

OnlyOkIsCalledBack == \A s \in Session : calls[s] # <<>> => OkFirst(answer[s])

(* What is asked of an answer for CallbackIsTheContent: no blank line before the second
   word; and the words stand first, or the second one ends its line, for with white space
   before it the first CRLF to come need not be the one after the status message. *)
WellBegun(r) == \A i, j \in DOMAIN r : OkWords(r, i, j) =>
  /\ \A k \in 1 .. j : ~IsBlank(r, k)
  /\ j = 2 \/ j = Len(r) \/ r[j + 1] = CRLF

(* Every session ends, and so frees its socket and buffers: the chain of handlers never
   waits for something it has already consumed, or reads past the end of the stream. *)
EverySessionEnds == \A s \in Session : (op[s] # "none") ~> (op[s] = "none")

(* An answer with status 200, at least one header and a short content is called back,
   however it is cut into pieces, unless the network fails.  Without a header the blank
   line would be consumed in part by the status line's getline, and not be found. *)
OkIsCalledBack == \A s \in Session :
  (s \in asked /\ StatusIsOk(answer[s]) /\ HasBlank(answer[s]) /\ HasHeader(answer[s]) /\ Short(answer[s]))
    ~> (calls[s] # <<>> \/ broken[s])
=============================================================================

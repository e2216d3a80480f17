------------------------------ MODULE Exchange ------------------------------
(***************************************************************************)
(* Requests of one network::Client to one server: the thread that calls    *)
(* the Client, the worker thread of each request (a Process<Client>), the  *)
(* TCP connection between the two programs and the reply function of the   *)
(* server.                                                                 *)
(*                                                                         *)
(* A request is known by its number.  The protocol carries no such number: *)
(* a reply is matched with a request by its place in the byte stream only. *)
(* A direction of the connection is a sequence of messages; Junk stands    *)
(* for a message of which one side sent or read only a part.  From there   *)
(* on the reader takes payload for a length and is out of step for good.   *)
(*                                                                         *)
(* has_more_ is never set (the function that would is not called), so a    *)
(* worker receives one message and the loop of ::request is never entered. *)
(***************************************************************************)
EXTENDS Naturals, Sequences

CONSTANT MaxRequests       \* bound: requests made with one Client

ASSUME RequestsAssumption == MaxRequests \in Nat

Requests == 1..MaxRequests

Client_MsgT == {"DATA_REQUEST", "SERVER_STATUS", "INDEX", "INDEX_REF", "TRANSACTION"}

(* How the caller asks: request(true), request(false), request(timeout).    *)
Modes == {"wait", "async", "timed"}

(* The messages a server sends, with the request that each one answers.     *)
Replies == [of : Requests, type : {"DATA_REPLY_INDEX_REF", "ERROR"}]
Junk == [of |-> 0, type |-> "JUNK"]
NoReply == [of |-> 0, type |-> "NONE"]
Messages == Replies \cup {Junk}

VARIABLES
    cpc,        \* the calling thread
    n,          \* requests made
    kind,       \* [Requests -> type of the message sent]
    mode,       \* how the last request was made
    proc,       \* process: the request whose Process<Client> it is (0: null)
    work,       \* [Requests -> where its worker is]
    timeouts,   \* the socket has the options TimeOutIn and TimeOutOut
    recv,       \* recv_hmsg_ of the Client's MessageProcess
    open,       \* the server has not closed the connection
    c2s, s2c,   \* the two directions of the connection
    scur,       \* the request the server is replying to (0: none)
    lost,       \* history: requests that ended without their own reply
    answer,     \* history: what get_result or get_intermediate_result gave
    aborted     \* the client program was terminated

callVars == <<cpc, n, kind, mode, proc>>
netVars  == <<open, c2s, s2c, scur>>
vars == <<callVars, work, timeouts, recv, netVars, lost, answer, aborted>>

NoAnswer == [of |-> 0, for |-> 0, via |-> "none"]

Running == {"send", "recv"}
Ended   == {"value", "error"}

Init ==
    /\ cpc = "idle" /\ n = 0 /\ mode = "wait" /\ proc = 0
    /\ kind = [i \in Requests |-> "INDEX_REF"]
    /\ work = [i \in Requests |-> "none"]
    /\ timeouts = FALSE /\ recv = NoReply
    /\ open = TRUE /\ c2s = <<>> /\ s2c = <<>> /\ scur = 0
    /\ lost = {} /\ answer = NoAnswer /\ aborted = FALSE

-----------------------------------------------------------------------------
(* The calling thread                                                       *)

callFrame == <<n, kind, mode, recv, netVars, lost, aborted>>

(* Mutant: request(bool) sets no time limits on the socket.                 *)
RequestNoLimit(k, md) ==
    /\ cpc = "idle" /\ n < MaxRequests
    /\ n' = n + 1
    /\ kind' = [kind EXCEPT ![n + 1] = k]
    /\ mode' = md
    /\ cpc' = "replace"
    /\ UNCHANGED <<proc, work, timeouts, recv, netVars, lost, answer, aborted>>

(* Client::request.  Both request(bool) set 5 second limits on the socket,  *)
(* request(int) leaves the socket as it is.                                 *)
Request(k, md) ==
    /\ cpc = "idle" /\ n < MaxRequests
    /\ n' = n + 1
    /\ kind' = [kind EXCEPT ![n + 1] = k]
    /\ mode' = md
    /\ timeouts' = (timeouts \/ md # "timed")
    /\ cpc' = "replace"
    /\ UNCHANGED <<proc, work, recv, netVars, lost, answer, aborted>>

(* Mutant: the old process object goes without joining its worker.          *)
ReplaceDetached ==
    /\ cpc = "replace"
    /\ proc' = n
    /\ work' = [work EXCEPT ![n] = "send"]
    /\ cpc' = IF mode = "async" THEN "idle" ELSE "wait"
    /\ UNCHANGED <<callFrame, timeouts, answer>>

(* process = make_process() destroys the old object, which joins its        *)
(* worker; then execute_process starts the new one.                         *)
Replace ==
    /\ cpc = "replace"
    /\ proc # 0 => work[proc] \in Ended
    /\ proc' = n
    /\ work' = [work EXCEPT ![n] = "send"]
    /\ cpc' = IF mode = "async" THEN "idle" ELSE "wait"
    /\ UNCHANGED <<callFrame, timeouts, answer>>

(* wait(-1) has joined, or wait(timeout) found the future ready.  After     *)
(* request(true) the caller gets NONE whatever the worker met.              *)
RequestReturns ==
    /\ cpc = "wait" /\ work[proc] \in Ended
    /\ cpc' = "idle"
    /\ UNCHANGED <<callFrame, proc, work, timeouts, answer>>

(* The time of request(int) is over; wait then joins the worker all the     *)
(* same ...                                                                 *)
TimeIsUp ==
    /\ cpc = "wait" /\ mode = "timed" /\ work[proc] \in Running
    /\ cpc' = "late"
    /\ UNCHANGED <<callFrame, proc, work, timeouts, answer>>

(* ... and only when that is done the process is dropped: TIMEOUT.          *)
TimeoutReturns ==
    /\ cpc = "late" /\ work[proc] \in Ended
    /\ proc' = 0
    /\ cpc' = "idle"
    /\ UNCHANGED <<callFrame, work, timeouts, answer>>

(* get_received_message for the type that was received; another type throws *)
Give(via) ==
    /\ recv # NoReply
    /\ answer' = [of |-> recv.of, for |-> n, via |-> via]

(* Mutant: get_result does not look for an exception.                       *)
GetResultUnchecked ==
    /\ cpc = "idle" /\ proc # 0 /\ work[proc] \in Ended
    /\ Give("ready")
    /\ UNCHANGED <<callFrame, cpc, proc, work, timeouts>>

(* get_result with a finished process: throw_if_ready_and_error first.      *)
GetResult ==
    /\ cpc = "idle" /\ proc # 0 /\ work[proc] = "value"
    /\ Give("ready")
    /\ UNCHANGED <<callFrame, cpc, proc, work, timeouts>>

(* get_result with a busy process waits for it ...                          *)
GetResultWaits ==
    /\ cpc = "idle" /\ proc # 0 /\ work[proc] \in Running
    /\ cpc' = "result"
    /\ UNCHANGED <<callFrame, proc, work, timeouts, answer>>

(* ... and then hands out recv_hmsg_ without a look at the exception, or    *)
(* throws: Timeout, or a message of another type.                           *)
GetResultWaited ==
    /\ cpc = "result" /\ work[proc] \in Ended
    /\ Give("waited") \/ UNCHANGED answer
    /\ cpc' = "idle"
    /\ UNCHANGED <<callFrame, proc, work, timeouts>>

(* get_intermediate_result: has_more() is false, so recv_hmsg_ at once,     *)
(* after request(false) also before the worker has ended ("early").         *)
GetIntermediateResult ==
    /\ cpc = "idle" /\ proc # 0
    /\ Give(IF work[proc] \in Ended THEN "intermediate" ELSE "early")
    /\ UNCHANGED <<callFrame, cpc, proc, work, timeouts>>

(* connect(host, port) of a Client whose process is ready: no process, a    *)
(* new socket without options, but the same MessageProcess.                 *)
Connect ==
    /\ cpc = "idle" /\ proc # 0 /\ work[proc] \in Ended
    /\ proc' = 0
    /\ timeouts' = FALSE
    /\ open' = TRUE /\ c2s' = <<>> /\ s2c' = <<>> /\ scur' = 0
    /\ lost' = {} /\ answer' = NoAnswer
    /\ UNCHANGED <<cpc, n, kind, mode, work, recv, aborted>>

-----------------------------------------------------------------------------
(* The worker thread of request i: network::request                         *)

workFrame == <<callVars, timeouts, answer>>

Ends(i, how) == work' = [work EXCEPT ![i] = how]

(* send_message: what is sent to a server that has gone is lost.            *)
SendMessage(i) ==
    /\ work[i] = "send"
    /\ c2s' = IF open THEN Append(c2s, i) ELSE c2s
    /\ Ends(i, "recv")
    /\ UNCHANGED <<workFrame, recv, open, s2c, scur, lost, aborted>>

(* ::send fails, at once or after a part of the message.                    *)
SendFails(i) ==
    /\ work[i] = "send" /\ (timeouts \/ ~open)
    /\ Ends(i, "error")
    /\ lost' = lost \cup {i}
    /\ \/ open /\ c2s' = Append(c2s, 0)
       \/ UNCHANGED c2s
    /\ UNCHANGED <<workFrame, recv, open, s2c, scur, aborted>>

(* receive_any_message takes the next message, whatever it answers.         *)
ReceiveMessage(i) ==
    /\ work[i] = "recv" /\ s2c # <<>> /\ Head(s2c) # Junk
    /\ recv' = Head(s2c)
    /\ s2c' = Tail(s2c)
    /\ Ends(i, "value")
    /\ lost' = IF Head(s2c).of = i THEN lost ELSE lost \cup {i}
    /\ UNCHANGED <<workFrame, open, c2s, scur, aborted>>

(* recv times out, or meets the end of the stream eleven times: before the  *)
(* message has begun or in the middle of it.                                *)
ReceiveFails(i) ==
    /\ work[i] = "recv"
    /\ \/ (timeouts \/ (~open /\ s2c = <<>>)) /\ UNCHANGED s2c
       \/ s2c # <<>> /\ timeouts /\ s2c' = [s2c EXCEPT ![1] = Junk]
    /\ Ends(i, "error")
    /\ lost' = lost \cup {i}
    /\ UNCHANGED <<workFrame, recv, open, c2s, scur, aborted>>

(* Out of step: the length is payload.  The message does not parse, with    *)
(* recv_hmsg_ empty or not, or resize() throws in a noexcept function.      *)
ReceiveJunk(i) ==
    /\ work[i] = "recv" /\ s2c # <<>> /\ Head(s2c) = Junk
    /\ recv' \in {recv, NoReply}
    /\ aborted' \in BOOLEAN
    /\ Ends(i, "error")
    /\ lost' = lost \cup {i}
    /\ UNCHANGED <<workFrame, netVars>>

-----------------------------------------------------------------------------
(* The server: Process<Server>::reply, one call at a time per connection    *)

serverFrame == <<callVars, work, timeouts, recv, lost, answer, aborted>>

ServerReceive ==
    /\ scur = 0 /\ open /\ c2s # <<>> /\ Head(c2s) # 0
    /\ scur' = Head(c2s)
    /\ c2s' = Tail(c2s)
    /\ UNCHANGED <<serverFrame, open, s2c>>

(* Its own 5 second limit in the middle of a message: reply returns.        *)
ServerReceiveFails ==
    /\ scur = 0 /\ open /\ c2s # <<>>
    /\ c2s' = [c2s EXCEPT ![1] = 0]
    /\ UNCHANGED <<serverFrame, open, s2c, scur>>

(* The server terminates or stops; what it has sent still arrives.          *)
ServerCloses ==
    /\ open
    /\ open' = FALSE /\ c2s' = <<>> /\ scur' = 0
    /\ UNCHANGED <<serverFrame, s2c>>

(* send_message of the server: the message, a part of it, or nothing.       *)
ServerSends(type) ==
    /\ \/ s2c' = Append(s2c, [of |-> scur, type |-> type])
       \/ s2c' = Append(s2c, Junk)
       \/ UNCHANGED s2c
    /\ scur' = 0
    /\ UNCHANGED <<serverFrame, open, c2s>>

ReplyIndexRef ==
    /\ scur # 0 /\ kind[scur] = "INDEX_REF"
    /\ ServerSends("DATA_REPLY_INDEX_REF")

(* Mutant: the return after send_error is missing and a second message      *)
(* follows the first.                                                       *)
ReplyExtractErrorTwice ==
    /\ scur # 0 /\ kind[scur] = "DATA_REQUEST"
    /\ s2c' = s2c \o <<[of |-> scur, type |-> "ERROR"], [of |-> scur, type |-> "ERROR"]>>
    /\ scur' = 0
    /\ UNCHANGED <<serverFrame, open, c2s>>

(* DATA_REQUEST: a bad form, no temporary directory, a bad path, or a file  *)
(* in the directory that is not an archive.                                 *)
ReplyExtractError ==
    /\ scur # 0 /\ kind[scur] = "DATA_REQUEST"
    /\ ServerSends("ERROR")

(* DATA_REQUEST without an answer: execute() fails, the directory stays     *)
(* empty, or file_size throws because it is asked for the directory.        *)
(* INDEX: get_received_message<INDEX_REF> throws.  SERVER_STATUS and        *)
(* TRANSACTION: nothing is done.                                            *)
ReplyNothing ==
    /\ scur # 0 /\ kind[scur] # "INDEX_REF"
    /\ scur' = 0
    /\ UNCHANGED <<serverFrame, open, c2s, s2c>>

-----------------------------------------------------------------------------
Caller ==
    \/ Replace \/ RequestReturns \/ TimeIsUp \/ TimeoutReturns \/ GetResultWaited

Worker(i) ==
    SendMessage(i) \/ SendFails(i) \/ ReceiveMessage(i) \/ ReceiveFails(i) \/ ReceiveJunk(i)

Server ==
    \/ ServerReceive \/ ServerReceiveFails \/ ServerCloses
    \/ ReplyIndexRef \/ ReplyExtractError \/ ReplyNothing

Next ==
    /\ ~aborted
    /\ \/ \E k \in Client_MsgT, md \in Modes : Request(k, md)
       \/ Caller
       \/ GetResult \/ GetResultWaits \/ GetIntermediateResult \/ Connect
       \/ \E i \in Requests : Worker(i)
       \/ Server

Spec == Init /\ [][Next]_vars

(* Threads of the client are scheduled and its time limits expire.  The     *)
(* server owes nothing: it may be silent, and its pool may lose the event.  *)
Fairness == WF_vars(~aborted /\ Caller) /\ \A i \in Requests : WF_vars(~aborted /\ Worker(i))

FairSpec == Spec /\ Fairness

-----------------------------------------------------------------------------
(* Properties                                                               *)

TypeOK ==
    /\ cpc \in {"idle", "replace", "wait", "late", "result"}
    /\ n \in 0..MaxRequests /\ kind \in [Requests -> Client_MsgT]
    /\ mode \in Modes /\ proc \in 0..MaxRequests
    /\ work \in [Requests -> {"none"} \cup Running \cup Ended]
    /\ timeouts \in BOOLEAN /\ open \in BOOLEAN /\ aborted \in BOOLEAN
    /\ recv \in Replies \cup {NoReply}
    /\ c2s \in Seq(0..MaxRequests) /\ s2c \in Seq(Messages)
    /\ scur \in 0..MaxRequests /\ lost \subseteq Requests
    /\ answer \in [of : 0..MaxRequests, for : 0..MaxRequests,
                   via : {"none", "ready", "waited", "intermediate", "early"}]

(* One worker at a time uses the socket and the MessageProcess, which have  *)
(* no lock of their own: a new request first joins the last one's worker.   *)
OneWorker ==
    \A i, j \in Requests : work[i] \in Running /\ work[j] \in Running => i = j

(* get_result, and get_intermediate_result once the worker has ended, give  *)
(* the reply to the last request.  Otherwise the worker of that request     *)
(* failed, or the reply is the late one of a request that went without it   *)
(* on the same connection: never a message the server sent beyond its due,  *)
(* and never the reply an earlier request was given.                        *)
ResultFresh ==
    answer.via \in {"ready", "waited", "intermediate"} =>
        answer.of = answer.for \/ answer.of \in lost \/ work[answer.for] = "error"

(* When it found the process ready, get_result does not hand out a reply    *)
(* kept in recv_hmsg_ from an earlier request or an earlier connection.     *)
ReadyResultIsNew ==
    answer.via = "ready" => answer.of = answer.for \/ answer.of \in lost

(* A caller of request(bool) or get_result that waits, for its request or   *)
(* for the worker of the one before it, is released: the time limits of the *)
(* socket end recv, although the server leaves most kinds of requests       *)
(* without an answer.  request(int) sets no limits and is not released.     *)
CallReturns ==
    cpc \in {"replace", "wait", "result"} /\ mode # "timed" ~> cpc = "idle" \/ aborted

-----------------------------------------------------------------------------
(* The inductive invariant                                                  *)

(* The worker that runs belongs to process, which is the last request's,    *)
(* and to the one before it while that is being replaced.                   *)
WorkerInv ==
    /\ proc = 0 \/ (IF cpc = "replace" THEN proc = n - 1 ELSE proc = n)
    /\ cpc \in {"wait", "late", "result"} => proc # 0
    /\ cpc = "replace" => n # 0
    /\ \A i \in Requests : i > n \/ (i = n /\ cpc = "replace") => work[i] = "none"
    /\ \A i \in Requests : work[i] \in Running => i = proc

(* A number is in flight at most once, on its way to the server, in its     *)
(* hands or on its way back, and only if its worker waits or has given up.  *)
Owed == lost \cup {i \in Requests : work[i] = "recv"}

ToServerInv ==
    \A j \in 1..Len(c2s) : c2s[j] # 0 =>
        /\ c2s[j] \in Owed /\ c2s[j] # scur
        /\ \A k \in 1..Len(c2s) : c2s[k] = c2s[j] => k = j
        /\ \A k \in 1..Len(s2c) : s2c[k].of # c2s[j]

FromServerInv ==
    \A j \in 1..Len(s2c) : s2c[j].of # 0 =>
        /\ s2c[j].of \in Owed /\ s2c[j].of # scur
        /\ \A k \in 1..Len(s2c) : s2c[k].of = s2c[j].of => k = j

FlightInv ==
    /\ \A i \in Requests : work[i] \in {"none", "send"} => i \notin Owed
    /\ ToServerInv /\ FromServerInv
    /\ scur # 0 => scur \in Owed

(* What recv_hmsg_ holds when the last worker has ended well.               *)
RecvInv ==
    /\ proc # 0 /\ work[proc] = "value" => recv.of = proc \/ recv.of \in lost
    /\ answer.via # "none" => answer.for \in Requests

IInv ==
    /\ TypeOK /\ WorkerInv /\ FlightInv /\ RecvInv
    /\ OneWorker /\ ResultFresh /\ ReadyResultIsNew
=============================================================================

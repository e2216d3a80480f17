-------------------------- MODULE Exchange_proofs --------------------------
(***************************************************************************)
(* Proofs about Exchange, for any number of requests: one worker at a time *)
(* and what get_result may hand out.  IInv says, beyond the two results,   *)
(* which worker may run (WorkerInv), that a request is at one place of the *)
(* connection only and is still owed (FlightInv), and what recv_hmsg_ may  *)
(* hold when a worker has ended (RecvInv).                                 *)
(***************************************************************************)
EXTENDS Exchange, SequenceTheorems, TLAPS

(* A message put at the end of a stream.                                    *)
LEMMA AppendFacts ==
    ASSUME NEW S, NEW s \in Seq(S), NEW e \in S
    PROVE  /\ Append(s, e) \in Seq(S)
           /\ Len(s) \in Nat
           /\ Len(Append(s, e)) = Len(s) + 1
           /\ \A j \in 1..Len(s) : Append(s, e)[j] = s[j]
           /\ Append(s, e)[Len(s) + 1] = e
OBVIOUS

(* A message taken from the front of a stream.                              *)
LEMMA TailFacts ==
    ASSUME NEW S, NEW s \in Seq(S), s # <<>>
    PROVE  /\ Tail(s) \in Seq(S)
           /\ Len(s) \in Nat /\ Len(s) >= 1
           /\ Head(s) = s[1] /\ Head(s) \in S
           /\ Len(Tail(s)) = Len(s) - 1
           /\ \A j \in 1..(Len(s) - 1) : Tail(s)[j] = s[j + 1]
OBVIOUS

(* A message of which a part has been read.                                 *)
LEMMA FirstFacts ==
    ASSUME NEW S, NEW s \in Seq(S), s # <<>>, NEW e \in S
    PROVE  /\ [s EXCEPT ![1] = e] \in Seq(S)
           /\ Len(s) \in Nat
           /\ Len([s EXCEPT ![1] = e]) = Len(s)
           /\ [s EXCEPT ![1] = e][1] = e
           /\ \A j \in 1..Len(s) : j # 1 => [s EXCEPT ![1] = e][j] = s[j]
<1>1. Len(s) \in Nat /\ 1 \in 1..Len(s)
    OBVIOUS
<1>2. s \in [1..Len(s) -> S]
    BY LenProperties
<1> QED
    BY <1>1, <1>2, ExceptSeq

(* What the streams hold, element by element.                               *)
LEMMA RangeFacts ==
    ASSUME TypeOK
    PROVE  /\ \A j \in 1..Len(c2s) : c2s[j] \in 0..MaxRequests
           /\ \A j \in 1..Len(s2c) : s2c[j] \in Messages /\ s2c[j].of \in 0..MaxRequests
<1>1. \A j \in 1..Len(c2s) : c2s[j] \in 0..MaxRequests
    BY ElementOfSeq DEF TypeOK
<1>2. \A j \in 1..Len(s2c) : s2c[j] \in Messages
    BY ElementOfSeq DEF TypeOK
<1>3. \A m \in Messages : m.of \in 0..MaxRequests
    BY RequestsAssumption DEF Messages, Replies, Junk, Requests
<1> QED
    BY <1>1, <1>2, <1>3

(* The types are kept by every step.                                        *)
LEMMA StepTypeOK == IInv /\ [Next]_vars => TypeOK'
<1> SUFFICES ASSUME IInv, [Next]_vars PROVE TypeOK'
    OBVIOUS
<1> USE RequestsAssumption DEF IInv, TypeOK, Requests, Running, Ended, Ends,
        callVars, netVars, callFrame, workFrame, serverFrame
<1>1. CASE \E k \in Client_MsgT, md \in Modes : Request(k, md)
    BY <1>1 DEF Request
<1>2. CASE Replace
    BY <1>2 DEF Replace
<1>3. CASE RequestReturns
    BY <1>3 DEF RequestReturns
<1>4. CASE TimeIsUp
    BY <1>4 DEF TimeIsUp
<1>5. CASE TimeoutReturns
    BY <1>5 DEF TimeoutReturns
<1>6. CASE GetResult
    <2>1. recv.of \in 0..MaxRequests
        BY DEF Replies, NoReply
    <2> QED
        BY <1>6, <2>1 DEF GetResult, Give
<1>7. CASE GetResultWaits
    BY <1>7 DEF GetResultWaits
<1>8. CASE GetResultWaited
    <2>1. recv.of \in 0..MaxRequests
        BY DEF Replies, NoReply
    <2> QED
        BY <1>8, <2>1 DEF GetResultWaited, Give
<1>9. CASE GetIntermediateResult
    <2>1. recv.of \in 0..MaxRequests
        BY DEF Replies, NoReply
    <2> QED
        BY <1>9, <2>1 DEF GetIntermediateResult, Give
<1>10. CASE Connect
    <2>1. c2s' \in Seq(0..MaxRequests) /\ s2c' \in Seq(Messages)
        BY <1>10 DEF Connect
    <2>2. open' \in BOOLEAN /\ timeouts' \in BOOLEAN
        BY <1>10 DEF Connect
    <2> QED
        BY <1>10, <2>1, <2>2 DEF Connect, NoAnswer
<1>11. ASSUME NEW i \in Requests, SendMessage(i) PROVE TypeOK'
    <2>0. i \in 0..MaxRequests /\ c2s \in Seq(0..MaxRequests)
        OBVIOUS
    <2>1. Append(c2s, i) \in Seq(0..MaxRequests)
        BY <2>0, AppendFacts
    <2> QED
        BY <1>11, <2>1 DEF SendMessage
<1>12. ASSUME NEW i \in Requests, SendFails(i) PROVE TypeOK'
    <2>0. 0 \in 0..MaxRequests /\ c2s \in Seq(0..MaxRequests)
        OBVIOUS
    <2>1. Append(c2s, 0) \in Seq(0..MaxRequests)
        BY <2>0, AppendFacts
    <2> QED
        BY <1>12, <2>1 DEF SendFails
<1>13. ASSUME NEW i \in Requests, ReceiveMessage(i) PROVE TypeOK'
    <2>1. s2c' \in Seq(Messages) /\ Head(s2c) \in Replies
        BY <1>13, TailFacts DEF ReceiveMessage, Messages
    <2> QED
        BY <1>13, <2>1 DEF ReceiveMessage
<1>14. ASSUME NEW i \in Requests, ReceiveFails(i) PROVE TypeOK'
    <2>1. s2c # <<>> => [s2c EXCEPT ![1] = Junk] \in Seq(Messages)
        BY FirstFacts DEF Messages
    <2> QED
        BY <1>14, <2>1 DEF ReceiveFails
<1>15. ASSUME NEW i \in Requests, ReceiveJunk(i) PROVE TypeOK'
    BY <1>15 DEF ReceiveJunk
<1>16. CASE ServerReceive
    <2>1. c2s' \in Seq(0..MaxRequests) /\ Head(c2s) \in 0..MaxRequests
        BY <1>16, TailFacts DEF ServerReceive
    <2> QED
        BY <1>16, <2>1 DEF ServerReceive
<1>17. CASE ServerReceiveFails
    <2>1. c2s' \in Seq(0..MaxRequests)
        BY <1>17, FirstFacts DEF ServerReceiveFails
    <2> QED
        BY <1>17, <2>1 DEF ServerReceiveFails
<1>18. CASE ServerCloses
    <2>1. c2s' \in Seq(0..MaxRequests)
        BY <1>18 DEF ServerCloses
    <2>2. open' \in BOOLEAN
        BY <1>18 DEF ServerCloses
    <2> QED
        BY <1>18, <2>1, <2>2 DEF ServerCloses
<1>19. CASE ReplyIndexRef
    <2>1. scur \in Requests
        BY <1>19 DEF ReplyIndexRef
    <2>2. [of |-> scur, type |-> "DATA_REPLY_INDEX_REF"] \in Replies /\ Junk \in {Junk}
        BY <2>1 DEF Replies
    <2>3. /\ Append(s2c, [of |-> scur, type |-> "DATA_REPLY_INDEX_REF"]) \in Seq(Messages)
          /\ Append(s2c, Junk) \in Seq(Messages)
        BY <2>2, AppendFacts DEF Messages
    <2>4. s2c' \in Seq(Messages)
        BY <1>19, <2>3 DEF ReplyIndexRef, ServerSends
    <2> QED
        BY <1>19, <2>4 DEF ReplyIndexRef, ServerSends
<1>20. CASE ReplyExtractError
    <2>1. scur \in Requests
        BY <1>20 DEF ReplyExtractError
    <2>2. [of |-> scur, type |-> "ERROR"] \in Replies /\ Junk \in {Junk}
        BY <2>1 DEF Replies
    <2>3. /\ Append(s2c, [of |-> scur, type |-> "ERROR"]) \in Seq(Messages)
          /\ Append(s2c, Junk) \in Seq(Messages)
        BY <2>2, AppendFacts DEF Messages
    <2>4. s2c' \in Seq(Messages)
        BY <1>20, <2>3 DEF ReplyExtractError, ServerSends
    <2> QED
        BY <1>20, <2>4 DEF ReplyExtractError, ServerSends
<1>21. CASE ReplyNothing
    BY <1>21 DEF ReplyNothing
<1>22. CASE UNCHANGED vars
    BY <1>22 DEF vars
<1> QED
    BY <1>1, <1>2, <1>3, <1>4, <1>5, <1>6, <1>7, <1>8, <1>9, <1>10, <1>11,
       <1>12, <1>13, <1>14, <1>15, <1>16, <1>17, <1>18, <1>19, <1>20, <1>21, <1>22
    DEF Next, Caller, Worker, Server

(* make_process joins the last worker before the next one starts.           *)
LEMMA StepWorker == IInv /\ [Next]_vars => WorkerInv' /\ OneWorker'
<1> SUFFICES ASSUME IInv, [Next]_vars PROVE WorkerInv' /\ OneWorker'
    OBVIOUS
<1> USE RequestsAssumption DEF IInv, TypeOK, WorkerInv, OneWorker, Requests, Running,
        Ended, Ends, callVars, netVars, callFrame, workFrame, serverFrame
<1>1. CASE \E k \in Client_MsgT, md \in Modes : Request(k, md)
    BY <1>1 DEF Request
<1>2. CASE Replace
    BY <1>2 DEF Replace
<1>3. CASE RequestReturns
    BY <1>3 DEF RequestReturns
<1>4. CASE TimeIsUp
    BY <1>4 DEF TimeIsUp
<1>5. CASE TimeoutReturns
    BY <1>5 DEF TimeoutReturns
<1>6. CASE GetResult
    BY <1>6 DEF GetResult, Give
<1>7. CASE GetResultWaits
    BY <1>7 DEF GetResultWaits
<1>8. CASE GetResultWaited
    BY <1>8 DEF GetResultWaited, Give
<1>9. CASE GetIntermediateResult
    BY <1>9 DEF GetIntermediateResult, Give
<1>10. CASE Connect
    BY <1>10 DEF Connect, NoAnswer
<1>11. ASSUME NEW i \in Requests, SendMessage(i) PROVE WorkerInv' /\ OneWorker'
    BY <1>11 DEF SendMessage
<1>12. ASSUME NEW i \in Requests, SendFails(i) PROVE WorkerInv' /\ OneWorker'
    BY <1>12 DEF SendFails
<1>13. ASSUME NEW i \in Requests, ReceiveMessage(i) PROVE WorkerInv' /\ OneWorker'
    BY <1>13 DEF ReceiveMessage
<1>14. ASSUME NEW i \in Requests, ReceiveFails(i) PROVE WorkerInv' /\ OneWorker'
    BY <1>14 DEF ReceiveFails
<1>15. ASSUME NEW i \in Requests, ReceiveJunk(i) PROVE WorkerInv' /\ OneWorker'
    BY <1>15 DEF ReceiveJunk
<1>16. CASE ServerReceive
    BY <1>16 DEF ServerReceive
<1>17. CASE ServerReceiveFails
    BY <1>17 DEF ServerReceiveFails
<1>18. CASE ServerCloses
    BY <1>18 DEF ServerCloses
<1>19. CASE ReplyIndexRef
    BY <1>19 DEF ReplyIndexRef, ServerSends
<1>20. CASE ReplyExtractError
    BY <1>20 DEF ReplyExtractError, ServerSends
<1>21. CASE ReplyNothing
    BY <1>21 DEF ReplyNothing
<1>22. CASE UNCHANGED vars
    BY <1>22 DEF vars
<1> QED
    BY <1>1, <1>2, <1>3, <1>4, <1>5, <1>6, <1>7, <1>8, <1>9, <1>10, <1>11,
       <1>12, <1>13, <1>14, <1>15, <1>16, <1>17, <1>18, <1>19, <1>20, <1>21, <1>22
    DEF Next, Caller, Worker, Server

(* What a worker leaves in recv_hmsg_, and what get_result makes of it.     *)
LEMMA StepResult == IInv /\ [Next]_vars => RecvInv' /\ ResultFresh' /\ ReadyResultIsNew'
<1> SUFFICES ASSUME IInv, [Next]_vars PROVE RecvInv' /\ ResultFresh' /\ ReadyResultIsNew'
    OBVIOUS
<1> USE RequestsAssumption DEF IInv, TypeOK, WorkerInv, OneWorker, RecvInv, ResultFresh,
        ReadyResultIsNew, Requests, Running, Ended, Ends, callVars, netVars,
        callFrame, workFrame, serverFrame
<1>1. CASE \E k \in Client_MsgT, md \in Modes : Request(k, md)
    BY <1>1 DEF Request
<1>2. CASE Replace
    BY <1>2 DEF Replace
<1>3. CASE RequestReturns
    BY <1>3 DEF RequestReturns
<1>4. CASE TimeIsUp
    BY <1>4 DEF TimeIsUp
<1>5. CASE TimeoutReturns
    BY <1>5 DEF TimeoutReturns
<1>6. CASE GetResult
    BY <1>6 DEF GetResult, Give
<1>7. CASE GetResultWaits
    BY <1>7 DEF GetResultWaits
<1>8. CASE GetResultWaited
    BY <1>8 DEF GetResultWaited, Give
<1>9. CASE GetIntermediateResult
    BY <1>9 DEF GetIntermediateResult, Give
<1>10. CASE Connect
    BY <1>10 DEF Connect, NoAnswer
<1>11. ASSUME NEW i \in Requests, SendMessage(i)
       PROVE  RecvInv' /\ ResultFresh' /\ ReadyResultIsNew'
    BY <1>11 DEF SendMessage
<1>12. ASSUME NEW i \in Requests, SendFails(i)
       PROVE  RecvInv' /\ ResultFresh' /\ ReadyResultIsNew'
    BY <1>12 DEF SendFails
<1>13. ASSUME NEW i \in Requests, ReceiveMessage(i)
       PROVE  RecvInv' /\ ResultFresh' /\ ReadyResultIsNew'
    <2>1. Head(s2c) = s2c[1] /\ 1 \in 1..Len(s2c) /\ Head(s2c) \in Replies
        BY <1>13, TailFacts DEF ReceiveMessage, Messages
    <2>2. Head(s2c).of \in Requests
        BY <2>1 DEF Replies
    <2>3. Head(s2c).of \in Owed
        BY <2>1, <2>2 DEF FlightInv, FromServerInv
    <2>4. Head(s2c).of = i \/ Head(s2c).of \in lost
        BY <1>13, <2>2, <2>3 DEF Owed, ReceiveMessage
    <2> QED
        BY <1>13, <2>4 DEF ReceiveMessage
<1>14. ASSUME NEW i \in Requests, ReceiveFails(i)
       PROVE  RecvInv' /\ ResultFresh' /\ ReadyResultIsNew'
    BY <1>14 DEF ReceiveFails
<1>15. ASSUME NEW i \in Requests, ReceiveJunk(i)
       PROVE  RecvInv' /\ ResultFresh' /\ ReadyResultIsNew'
    BY <1>15 DEF ReceiveJunk
<1>16. CASE ServerReceive
    BY <1>16 DEF ServerReceive
<1>17. CASE ServerReceiveFails
    BY <1>17 DEF ServerReceiveFails
<1>18. CASE ServerCloses
    BY <1>18 DEF ServerCloses
<1>19. CASE ReplyIndexRef
    BY <1>19 DEF ReplyIndexRef, ServerSends
<1>20. CASE ReplyExtractError
    BY <1>20 DEF ReplyExtractError, ServerSends
<1>21. CASE ReplyNothing
    BY <1>21 DEF ReplyNothing
<1>22. CASE UNCHANGED vars
    BY <1>22 DEF vars
<1> QED
    BY <1>1, <1>2, <1>3, <1>4, <1>5, <1>6, <1>7, <1>8, <1>9, <1>10, <1>11,
       <1>12, <1>13, <1>14, <1>15, <1>16, <1>17, <1>18, <1>19, <1>20, <1>21, <1>22
    DEF Next, Caller, Worker, Server

(* A request stays at one place of the connection and stays owed.           *)
LEMMA StepFlight == IInv /\ [Next]_vars => FlightInv'
<1> SUFFICES ASSUME IInv, [Next]_vars PROVE FlightInv'
    OBVIOUS
<1>a. TypeOK /\ WorkerInv /\ FlightInv /\ TypeOK'
    BY StepTypeOK DEF IInv
<1>b. /\ \A j \in 1..Len(c2s) : c2s[j] \in 0..MaxRequests
      /\ \A j \in 1..Len(s2c) : s2c[j] \in Messages /\ s2c[j].of \in 0..MaxRequests
      /\ Len(c2s) \in Nat /\ Len(s2c) \in Nat
    BY <1>a, RangeFacts, LenProperties DEF TypeOK
<1>1. CASE \E k \in Client_MsgT, md \in Modes : Request(k, md)
    <2>1. UNCHANGED <<c2s, s2c, scur, lost, work>> /\ Owed' = Owed
        BY <1>1 DEF Owed, Request, netVars
    <2> QED
        BY <1>a, <2>1 DEF FlightInv, ToServerInv, FromServerInv
<1>2. CASE Replace
    <2>1. UNCHANGED <<c2s, s2c, scur, lost>> /\ Owed' = Owed
        BY <1>a, <1>2, RequestsAssumption
        DEF TypeOK, WorkerInv, Requests, Owed, Replace, callFrame, netVars
    <2>2. n \in Requests /\ work[n] = "none" /\ work' = [work EXCEPT ![n] = "send"]
        BY <1>a, <1>2 DEF TypeOK, WorkerInv, Requests, Replace
    <2>3. \A x \in Requests : work'[x] \in {"none", "send"} => x \notin Owed'
        BY <1>a, <2>1, <2>2 DEF TypeOK, FlightInv
    <2> QED
        BY <1>a, <2>1, <2>3 DEF FlightInv, ToServerInv, FromServerInv
<1>3. CASE RequestReturns
    <2>1. UNCHANGED <<c2s, s2c, scur, lost, work>> /\ Owed' = Owed
        BY <1>3 DEF Owed, RequestReturns, callFrame, netVars
    <2> QED
        BY <1>a, <2>1 DEF FlightInv, ToServerInv, FromServerInv
<1>4. CASE TimeIsUp
    <2>1. UNCHANGED <<c2s, s2c, scur, lost, work>> /\ Owed' = Owed
        BY <1>4 DEF Owed, TimeIsUp, callFrame, netVars
    <2> QED
        BY <1>a, <2>1 DEF FlightInv, ToServerInv, FromServerInv
<1>5. CASE TimeoutReturns
    <2>1. UNCHANGED <<c2s, s2c, scur, lost, work>> /\ Owed' = Owed
        BY <1>5 DEF Owed, TimeoutReturns, callFrame, netVars
    <2> QED
        BY <1>a, <2>1 DEF FlightInv, ToServerInv, FromServerInv
<1>6. CASE GetResult
    <2>1. UNCHANGED <<c2s, s2c, scur, lost, work>> /\ Owed' = Owed
        BY <1>6 DEF Owed, GetResult, callFrame, netVars
    <2> QED
        BY <1>a, <2>1 DEF FlightInv, ToServerInv, FromServerInv
<1>7. CASE GetResultWaits
    <2>1. UNCHANGED <<c2s, s2c, scur, lost, work>> /\ Owed' = Owed
        BY <1>7 DEF Owed, GetResultWaits, callFrame, netVars
    <2> QED
        BY <1>a, <2>1 DEF FlightInv, ToServerInv, FromServerInv
<1>8. CASE GetResultWaited
    <2>1. UNCHANGED <<c2s, s2c, scur, lost, work>> /\ Owed' = Owed
        BY <1>8 DEF Owed, GetResultWaited, callFrame, netVars
    <2> QED
        BY <1>a, <2>1 DEF FlightInv, ToServerInv, FromServerInv
<1>9. CASE GetIntermediateResult
    <2>1. UNCHANGED <<c2s, s2c, scur, lost, work>> /\ Owed' = Owed
        BY <1>9 DEF Owed, GetIntermediateResult, callFrame, netVars
    <2> QED
        BY <1>a, <2>1 DEF FlightInv, ToServerInv, FromServerInv
<1>10. CASE Connect
    BY <1>a, <1>10 DEF Connect, FlightInv, ToServerInv, FromServerInv, Owed
<1>11. ASSUME NEW i \in Requests, SendMessage(i) PROVE FlightInv'
    <2>1. /\ UNCHANGED <<s2c, scur, lost>>
          /\ i \notin Owed /\ Owed' = Owed \cup {i}
          /\ work' = [work EXCEPT ![i] = "recv"]
        BY <1>a, <1>11, RequestsAssumption
        DEF TypeOK, FlightInv, Requests, Owed, Ends, Running, Ended, netVars, SendMessage
    <2>9. \A x \in Requests : work'[x] \in {"none", "send"} => x \notin Owed'
        BY <1>a, <2>1 DEF TypeOK, FlightInv
    <2>2. CASE open
        <3>1. i \in 0..MaxRequests /\ c2s \in Seq(0..MaxRequests) /\ i # 0
            BY <1>a, RequestsAssumption DEF TypeOK, Requests
        <3>2. /\ Len(c2s') = Len(c2s) + 1
              /\ \A j \in 1..Len(c2s) : c2s'[j] = c2s[j]
              /\ c2s'[Len(c2s) + 1] = i
            BY <2>2, <3>1, <1>11, AppendFacts DEF SendMessage
        <3>3. ToServerInv'
            <4> SUFFICES ASSUME NEW j \in 1..Len(c2s'), c2s'[j] # 0
                         PROVE  /\ c2s'[j] \in Owed' /\ c2s'[j] # scur'
                                /\ \A k \in 1..Len(c2s') : c2s'[k] = c2s'[j] => k = j
                                /\ \A k \in 1..Len(s2c') : s2c'[k].of # c2s'[j]
                BY DEF ToServerInv
            <4>1. CASE j \in 1..Len(c2s)
                <5>1. /\ c2s[j] \in Owed /\ c2s[j] # scur
                      /\ \A k \in 1..Len(c2s) : c2s[k] = c2s[j] => k = j
                      /\ \A k \in 1..Len(s2c) : s2c[k].of # c2s[j]
                    BY <1>a, <3>2, <4>1 DEF FlightInv, ToServerInv
                <5>2. \A k \in 1..Len(c2s') : k \in 1..Len(c2s) \/ c2s'[k] = i
                    BY <1>b, <3>2
                <5> QED
                    BY <2>1, <3>2, <4>1, <5>1, <5>2
            <4>2. CASE j = Len(c2s) + 1
                <5>1. i # scur /\ \A k \in 1..Len(s2c) : s2c[k].of # i
                    BY <1>a, <2>1, <3>1 DEF FlightInv, FromServerInv
                <5>2. \A k \in 1..Len(c2s) : c2s[k] # i
                    BY <1>a, <2>1, <3>1 DEF FlightInv, ToServerInv
                <5>3. \A k \in 1..Len(c2s') : k = j \/ (k \in 1..Len(c2s) /\ c2s'[k] = c2s[k])
                    BY <1>b, <3>2, <4>2
                <5> QED
                    BY <2>1, <3>2, <4>2, <5>1, <5>2, <5>3
            <4> QED
                BY <1>b, <3>2, <4>1, <4>2
        <3> QED
            BY <1>a, <2>1, <2>9, <3>3 DEF FlightInv, FromServerInv
    <2>3. CASE ~open
        BY <1>a, <2>1, <2>3, <2>9, <1>11 DEF FlightInv, ToServerInv, FromServerInv, SendMessage
    <2> QED
        BY <2>2, <2>3
<1>12. ASSUME NEW i \in Requests, SendFails(i) PROVE FlightInv'
    <2>1. /\ UNCHANGED <<s2c, scur>> /\ Owed' = Owed \cup {i}
          /\ work' = [work EXCEPT ![i] = "error"]
        BY <1>a, <1>12, RequestsAssumption
        DEF TypeOK, FlightInv, Requests, Owed, Ends, Running, Ended, netVars, SendFails
    <2>9. \A x \in Requests : work'[x] \in {"none", "send"} => x \notin Owed'
        BY <1>a, <2>1 DEF TypeOK, FlightInv
    <2>2. CASE c2s' = Append(c2s, 0)
        <3>1. 0 \in 0..MaxRequests /\ c2s \in Seq(0..MaxRequests)
            BY <1>a, RequestsAssumption DEF TypeOK
        <3>2. /\ Len(c2s') = Len(c2s) + 1
              /\ \A j \in 1..Len(c2s) : c2s'[j] = c2s[j]
              /\ c2s'[Len(c2s) + 1] = 0
            BY <2>2, <3>1, AppendFacts
        <3>3. \A k \in 1..Len(c2s') : c2s'[k] # 0 => k \in 1..Len(c2s) /\ c2s'[k] = c2s[k]
            BY <1>b, <3>2
        <3>4. ToServerInv'
            BY <1>a, <2>1, <3>3 DEF FlightInv, ToServerInv
        <3> QED
            BY <1>a, <2>1, <2>9, <3>4 DEF FlightInv, FromServerInv
    <2>3. CASE UNCHANGED c2s
        BY <1>a, <2>1, <2>3, <2>9 DEF FlightInv, ToServerInv, FromServerInv
    <2> QED
        BY <2>2, <2>3, <1>12 DEF SendFails
<1>13. ASSUME NEW i \in Requests, ReceiveMessage(i) PROVE FlightInv'
    <2>1. /\ Len(s2c) >= 1 /\ Len(s2c') = Len(s2c) - 1
          /\ \A j \in 1..(Len(s2c) - 1) : s2c'[j] = s2c[j + 1]
          /\ Head(s2c) = s2c[1] /\ Head(s2c) \in Messages
        BY <1>a, <1>13, TailFacts DEF TypeOK, ReceiveMessage
    <2>2. Head(s2c).of \in Requests
        BY <1>13, <2>1 DEF Messages, Replies, ReceiveMessage
    <2>3. UNCHANGED <<c2s, scur>> /\ work' = [work EXCEPT ![i] = "value"]
        BY <1>13 DEF ReceiveMessage, Ends
    <2>4. Owed' \subseteq Owed /\ Owed \ {Head(s2c).of} \subseteq Owed'
        BY <1>a, <1>13, <2>3 DEF TypeOK, Owed, ReceiveMessage
    <2>5. \A x \in Requests : work'[x] \in {"none", "send"} => x \notin Owed'
        BY <1>a, <2>3, <2>4 DEF TypeOK, FlightInv
    <2>6. ToServerInv'
        <3>1. \A k \in 1..Len(s2c') : k + 1 \in 1..Len(s2c) /\ s2c'[k] = s2c[k + 1]
            <4> TAKE k \in 1..Len(s2c')
            <4>1. k \in 1..(Len(s2c) - 1) /\ k + 1 \in 1..Len(s2c)
                BY <1>b, <2>1
            <4> QED
                BY <2>1, <4>1
        <3>2. \A j \in 1..Len(c2s) : c2s[j] # Head(s2c).of
            <4>1. 1 \in 1..Len(s2c) /\ Head(s2c).of # 0 /\ Head(s2c) = s2c[1]
                BY <1>b, <2>1, <2>2 DEF Requests
            <4> QED
                BY <1>a, <4>1 DEF FlightInv, ToServerInv
        <3> QED
            BY <1>a, <2>3, <2>4, <3>1, <3>2, SMTT(20) DEF FlightInv, ToServerInv
    <2>7. FromServerInv'
        <3> SUFFICES ASSUME NEW j \in 1..Len(s2c'), s2c'[j].of # 0
                     PROVE  /\ s2c'[j].of \in Owed' /\ s2c'[j].of # scur'
                            /\ \A k \in 1..Len(s2c') : s2c'[k].of = s2c'[j].of => k = j
            BY DEF FromServerInv
        <3>1. j + 1 \in 1..Len(s2c) /\ 1 \in 1..Len(s2c) /\ s2c'[j] = s2c[j + 1]
            BY <1>b, <2>1
        <3>2. s2c[j + 1].of # Head(s2c).of
            BY <1>a, <1>b, <2>1, <2>2, <3>1 DEF FlightInv, FromServerInv
        <3>3. \A k \in 1..Len(s2c') : s2c'[k].of = s2c'[j].of => k = j
            <4> SUFFICES ASSUME NEW k \in 1..Len(s2c'), s2c'[k].of = s2c'[j].of
                         PROVE  k = j
                OBVIOUS
            <4>1. k + 1 \in 1..Len(s2c) /\ s2c'[k] = s2c[k + 1]
                BY <1>b, <2>1
            <4>2. k + 1 = j + 1
                BY <1>a, <3>1, <4>1 DEF FlightInv, FromServerInv
            <4> QED
                BY <1>b, <2>1, <4>2
        <3> QED
            BY <1>a, <2>3, <2>4, <3>1, <3>2, <3>3 DEF FlightInv, FromServerInv
    <2>8. scur' # 0 => scur' \in Owed'
        BY <1>a, <1>b, <2>1, <2>2, <2>3, <2>4 DEF FlightInv, FromServerInv
    <2> QED
        BY <2>5, <2>6, <2>7, <2>8 DEF FlightInv
<1>14. ASSUME NEW i \in Requests, ReceiveFails(i) PROVE FlightInv'
    <2>1. /\ UNCHANGED <<c2s, scur>> /\ Owed' = Owed \cup {i}
          /\ work' = [work EXCEPT ![i] = "error"]
        BY <1>a, <1>14, RequestsAssumption
        DEF TypeOK, FlightInv, Requests, Owed, Ends, Running, Ended, netVars, ReceiveFails
    <2>9. \A x \in Requests : work'[x] \in {"none", "send"} => x \notin Owed'
        BY <1>a, <2>1 DEF TypeOK, FlightInv
    <2>2. CASE UNCHANGED s2c
        BY <1>a, <2>1, <2>2, <2>9 DEF FlightInv, ToServerInv, FromServerInv
    <2>3. CASE s2c # <<>> /\ s2c' = [s2c EXCEPT ![1] = Junk]
        <3>1. Junk \in Messages /\ Junk.of = 0
            BY DEF Messages, Junk
        <3>2. /\ Len(s2c') = Len(s2c) /\ s2c'[1].of = 0
              /\ \A j \in 1..Len(s2c) : j # 1 => s2c'[j] = s2c[j]
            BY <1>a, <2>3, <3>1, FirstFacts DEF TypeOK
        <3>3. ToServerInv'
            BY <1>a, <1>b, <2>1, <3>2 DEF FlightInv, ToServerInv, FromServerInv
        <3>4. FromServerInv'
            BY <1>a, <1>b, <2>1, <3>2 DEF FlightInv, ToServerInv, FromServerInv
        <3> QED
            BY <1>a, <2>1, <2>9, <3>3, <3>4 DEF FlightInv
    <2> QED
        BY <2>2, <2>3, <1>14 DEF ReceiveFails
<1>15. ASSUME NEW i \in Requests, ReceiveJunk(i) PROVE FlightInv'
    <2>1. /\ UNCHANGED <<c2s, s2c, scur>> /\ Owed' = Owed \cup {i}
          /\ work' = [work EXCEPT ![i] = "error"]
        BY <1>a, <1>15, RequestsAssumption
        DEF TypeOK, FlightInv, Requests, Owed, Ends, Running, Ended, netVars, ReceiveJunk
    <2>9. \A x \in Requests : work'[x] \in {"none", "send"} => x \notin Owed'
        BY <1>a, <2>1 DEF TypeOK, FlightInv
    <2> QED
        BY <1>a, <2>1, <2>9 DEF FlightInv, ToServerInv, FromServerInv
<1>16. CASE ServerReceive
    <2>1. /\ UNCHANGED <<s2c, work>> /\ scur = 0 /\ Owed' = Owed
        BY <1>a, <1>16, RequestsAssumption
        DEF TypeOK, FlightInv, Requests, Owed, Ends, Running, Ended,
            serverFrame, ServerReceive
    <2>2. /\ Len(c2s) >= 1 /\ Len(c2s') = Len(c2s) - 1
          /\ \A j \in 1..(Len(c2s) - 1) : c2s'[j] = c2s[j + 1]
          /\ scur' = c2s[1] /\ c2s[1] # 0
        BY <1>a, <1>16, TailFacts DEF TypeOK, ServerReceive
    <2>3. 1 \in 1..Len(c2s) /\ \A j \in 1..Len(c2s') : j + 1 \in 1..Len(c2s) /\ j + 1 # 1
        BY <1>b, <2>2
    <2>4. ToServerInv'
        BY <1>a, <1>b, <2>1, <2>2, <2>3 DEF FlightInv, ToServerInv, FromServerInv
    <2>5. FromServerInv'
        BY <1>a, <1>b, <2>1, <2>2, <2>3 DEF FlightInv, ToServerInv, FromServerInv
    <2>6. scur' \in Owed'
        BY <1>a, <2>1, <2>2, <2>3 DEF FlightInv, ToServerInv, FromServerInv
    <2> QED
        BY <1>a, <2>1, <2>4, <2>5, <2>6 DEF FlightInv
<1>17. CASE ServerReceiveFails
    <2>1. /\ UNCHANGED <<s2c, scur, work>> /\ Owed' = Owed
        BY <1>a, <1>17, RequestsAssumption
        DEF TypeOK, FlightInv, Requests, Owed, Ends, Running, Ended,
            serverFrame, ServerReceiveFails
    <2>2. /\ Len(c2s') = Len(c2s) /\ c2s'[1] = 0
          /\ \A j \in 1..Len(c2s) : j # 1 => c2s'[j] = c2s[j]
        <3>1. 0 \in 0..MaxRequests /\ c2s \in Seq(0..MaxRequests) /\ c2s # <<>>
            BY <1>a, <1>17, RequestsAssumption DEF TypeOK, ServerReceiveFails
        <3> QED
            BY <1>17, <3>1, FirstFacts DEF ServerReceiveFails
    <2>3. ToServerInv'
        BY <1>a, <1>b, <2>1, <2>2 DEF FlightInv, ToServerInv, FromServerInv
    <2> QED
        BY <1>a, <2>1, <2>3 DEF FlightInv, FromServerInv
<1>18. CASE ServerCloses
    <2>1. UNCHANGED <<s2c, lost, work>> /\ scur' = 0 /\ Owed' = Owed
        BY <1>18 DEF Owed, ServerCloses, serverFrame
    <2> QED
        BY <1>a, <1>18, <2>1 DEF FlightInv, ToServerInv, FromServerInv, ServerCloses
<1>19. CASE ReplyIndexRef
    <2>1. /\ UNCHANGED <<c2s, work>> /\ scur # 0 /\ scur' = 0 /\ Owed' = Owed
        BY <1>a, <1>19, RequestsAssumption
        DEF TypeOK, FlightInv, Requests, Owed, Ends, Running, Ended,
            serverFrame, ReplyIndexRef, ServerSends
    <2> DEFINE m == [of |-> scur, type |-> "DATA_REPLY_INDEX_REF"]
    <2>2. m \in Messages /\ m.of = scur /\ Junk \in Messages /\ Junk.of = 0
        BY <1>a, <2>1, RequestsAssumption DEF TypeOK, Requests, Replies, Messages, Junk
    <2>3. CASE s2c' = Append(s2c, m) \/ s2c' = Append(s2c, Junk)
        <3>1. /\ Len(s2c') = Len(s2c) + 1
              /\ \A j \in 1..Len(s2c) : s2c'[j] = s2c[j]
              /\ s2c'[Len(s2c) + 1].of \in {scur, 0}
            <4> HIDE DEF m
            <4> QED
                BY <1>a, <2>2, <2>3, AppendFacts, SMTT(20) DEF TypeOK
        <3>2. ToServerInv'
            <4>1. \A k \in 1..Len(s2c') :
                      s2c'[k].of \in {scur, 0} \/ (k \in 1..Len(s2c) /\ s2c'[k] = s2c[k])
                BY <1>b, <3>1
            <4> QED
                BY <1>a, <2>1, <4>1 DEF FlightInv, ToServerInv
        <3>3. FromServerInv'
            <4> SUFFICES ASSUME NEW j \in 1..Len(s2c'), s2c'[j].of # 0
                         PROVE  /\ s2c'[j].of \in Owed' /\ s2c'[j].of # scur'
                                /\ \A k \in 1..Len(s2c') : s2c'[k].of = s2c'[j].of => k = j
                BY DEF FromServerInv
            <4>1. CASE j \in 1..Len(s2c)
                BY <1>a, <1>b, <2>1, <3>1, <4>1 DEF FlightInv, ToServerInv, FromServerInv
            <4>2. CASE j = Len(s2c) + 1
                BY <1>a, <1>b, <2>1, <3>1, <4>2 DEF FlightInv, ToServerInv, FromServerInv
            <4> QED
                BY <1>b, <3>1, <4>1, <4>2
        <3> QED
            BY <1>a, <2>1, <3>2, <3>3 DEF FlightInv
    <2>4. CASE UNCHANGED s2c
        BY <1>a, <2>1, <2>4 DEF FlightInv, ToServerInv, FromServerInv
    <2> QED
        BY <1>19, <2>3, <2>4 DEF ReplyIndexRef, ServerSends
<1>20. CASE ReplyExtractError
    <2>1. /\ UNCHANGED <<c2s, work>> /\ scur # 0 /\ scur' = 0 /\ Owed' = Owed
        BY <1>a, <1>20, RequestsAssumption
        DEF TypeOK, FlightInv, Requests, Owed, Ends, Running, Ended,
            serverFrame, ReplyExtractError, ServerSends
    <2> DEFINE m == [of |-> scur, type |-> "ERROR"]
    <2>2. m \in Messages /\ m.of = scur /\ Junk \in Messages /\ Junk.of = 0
        BY <1>a, <2>1, RequestsAssumption DEF TypeOK, Requests, Replies, Messages, Junk
    <2>3. CASE s2c' = Append(s2c, m) \/ s2c' = Append(s2c, Junk)
        <3>1. /\ Len(s2c') = Len(s2c) + 1
              /\ \A j \in 1..Len(s2c) : s2c'[j] = s2c[j]
              /\ s2c'[Len(s2c) + 1].of \in {scur, 0}
            <4> HIDE DEF m
            <4> QED
                BY <1>a, <2>2, <2>3, AppendFacts, SMTT(20) DEF TypeOK
        <3>2. ToServerInv'
            <4>1. \A k \in 1..Len(s2c') :
                      s2c'[k].of \in {scur, 0} \/ (k \in 1..Len(s2c) /\ s2c'[k] = s2c[k])
                BY <1>b, <3>1
            <4> QED
                BY <1>a, <2>1, <4>1 DEF FlightInv, ToServerInv
        <3>3. FromServerInv'
            <4> SUFFICES ASSUME NEW j \in 1..Len(s2c'), s2c'[j].of # 0
                         PROVE  /\ s2c'[j].of \in Owed' /\ s2c'[j].of # scur'
                                /\ \A k \in 1..Len(s2c') : s2c'[k].of = s2c'[j].of => k = j
                BY DEF FromServerInv
            <4>1. CASE j \in 1..Len(s2c)
                BY <1>a, <1>b, <2>1, <3>1, <4>1 DEF FlightInv, ToServerInv, FromServerInv
            <4>2. CASE j = Len(s2c) + 1
                BY <1>a, <1>b, <2>1, <3>1, <4>2 DEF FlightInv, ToServerInv, FromServerInv
            <4> QED
                BY <1>b, <3>1, <4>1, <4>2
        <3> QED
            BY <1>a, <2>1, <3>2, <3>3 DEF FlightInv
    <2>4. CASE UNCHANGED s2c
        BY <1>a, <2>1, <2>4 DEF FlightInv, ToServerInv, FromServerInv
    <2> QED
        BY <1>20, <2>3, <2>4 DEF ReplyExtractError, ServerSends
<1>21. CASE ReplyNothing
    <2>1. UNCHANGED <<s2c, lost, work>> /\ scur' = 0 /\ Owed' = Owed
        BY <1>21 DEF Owed, ReplyNothing, serverFrame
    <2> QED
        BY <1>a, <1>21, <2>1 DEF FlightInv, ToServerInv, FromServerInv, ReplyNothing
<1>22. CASE UNCHANGED vars
    <2>1. UNCHANGED <<c2s, s2c, scur, lost, work>> /\ Owed' = Owed
        BY <1>22 DEF Owed, vars, callVars, netVars
    <2> QED
        BY <1>a, <2>1 DEF FlightInv, ToServerInv, FromServerInv
<1> QED
    BY <1>1, <1>2, <1>3, <1>4, <1>5, <1>6, <1>7, <1>8, <1>9, <1>10, <1>11,
       <1>12, <1>13, <1>14, <1>15, <1>16, <1>17, <1>18, <1>19, <1>20, <1>21, <1>22
    DEF Next, Caller, Worker, Server

(* The initial state: nothing is in flight and no worker has run.            *)
LEMMA InitIInv == Init => IInv
<1> SUFFICES ASSUME Init PROVE IInv
    OBVIOUS
<1> USE RequestsAssumption DEF Init, Requests
<1>1. TypeOK
    <2>1. c2s \in Seq(0..MaxRequests) /\ s2c \in Seq(Messages)
        OBVIOUS
    <2>2. timeouts \in BOOLEAN /\ open \in BOOLEAN /\ aborted \in BOOLEAN
        OBVIOUS
    <2>3. kind \in [Requests -> Client_MsgT] /\ mode \in Modes
        BY DEF Client_MsgT, Modes
    <2>4. work \in [Requests -> {"none"} \cup Running \cup Ended]
        OBVIOUS
    <2>5. answer \in [of : 0..MaxRequests, for : 0..MaxRequests,
                      via : {"none", "ready", "waited", "intermediate", "early"}]
        BY DEF NoAnswer
    <2>6. /\ cpc = "idle" /\ n = 0 /\ proc = 0 /\ scur = 0 /\ lost = {}
          /\ recv = NoReply
        OBVIOUS
    <2> HIDE DEF Init
    <2> QED
        BY <2>1, <2>2, <2>3, <2>4, <2>5, <2>6 DEF TypeOK
<1>2. WorkerInv /\ OneWorker /\ RecvInv
    BY DEF WorkerInv, OneWorker, RecvInv, NoAnswer, Running
<1>3. FlightInv
    BY DEF FlightInv, ToServerInv, FromServerInv, Owed
<1>4. ResultFresh /\ ReadyResultIsNew
    BY DEF ResultFresh, ReadyResultIsNew, NoAnswer
<1> QED
    BY <1>1, <1>2, <1>3, <1>4 DEF IInv

(* The inductive invariant holds in every reachable state.                   *)
THEOREM Invariance == Spec => []IInv
<1>1. IInv /\ [Next]_vars => IInv'
    BY StepTypeOK, StepWorker, StepResult, StepFlight DEF IInv
<1> QED
    BY InitIInv, <1>1, PTL DEF Spec

(* The state of a Client, of its connection and of the server's reply keeps  *)
(* its type for any number of requests.                                      *)
THEOREM ExchangeTypeCorrect == Spec => []TypeOK
<1>1. IInv => TypeOK
    BY DEF IInv
<1> QED
    BY Invariance, <1>1, PTL

(* One worker at a time uses the socket and the MessageProcess of a Client,  *)
(* however many requests are made: make_process joins the last one first.    *)
THEOREM OneWorkerAtATime == Spec => []OneWorker
<1>1. IInv => OneWorker
    BY DEF IInv
<1> QED
    BY Invariance, <1>1, PTL

(* get_result gives the reply to the last request, unless that one failed or *)
(* a request given up before it has been answered late: the server sends one *)
(* message for one request at most.                                          *)
THEOREM ResultsAreFresh == Spec => []ResultFresh
<1>1. IInv => ResultFresh
    BY DEF IInv
<1> QED
    BY Invariance, <1>1, PTL

(* A get_result that found its process ready never gives what recv_hmsg_     *)
(* kept from an earlier request: throw_if_ready_and_error stands before it.  *)
THEOREM ReadyResultsAreNew == Spec => []ReadyResultIsNew
<1>1. IInv => ReadyResultIsNew
    BY DEF IInv
<1> QED
    BY Invariance, <1>1, PTL
=============================================================================

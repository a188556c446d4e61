----------------------------- MODULE OperatorClient -----------------------------
(***************************************************************************)
(* The client library of the operator service (client.cpp): calls that     *)
(* wait for their reply with a time limit, the thread that writes requests *)
(* and reads replies, and the connection.                                  *)
(*                                                                         *)
(* Calls are serial, by request_mutex. A request whose call has given up   *)
(* is not taken back: it may be written, answered and obeyed later.        *)
(*                                                                         *)
(* External: the service answers the requests of a connection in their     *)
(* order. Abstracted: what is asked; the status events; a connection that  *)
(* fails on the way to its first call is one that was never made.          *)
(***************************************************************************)
EXTENDS Integers, Sequences

CONSTANT MaxCalls   \* bound: calls on one connection

ASSUME ClientAssumption == MaxCalls \in Nat

VARIABLES
    connected,  \* connected
    nextId,     \* next_id
    waitingId,  \* waiting_id
    posted,     \* requests posted to the I/O thread
    writes,     \* writes: the first one is being written
    sent,       \* requests that the service has yet to read
    answers,    \* replies on their way
    replies,    \* replies
    obeyed,     \* history: requests that the service has carried out
    confirmed   \* history: the call that returned last with a reply, 0: none

clientVars == <<connected, nextId, waitingId, posted, writes, sent, answers,
                replies, obeyed, confirmed>>

Ids == 1..MaxCalls

ClientInit ==
    /\ connected = FALSE /\ nextId = 0 /\ waitingId = 0
    /\ posted = <<>> /\ writes = <<>> /\ sent = <<>> /\ answers = <<>>
    /\ replies = {} /\ obeyed = {} /\ confirmed = 0

\* Connect makes everything anew, after Disconnect has joined the I/O thread
\* and while no call is waiting.
Connect ==
    /\ ~connected /\ waitingId = 0
    /\ connected' = TRUE /\ nextId' = 0 /\ UNCHANGED waitingId
    /\ posted' = <<>> /\ writes' = <<>> /\ sent' = <<>> /\ answers' = <<>>
    /\ replies' = {} /\ obeyed' = {} /\ confirmed' = 0

\* Call, up to the wait.
Call ==
    /\ connected /\ waitingId = 0 /\ nextId < MaxCalls
    /\ nextId' = nextId + 1 /\ waitingId' = nextId'
    /\ posted' = Append(posted, nextId')
    /\ UNCHANGED <<connected, writes, sent, answers, replies, obeyed, confirmed>>

\* Call, after the wait: with the reply, or with "result unknown" when the time
\* is over or the connection lost.
CallReturns ==
    /\ waitingId # 0
    /\ waitingId' = 0
    /\ IF waitingId \in replies
       THEN replies' = replies \ {waitingId} /\ confirmed' = waitingId
       ELSE UNCHANGED <<replies, confirmed>>
    /\ UNCHANGED <<connected, nextId, posted, writes, sent, answers, obeyed>>

-----------------------------------------------------------------------------
(* The I/O thread                                                          *)

\* The posted lambda, then Write and its completion: one request at a time.
TakePosted ==
    /\ posted # <<>>
    /\ posted' = Tail(posted) /\ writes' = Append(writes, Head(posted))
    /\ UNCHANGED <<connected, nextId, waitingId, sent, answers, replies, obeyed,
                   confirmed>>

WriteRequest ==
    /\ connected /\ writes # <<>>
    /\ writes' = Tail(writes) /\ sent' = Append(sent, Head(writes))
    /\ UNCHANGED <<connected, nextId, waitingId, posted, answers, replies, obeyed,
                   confirmed>>

\* Read: the reply to a call that has given up is nobody's.
VariantKeepsAny(id) == IF waitingId = 0 THEN {} ELSE {waitingId}

Kept(id) == {id} \cap {waitingId}

ReadReply ==
    /\ connected /\ answers # <<>>
    /\ answers' = Tail(answers)
    /\ replies' = replies \cup Kept(Head(answers))
    /\ UNCHANGED <<connected, nextId, waitingId, posted, writes, sent, obeyed,
                   confirmed>>

\* Fail, and Disconnect: what the service has received it still obeys.
Fail ==
    /\ connected /\ connected' = FALSE
    /\ answers' = <<>>
    /\ UNCHANGED <<nextId, waitingId, posted, writes, sent, replies, obeyed,
                   confirmed>>

\* The service, external.
Obey ==
    /\ sent # <<>>
    /\ sent' = Tail(sent) /\ obeyed' = obeyed \cup {Head(sent)}
    /\ answers' = IF connected THEN Append(answers, Head(sent)) ELSE answers
    /\ UNCHANGED <<connected, nextId, waitingId, posted, writes, replies, confirmed>>

ClientNext ==
    \/ Connect \/ Call \/ CallReturns
    \/ TakePosted \/ WriteRequest \/ ReadReply \/ Fail
    \/ Obey

ClientSpec == ClientInit /\ [][ClientNext]_clientVars

-----------------------------------------------------------------------------
(* Properties                                                              *)

\* A call that returns with a reply has been carried out, and so has every
\* earlier one: after a confirmed stop no velocity of a call that gave up
\* before can still come into force.
ConfirmedIsDone == 1..confirmed \subseteq obeyed
=============================================================================

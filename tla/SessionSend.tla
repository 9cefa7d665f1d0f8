----------------------------- MODULE SessionSend -----------------------------
(***************************************************************************)
(* The send side of one ServerCore Session: Send, RegisterSend,            *)
(* ProcessSend, HandleError and Disconnect run by any number of threads.   *)
(*                                                                         *)
(* Any worker thread may call Send (a broadcast does), and any worker      *)
(* thread may be handed the completion of the outstanding WSASend.  The    *)
(* session's write lock guards the queue and the backlog counters; the     *)
(* atomic flag _sendRegistered decides which thread owns _sendEvent.  A    *)
(* lock-protected block is one step; everything between two blocks is a    *)
(* step of its own, because other threads run there.  ProcessSend calls    *)
(* RegisterSend without leaving its lock block, so the lock is a variable. *)
(*                                                                         *)
(* One life of the connection is modelled: connected starts TRUE and never *)
(* becomes TRUE again (SessionLifecycle has the connection's own story).   *)
(***************************************************************************)
EXTENDS Integers, Sequences

CONSTANTS Threads,      \* threads that call into the session
          NoThread,     \* the lock is free
          Msgs,         \* the SendBuffers, each handed to Send at most once
          NoMsg,        \* no buffer in hand
          WriteSize,    \* bytes written in each SendBuffer
          Errors,       \* immediate WSASend failures: "reset" covers
                        \*   WSAECONNRESET/WSAECONNABORTED, "other" any other code
          MAX_SEND_BATCH_BYTES, MAX_SEND_BATCH_COUNT,
          MAX_BACKLOG_BYTES, MAX_BACKLOG_COUNT,
          SOFT_BACKLOG_BYTES, SOFT_BACKLOG_COUNT   \* ..._WHEN_REGISTERED

ASSUME SendAssumption ==
    /\ NoThread \notin Threads /\ NoMsg \notin Msgs
    /\ WriteSize \in [Msgs -> Nat]
    /\ Errors \subseteq {"reset", "other"}
    /\ MAX_SEND_BATCH_BYTES \in Nat /\ MAX_SEND_BATCH_COUNT \in Nat \ {0}
    /\ MAX_BACKLOG_BYTES \in Nat /\ MAX_BACKLOG_COUNT \in Nat
    /\ SOFT_BACKLOG_BYTES \in Nat /\ SOFT_BACKLOG_COUNT \in Nat

VARIABLES connected,        \* _connected
          sendQueue,        \* _sendQueue
          backlogBytes,     \* _sendBacklogBytes
          backlogCount,     \* _sendBacklogCount
          sendRegistered,   \* _sendRegistered
          sendBuffers,      \* _sendEvent.sendBuffers: the references held
          lock,             \* owner of the session's write lock
          pc,               \* where each thread is
          arg,              \* the buffer a thread is inside Send with
          posted,           \* overlapped sends the kernel has not completed
          fresh,            \* buffers nobody has sent yet (bounds the runs)
          wire,             \* history: buffers in the order WSASend took them
          ignored           \* history: a WSASend failed and HandleError only printed

queueVars == <<sendQueue, backlogBytes, backlogCount>>
history == <<wire, ignored>>
vars == <<connected, sendQueue, backlogBytes, backlogCount, sendRegistered,
          sendBuffers, lock, pc, arg, posted, fresh, wire, ignored>>

Labels == {"idle",        \* outside the send pipeline
           "sendLock",    \* Send: about to take the lock
           "regCheck",    \* RegisterSend: about to test IsConnected
           "regDrain",    \* RegisterSend: about to move a batch
           "regPost",     \* RegisterSend: about to call WSASend
           "regFail",     \* RegisterSend: WSASend failed, error handled
           "doneLock"}    \* ProcessSend: about to take the lock

Goto(t, label) == pc' = [pc EXCEPT ![t] = label]
MayLock(t) == lock \in {NoThread, t}

\* Bytes written in the first n buffers of s, for each n.
RunningBytes(s) ==
    LET upTo[n \in 0..Len(s)] == IF n = 0 THEN 0 ELSE upTo[n - 1] + WriteSize[s[n]]
    IN  upTo
Bytes(s) == RunningBytes(s)[Len(s)]

Init == /\ connected = TRUE
        /\ sendQueue = <<>> /\ backlogBytes = 0 /\ backlogCount = 0
        /\ sendRegistered = FALSE
        /\ sendBuffers = <<>>
        /\ lock = NoThread
        /\ pc = [t \in Threads |-> "idle"]
        /\ arg = [t \in Threads |-> NoMsg]
        /\ posted = <<>>
        /\ fresh = Msgs
        /\ wire = <<>> /\ ignored = FALSE

-----------------------------------------------------------------------------
(* Send(sendBuffer) *)

\* The unlocked IsConnected test; a closed session swallows the buffer.
Send(t, m) ==
    /\ pc[t] = "idle" /\ m \in fresh
    /\ fresh' = fresh \ {m}
    /\ IF connected THEN Goto(t, "sendLock") /\ arg' = [arg EXCEPT ![t] = m]
                    ELSE UNCHANGED <<pc, arg>>
    /\ UNCHANGED <<connected, queueVars, sendRegistered, sendBuffers, lock, posted, history>>

OverHardCap_StaleCount(sz) == \/ backlogBytes + sz > MAX_BACKLOG_BYTES
                              \/ backlogCount > MAX_BACKLOG_COUNT
OverHardCap(sz) == \/ backlogBytes + sz > MAX_BACKLOG_BYTES
                   \/ backlogCount + 1 > MAX_BACKLOG_COUNT

OverSoftCap == /\ sendRegistered
               /\ \/ backlogBytes >= SOFT_BACKLOG_BYTES
                  \/ backlogCount >= SOFT_BACKLOG_COUNT

\* exchange(true) on _sendRegistered found it false.
WinsRegistration_FlagIgnored == TRUE
WinsRegistration == ~sendRegistered

\* The locked block of Send.  The failure path of RegisterSend writes the flag
\* outside the lock, but any value it can slip in between the two reads here
\* gives an outcome this step also has.
SendLocked(t) ==
    /\ pc[t] = "sendLock" /\ MayLock(t)
    /\ LET m == arg[t] IN
       IF OverHardCap(WriteSize[m]) \/ OverSoftCap
       THEN Goto(t, "idle") /\ UNCHANGED <<queueVars, sendRegistered>>
       ELSE /\ sendQueue' = Append(sendQueue, m)
            /\ backlogBytes' = backlogBytes + WriteSize[m]
            /\ backlogCount' = backlogCount + 1
            /\ sendRegistered' = TRUE
            /\ Goto(t, IF WinsRegistration THEN "regCheck" ELSE "idle")
    /\ arg' = [arg EXCEPT ![t] = NoMsg]
    /\ UNCHANGED <<connected, sendBuffers, lock, posted, fresh, history>>

-----------------------------------------------------------------------------
(* RegisterSend, called by Send with the lock free and by ProcessSend with *)
(* the lock held: leaving it releases the lock in the second case.         *)

ReturnFromRegister(t) == /\ Goto(t, "idle")
                         /\ lock' = IF lock = t THEN NoThread ELSE lock

RegisterSendCheck(t) ==
    /\ pc[t] = "regCheck"
    /\ IF connected THEN Goto(t, "regDrain") /\ UNCHANGED lock
                    ELSE ReturnFromRegister(t)
    /\ UNCHANGED <<connected, queueVars, sendRegistered, sendBuffers, arg, posted, fresh, history>>

\* The loop takes the k-th queued buffer into the batch: the first one always,
\* a later one within both batch limits.
Takes(k) == LET n == Len(sendBuffers) + k IN
    \/ n = 1
    \/ /\ Bytes(SubSeq(sendQueue, 1, k)) <= MAX_SEND_BATCH_BYTES
       /\ n <= MAX_SEND_BATCH_COUNT

IsBatch(n) == /\ \A k \in 1..n : Takes(k)
              /\ n < Len(sendQueue) => ~Takes(n + 1)

\* What the loop subtracts from the books for a batch of n.
DrainedBytes_FirstOnly(n) == IF n = 0 THEN 0 ELSE WriteSize[sendQueue[1]]
DrainedBytes(n) == Bytes(SubSeq(sendQueue, 1, n))
DrainedCount(n) == n

RegisterSendDrain(t) ==
    /\ pc[t] = "regDrain" /\ MayLock(t)
    /\ \E n \in 0..Len(sendQueue) :
         /\ IsBatch(n)
         /\ sendBuffers' = sendBuffers \o SubSeq(sendQueue, 1, n)
         /\ sendQueue' = SubSeq(sendQueue, n + 1, Len(sendQueue))
         /\ backlogBytes' = backlogBytes - DrainedBytes(n)
         /\ backlogCount' = backlogCount - DrainedCount(n)
    /\ Goto(t, "regPost")
    /\ UNCHANGED <<connected, sendRegistered, lock, arg, posted, fresh, history>>

\* WSASend: accepted (at once or pending), or refused; HandleError closes the
\* session on a reset and only prints otherwise.
RegisterSendPost(t) ==
    /\ pc[t] = "regPost"
    /\ \/ /\ posted' = Append(posted, sendBuffers)
          /\ wire' = wire \o sendBuffers
          /\ ReturnFromRegister(t)
          /\ UNCHANGED <<connected, ignored>>
       \/ \E e \in Errors :
            /\ connected' = (connected /\ e # "reset")
            /\ ignored' = (ignored \/ e # "reset")
            /\ Goto(t, "regFail")
            /\ UNCHANGED <<posted, wire, lock>>
    /\ UNCHANGED <<queueVars, sendRegistered, sendBuffers, arg, fresh>>

RegisterSendFail_KeepsBuffers(t) ==
    /\ pc[t] = "regFail"
    /\ sendRegistered' = FALSE
    /\ ReturnFromRegister(t)
    /\ UNCHANGED <<connected, queueVars, sendBuffers, arg, posted, fresh, history>>

RegisterSendFail(t) ==
    /\ pc[t] = "regFail"
    /\ sendBuffers' = <<>>
    /\ sendRegistered' = FALSE
    /\ ReturnFromRegister(t)
    /\ UNCHANGED <<connected, queueVars, arg, posted, fresh, history>>

-----------------------------------------------------------------------------
(* ProcessSend(numOfBytes), on the thread that dequeued the completion *)

ProcessSend(t) ==
    /\ pc[t] = "idle" /\ posted # <<>>
    /\ posted' = Tail(posted)
    /\ sendBuffers' = <<>>
    /\ \/ Goto(t, "doneLock") /\ UNCHANGED connected
       \/ connected' = FALSE /\ UNCHANGED pc            \* numOfBytes = 0
    /\ UNCHANGED <<queueVars, sendRegistered, lock, arg, fresh, history>>

StillQueued_NeverAgain == FALSE
StillQueued == sendQueue # <<>>

ProcessSendLocked(t) ==
    /\ pc[t] = "doneLock" /\ MayLock(t)
    /\ IF StillQueued
       THEN Goto(t, "regCheck") /\ lock' = t /\ UNCHANGED sendRegistered
       ELSE Goto(t, "idle") /\ sendRegistered' = FALSE /\ UNCHANGED lock
    /\ UNCHANGED <<connected, queueVars, sendBuffers, arg, posted, fresh, history>>

\* Disconnect by anybody: a zero-byte receive, a receive error, the content code.
Disconnect == /\ connected /\ connected' = FALSE
              /\ UNCHANGED <<queueVars, sendRegistered, sendBuffers, lock, pc, arg,
                             posted, fresh, history>>

-----------------------------------------------------------------------------
\* A thread inside the send pipeline goes on.
Step(t) == \/ SendLocked(t)
           \/ RegisterSendCheck(t) \/ RegisterSendDrain(t)
           \/ RegisterSendPost(t) \/ RegisterSendFail(t)
           \/ ProcessSendLocked(t)

Next == \/ \E t \in Threads : (\E m \in Msgs : Send(t, m)) \/ Step(t) \/ ProcessSend(t)
        \/ Disconnect

Spec == Init /\ [][Next]_vars

\* A thread that entered the pipeline goes on, and a posted send completes and
\* is dispatched: the workers loop on GetQueuedCompletionStatus for ever.
\* Nobody is obliged to call Send or Disconnect.
Fairness == /\ \A t \in Threads : WF_vars(Step(t))
            /\ WF_vars(\E t \in Threads : ProcessSend(t))

FairSpec == Spec /\ Fairness
-----------------------------------------------------------------------------
(* Properties *)

\* Types of the session's fields; the buffer count never goes negative.
TypeOK ==
    /\ connected \in BOOLEAN /\ sendRegistered \in BOOLEAN /\ ignored \in BOOLEAN
    /\ sendQueue \in Seq(Msgs) /\ sendBuffers \in Seq(Msgs) /\ wire \in Seq(Msgs)
    /\ posted \in Seq(Seq(Msgs))
    /\ backlogCount \in Nat
    /\ lock \in Threads \cup {NoThread}
    /\ pc \in [Threads -> Labels]
    /\ arg \in [Threads -> Msgs \cup {NoMsg}]
    /\ \A t \in Threads : pc[t] = "sendLock" => arg[t] \in Msgs
    /\ fresh \subseteq Msgs

\* t is in the stretch of code that owns _sendEvent.
OwnsSendEvent(t) == pc[t] \in {"regCheck", "regDrain", "regPost", "regFail", "doneLock"}

\* _sendRegistered is a token: at most one overlapped send is outstanding, never
\* together with a thread working on _sendEvent, of which there is at most one;
\* and the flag is up only while somebody holds the token, unless the session
\* closed.
OneOutstandingSend ==
    /\ Len(posted) <= 1
    /\ \A t, u \in Threads : OwnsSendEvent(t) /\ OwnsSendEvent(u) => t = u
    /\ (\E t \in Threads : OwnsSendEvent(t)) => posted = <<>> /\ sendRegistered
    /\ posted # <<>> => sendRegistered
    /\ sendRegistered /\ connected
          => posted # <<>> \/ \E t \in Threads : OwnsSendEvent(t)

\* The kernel reads the buffers of the outstanding WSASend, so the event keeps a
\* reference to each of them until the completion; between sends it keeps none.
BuffersPinned ==
    /\ posted # <<>> => posted = <<sendBuffers>>
    /\ sendBuffers # <<>> => \/ posted # <<>>
                             \/ \E t \in Threads : pc[t] \in {"regPost", "regFail"}

\* The backlog counters are the queue's length and its bytes at every point
\* where another thread could read them, so neither a burst of senders nor a
\* stalled peer grows the queue past the hard caps; and a batch obeys the batch
\* limits unless it is one buffer.
BacklogExact ==
    /\ backlogCount = Len(sendQueue) /\ backlogBytes = Bytes(sendQueue)
    /\ backlogCount <= MAX_BACKLOG_COUNT /\ backlogBytes <= MAX_BACKLOG_BYTES
    /\ Len(sendBuffers) <= MAX_SEND_BATCH_COUNT
    /\ Len(sendBuffers) > 1 => Bytes(sendBuffers) <= MAX_SEND_BATCH_BYTES

\* While the session is open and no error was ignored, queued data always has
\* somebody in charge of sending it (no lost wake-up between a sender that finds
\* the flag up and a completion that puts it down).
QueueServed == connected /\ ~ignored /\ sendQueue # <<>> => sendRegistered

\* ... so that every queued buffer leaves the queue, unless the session closes.
\* Ignoring the error of a WSASend strands what was queued meanwhile.
Queued(m) == \E i \in 1..Len(sendQueue) : sendQueue[i] = m
Drains == \A m \in Msgs : Queued(m) ~> ~Queued(m) \/ ~connected \/ ignored

\* Order and at-most-once delivery: the pipeline implements SendChannel.  What
\* is pending there is the batch not yet posted followed by the queue.
Pending == (IF posted = <<>> THEN sendBuffers ELSE <<>>) \o sendQueue
Channel == INSTANCE SendChannel WITH pending <- Pending
ImplementsChannel == Channel!ChanSpec
=============================================================================

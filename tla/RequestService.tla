--------------------------- MODULE RequestService ---------------------------
(***************************************************************************)
(* What the server promises to a client that writes JSON-RPC messages to   *)
(* stdin and reads replies from stdout, with no threads and no queues:     *)
(* each request gets one reply; a served request sees the effect of every  *)
(* notification sent before it and of none sent after it; a request is     *)
(* refused as cancelled only when the client asked for that.               *)
(***************************************************************************)
EXTENDS Messages

VARIABLES received,  \* the messages that became jobs, in arrival order
          cancels,   \* the cancel messages: id, and how many jobs came before
          replies,   \* the replies written for each job
          phase      \* "open", then "closing" after exit or EOF, then "closed"

serviceVars == <<received, cancels, replies, phase>>

Requests == {j \in 1..Len(received) : IsRequest(received[j])}

CancelAsked(j) == \E c \in cancels : c.id = received[j].id /\ c.at >= j

ServiceInit ==
    /\ received = <<>>
    /\ cancels = {}
    /\ replies = [j \in JobIndex |-> <<>>]
    /\ phase = "open"

Receive(m) ==
    /\ phase = "open"
    /\ Len(received) < MaxJobs
    /\ received' = Append(received, m)
    /\ UNCHANGED <<cancels, replies, phase>>

ReceiveCancel(id) ==
    /\ phase = "open"
    /\ cancels' = cancels \cup {[id |-> id, at |-> Len(received)]}
    /\ UNCHANGED <<received, replies, phase>>

Reply(j, r) ==
    /\ phase # "closed"
    /\ replies[j] = <<>>
    /\ replies' = [replies EXCEPT ![j] = <<r>>]
    /\ UNCHANGED <<received, cancels, phase>>

Serve(j) ==
    Reply(j, IF received[j].kind = "unknown" THEN Null
             ELSE Result(NotificationsBefore(received, j)))

Refuse(j) == CancelAsked(j) /\ Reply(j, Cancelled)

Close ==
    /\ phase = "open"
    /\ phase' = "closing"
    /\ UNCHANGED <<received, cancels, replies>>

\* The process ends only when nobody waits for a reply any more.
Finish ==
    /\ phase = "closing"
    /\ \A j \in Requests : replies[j] # <<>>
    /\ phase' = "closed"
    /\ UNCHANGED <<received, cancels, replies>>

ServiceNext ==
    \/ \E m \in Message : Receive(m)
    \/ \E id \in Ids : ReceiveCancel(id)
    \/ \E j \in Requests : Serve(j) \/ Refuse(j)
    \/ Close
    \/ Finish

\* Every request is answered, and a server told to stop stops.
ServiceFairness ==
    /\ \A j \in JobIndex :
          WF_serviceVars(j \in Requests /\ (Serve(j) \/ Refuse(j)))
    /\ WF_serviceVars(Finish)

ServiceSafety == ServiceInit /\ [][ServiceNext]_serviceVars
ServiceSpec == ServiceSafety /\ ServiceFairness
=============================================================================

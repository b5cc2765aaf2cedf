------------------------------ MODULE Messages ------------------------------
(***************************************************************************)
(* The JSON-RPC messages server_process() turns into jobs, told apart by   *)
(* what the server does with them, and the replies written for them.       *)
(***************************************************************************)
EXTENDS Integers, Sequences

CONSTANTS MaxJobs,   \* bound on the messages that become jobs
          Ids,       \* the integer request ids the client uses
          StringId,  \* any id that is not an integer
          NoId       \* the message has no "id" member

ASSUME MessagesAssumption ==
    /\ MaxJobs \in Nat
    /\ StringId \notin Ids /\ NoId \notin Ids /\ StringId # NoId

\* A job is named by its arrival number.
JobIndex == 1..MaxJobs

\* The method table's classes; "unknown" is a method it does not list, which
\* includes the client's answers to the server's own requests.
Message ==
         [kind : {"notification"}, id : {NoId}]
    \cup [kind : {"inline", "query"}, id : Ids \cup {StringId}]
    \cup [kind : {"unknown"}, id : Ids \cup {StringId, NoId}]

IsRequest(m) == m.id # NoId

\* A reply: its outcome, and the notifications its handler found applied.
ReplyType == [outcome : {"result", "null", "cancelled"}, seen : SUBSET JobIndex]
Result(seen) == [outcome |-> "result", seen |-> seen]
Null == [outcome |-> "null", seen |-> {}]
Cancelled == [outcome |-> "cancelled", seen |-> {}]

\* The notifications among ms that arrived before job j.
NotificationsBefore(ms, j) == {i \in 1..(j - 1) : ms[i].kind = "notification"}
=============================================================================

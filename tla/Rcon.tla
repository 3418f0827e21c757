-------------------------------- MODULE Rcon --------------------------------
(***************************************************************************)
(* One Source RCON session of internal/loadgen/rcon.go: the Client, the    *)
(* two directions of its TCP stream, and the server's end of the protocol. *)
(*                                                                         *)
(* The Client is single-threaded: a caller is either between calls         *)
(* (session = "ready") or blocked reading the answer to the request it     *)
(* just wrote ("reading").  A request that timed out stays in the stream:  *)
(* the server executes it when it gets to it and its answer arrives later, *)
(* ahead of the answer to the next request.                                *)
(*                                                                         *)
(* What executing a command does to the server is left to the module that  *)
(* composes this one (the action Serve is to be conjoined with it).        *)
(***************************************************************************)
EXTENDS Integers, Sequences

CONSTANTS
    Commands,       \* the console commands the caller sends
    MaxID,          \* the largest request id (2^31 - 1 in the code)
    Faults,         \* which faults the link shows, a subset of FaultKinds
    MaxInFlight     \* bound: requests written whose answer was not yet read

FaultKinds ==
    {"late",        \* an answer may come after the client's read deadline
     "reset"}       \* the TCP connection may break

\* MaxInFlight stays below MaxID: 2^31 - 1 requests are never in flight.
ASSUME RconAssumption ==
    /\ MaxID \in Nat \ {0}
    /\ MaxInFlight \in Nat \ {0}
    /\ MaxInFlight < MaxID
    /\ Faults \subseteq FaultKinds

VARIABLES
    session,        \* where the Client is: see Sessions
    reqID,          \* Client.reqID: the id of the latest request
    up,             \* whether the TCP connection stands
    toServer,       \* requests written and not yet executed
    toClient,       \* answers written and not yet read
    result,         \* how the latest Command call ended: see Results
    served          \* history: id of the latest command the server executed

rconVars == <<session, reqID, up, toServer, toClient, result, served>>

\* "skipped": the auth answer is awaited after one empty type-0 packet.
Sessions == {"closed", "auth", "skipped", "ready", "reading", "failed"}
Results == {"none", "ok", "error"}

AuthFailedID == -1

RequestIDs == 1 .. MaxID

\* packet: the request's type is told by its body here ("auth" or a command);
\* an answer's body is not looked at by the callers modelled.
Request == [id : RequestIDs, body : Commands \cup {"auth"}]
Answer == [id : RequestIDs \cup {AuthFailedID}, type : {0, 2}]

RconTypeOK ==
    /\ session \in Sessions
    /\ reqID \in 0 .. MaxID
    /\ up \in BOOLEAN
    /\ toServer \in Seq(Request)
    /\ toClient \in Seq(Answer)
    /\ result \in Results
    /\ served \in 0 .. MaxID

RconInit ==
    /\ session = "closed"
    /\ reqID = 0
    /\ up = FALSE
    /\ toServer = <<>>
    /\ toClient = <<>>
    /\ result = "none"
    /\ served = 0

InFlight == Len(toServer) + Len(toClient)

-----------------------------------------------------------------------------
(* The Client *)

\* Bug form of NextID: the id is never advanced, so every answer matches.
NextIDConstant(n) == 1

\* Bug form of NextID: the overflow is not looked at.
NextIDUnwrapped(n) == n + 1

\* nextID: an int32 incremented until it overflows to a negative, then 1.
NextID(n) == IF n = MaxID THEN 1 ELSE n + 1

\* Dial: connect, then write the auth request.
Dial ==
    /\ session = "closed"
    /\ reqID' = NextID(reqID)
    /\ up' = TRUE
    /\ toServer' = <<[id |-> reqID', body |-> "auth"]>>
    /\ session' = "auth"
    /\ UNCHANGED <<toClient, result, served>>

\* Dial: nothing listens at the address.
DialRefused ==
    /\ session = "closed"
    /\ session' = "failed"
    /\ UNCHANGED <<reqID, up, toServer, toClient, result, served>>

\* Dial: one leading empty type-0 packet is skipped.
SkipEmptyAnswer ==
    /\ session = "auth"
    /\ toClient # <<>>
    /\ Head(toClient).type = 0
    /\ toClient' = Tail(toClient)
    /\ session' = "skipped"
    /\ UNCHANGED <<reqID, up, toServer, result, served>>

\* Dial: the auth answer echoes our id, or the connection is closed.
ReadAuthAnswer ==
    /\ session \in {"auth", "skipped"}
    /\ toClient # <<>>
    /\ session = "auth" => Head(toClient).type # 0
    /\ toClient' = Tail(toClient)
    /\ IF Head(toClient).id = reqID
         THEN session' = "ready" /\ up' = up
         ELSE session' = "failed" /\ up' = FALSE
    /\ UNCHANGED <<reqID, toServer, result, served>>

\* Dial: the auth answer does not come before the deadline, or ever.
AuthReadFails ==
    /\ session \in {"auth", "skipped"}
    /\ toClient = <<>>
    /\ ~up \/ "late" \in Faults
    /\ session' = "failed"
    /\ up' = FALSE
    /\ UNCHANGED <<reqID, toServer, toClient, result, served>>

\* Command, first half: writePacket.  On a broken connection it fails here.
WriteCommand(cmd) ==
    /\ session = "ready"
    /\ reqID' = NextID(reqID)
    /\ IF up
         THEN /\ toServer' = Append(toServer, [id |-> reqID', body |-> cmd])
              /\ session' = "reading"
              /\ result' = "none"
         ELSE /\ UNCHANGED <<toServer, session>>
              /\ result' = "error"
    /\ UNCHANGED <<up, toClient, served>>

\* Bug form of Matches: any packet that arrives counts as the answer.
MatchesAny(answer) == TRUE

\* Command: "matches the reply by RequestID to avoid acting on a stale packet".
Matches(answer) == answer.id = reqID

\* Command, second half: readPacket returned one packet.
ReadAnswer ==
    /\ session = "reading"
    /\ toClient # <<>>
    /\ toClient' = Tail(toClient)
    /\ result' = IF Matches(Head(toClient)) THEN "ok" ELSE "error"
    /\ session' = "ready"
    /\ UNCHANGED <<reqID, up, toServer, served>>

\* Command, second half: the read deadline passed.  The request stays in the
\* stream and the connection stays open.
ReadTimesOut ==
    /\ session = "reading"
    /\ "late" \in Faults
    /\ up
    /\ toClient = <<>>
    /\ InFlight < MaxInFlight
    /\ result' = "error"
    /\ session' = "ready"
    /\ UNCHANGED <<reqID, up, toServer, toClient, served>>

\* Command, second half: the connection broke before the answer came.
ReadOnBrokenLink ==
    /\ session = "reading"
    /\ ~up
    /\ toClient = <<>>
    /\ result' = "error"
    /\ session' = "ready"
    /\ UNCHANGED <<reqID, up, toServer, toClient, served>>

CommandReturns == ReadAnswer \/ ReadTimesOut \/ ReadOnBrokenLink

-----------------------------------------------------------------------------
(* The server's end and the network (external: what rcon.go expects of it) *)

\* The server answers the auth request, with or without the empty packet.
ServeAuth ==
    /\ toServer # <<>>
    /\ Head(toServer).body = "auth"
    /\ toServer' = Tail(toServer)
    /\ \E accepted, leading \in BOOLEAN :
         LET id == IF accepted THEN Head(toServer).id ELSE AuthFailedID
             answer == <<[id |-> id, type |-> 2]>>
             empty == <<[id |-> Head(toServer).id, type |-> 0]>>
         IN toClient' = CASE ~up -> toClient
                          [] up /\ leading -> toClient \o empty \o answer
                          [] OTHER -> toClient \o answer
    /\ UNCHANGED <<session, reqID, up, result, served>>

\* The server executes the oldest command and answers it.
Serve ==
    /\ toServer # <<>>
    /\ Head(toServer).body # "auth"
    /\ toServer' = Tail(toServer)
    /\ toClient' = IF up THEN Append(toClient, [id |-> Head(toServer).id, type |-> 0])
                         ELSE toClient
    /\ served' = Head(toServer).id
    /\ UNCHANGED <<session, reqID, up, result>>

\* The connection breaks: answers on the way are lost, and so are the requests
\* the server has not taken off its socket yet.
Reset ==
    /\ "reset" \in Faults
    /\ up
    /\ up' = FALSE
    /\ toServer' \in {toServer, <<>>}
    /\ toClient' = <<>>
    /\ UNCHANGED <<session, reqID, result, served>>
=============================================================================

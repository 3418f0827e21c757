---------------------------- MODULE PregenProofs ----------------------------
(***************************************************************************)
(* Proofs about Pregen, for every MaxID, every MaxInFlight and every set   *)
(* of commands.  Type correctness holds under any faults; the safety of    *)
(* the controller is proved for a link without faults.                     *)
(***************************************************************************)
EXTENDS Pregen, SequenceTheorems, TLAPS

-----------------------------------------------------------------------------
(* Short sequences *)

(* One packet put after another.                                           *)
LEMMA PairIsConcat ==
    ASSUME NEW a, NEW b
    PROVE  <<a>> \o <<b>> = <<a, b>>
<1> DEFINE s == <<a>> \o <<b>>
           t == <<a, b>>
<1>1. /\ <<a>> \in Seq({a, b}) /\ <<b>> \in Seq({a, b})
      /\ Len(<<a>>) = 1 /\ Len(<<b>>) = 1
      /\ t \in Seq({a, b}) /\ Len(t) = 2
  OBVIOUS
<1>2. s \in Seq({a, b}) /\ Len(s) = 2 /\ s[1] = a /\ s[2] = b
  BY <1>1, ConcatProperties
<1>3. t[1] = a /\ t[2] = b
  OBVIOUS
<1> HIDE DEF s, t
<1>4. \A i \in 1 .. Len(s) : s[i] = t[i]
  BY <1>2, <1>3
<1>5. s = t
  BY <1>1, <1>2, <1>4, SeqEqual
<1> QED  BY <1>5 DEF s, t

(* Head, tail and growth of the one or two packets a login or a command    *)
(* leaves in the stream.                                                   *)
LEMMA ShortSeq ==
    ASSUME NEW a, NEW b
    PROVE  /\ <<a>> # <<>> /\ Head(<<a>>) = a /\ Tail(<<a>>) = <<>>
           /\ <<a, b>> # <<>> /\ Head(<<a, b>>) = a /\ Tail(<<a, b>>) = <<b>>
           /\ Append(<<>>, a) = <<a>>
           /\ <<>> \o <<a>> = <<a>>
           /\ <<>> \o <<a>> \o <<b>> = <<a, b>>
<1>1. <<a>> # <<>> /\ Head(<<a>>) = a /\ Tail(<<a>>) = <<>>
  OBVIOUS
<1>2. <<a, b>> # <<>> /\ Head(<<a, b>>) = a
  OBVIOUS
<1>3. Tail(<<a, b>>) = <<b>>
  OBVIOUS
<1>4. Append(<<>>, a) = <<a>>
  OBVIOUS
<1>5. <<>> \o <<a>> = <<a>>
  OBVIOUS
<1>6. <<>> \o <<a>> \o <<b>> = <<a, b>>
  BY <1>5, PairIsConcat
<1> QED  BY <1>1, <1>2, <1>3, <1>4, <1>5, <1>6

(* A packet taken off a stream is of the stream's kind, and so is the rest. *)
LEMMA HeadTailType ==
    ASSUME NEW S, NEW s \in Seq(S), s # <<>>
    PROVE  Head(s) \in S /\ Tail(s) \in Seq(S)
  BY SMT

-----------------------------------------------------------------------------
(* Type correctness *)

(* nextID stays a positive int32: the overflow is caught.                  *)
LEMMA NextIDType ==
    ASSUME NEW n \in 0 .. MaxID
    PROVE  NextID(n) \in RequestIDs
  BY RconAssumption, SMT DEF NextID, RequestIDs

\* A step of the session: of the client, the server or the network.
RconStep ==
    \/ Dial \/ DialRefused \/ SkipEmptyAnswer \/ ReadAuthAnswer \/ AuthReadFails
    \/ \E cmd \in Commands : WriteCommand(cmd)
    \/ CommandReturns \/ ServeAuth \/ Serve \/ Reset
    \/ UNCHANGED rconVars

(* Every step of the session keeps it well typed.                          *)
LEMMA RconTypeStep ==
    ASSUME RconTypeOK, RconStep
    PROVE  RconTypeOK'
<1> USE DEF RconTypeOK, Sessions, Results
<1>id. NextID(reqID) \in RequestIDs /\ NextID(reqID) \in 0 .. MaxID
  BY NextIDType DEF RequestIDs
<1>server. toServer # <<>> => Head(toServer) \in Request /\ Tail(toServer) \in Seq(Request)
  BY HeadTailType
<1>client. toClient # <<>> => Head(toClient) \in Answer /\ Tail(toClient) \in Seq(Answer)
  BY HeadTailType
<1>1. CASE Dial
  <2>1. <<[id |-> reqID', body |-> "auth"]>> \in Seq(Request)
    BY <1>1, <1>id DEF Dial, Request
  <2> QED  BY <1>1, <1>id, <2>1 DEF Dial
<1>2. CASE DialRefused
  BY <1>2 DEF DialRefused
<1>3. CASE SkipEmptyAnswer
  BY <1>3, <1>client DEF SkipEmptyAnswer
<1>4. CASE ReadAuthAnswer
  BY <1>4, <1>client DEF ReadAuthAnswer
<1>5. CASE AuthReadFails
  BY <1>5 DEF AuthReadFails
<1>6. ASSUME NEW cmd \in Commands, WriteCommand(cmd)
      PROVE  RconTypeOK'
  <2>1. [id |-> reqID', body |-> cmd] \in Request
    BY <1>6, <1>id DEF WriteCommand, Request
  <2>2. Append(toServer, [id |-> reqID', body |-> cmd]) \in Seq(Request)
    BY <2>1
  <2> QED  BY <1>6, <1>id, <2>2 DEF WriteCommand
<1>7. CASE CommandReturns
  BY <1>7, <1>client DEF CommandReturns, ReadAnswer, ReadTimesOut, ReadOnBrokenLink
<1>8. CASE ServeAuth
  <2>1. PICK accepted \in BOOLEAN, leading \in BOOLEAN :
          LET id == IF accepted THEN Head(toServer).id ELSE AuthFailedID
              answer == <<[id |-> id, type |-> 2]>>
              empty == <<[id |-> Head(toServer).id, type |-> 0]>>
          IN toClient' = CASE ~up -> toClient
                           [] up /\ leading -> toClient \o empty \o answer
                           [] OTHER -> toClient \o answer
    BY <1>8 DEF ServeAuth
  <2> DEFINE id == IF accepted THEN Head(toServer).id ELSE AuthFailedID
             answer == <<[id |-> id, type |-> 2]>>
             empty == <<[id |-> Head(toServer).id, type |-> 0]>>
  <2>2. Head(toServer).id \in RequestIDs
    BY <1>8, <1>server DEF ServeAuth, Request
  <2>3. answer \in Seq(Answer) /\ empty \in Seq(Answer)
    BY <2>2 DEF Answer
  <2> HIDE DEF answer, empty
  <2>4. toClient \o empty \in Seq(Answer)
    BY <2>3
  <2>5. toClient \o answer \in Seq(Answer) /\ toClient \o empty \o answer \in Seq(Answer)
    BY <2>3, <2>4
  <2>6. toClient' \in {toClient, toClient \o answer, toClient \o empty \o answer}
    BY <2>1 DEF answer, empty
  <2>7. toClient' \in Seq(Answer)
    BY <2>5, <2>6
  <2> QED  BY <1>8, <1>server, <2>7 DEF ServeAuth
<1>9. CASE Serve
  <2>1. Head(toServer).id \in RequestIDs
    BY <1>9, <1>server DEF Serve, Request
  <2>2. [id |-> Head(toServer).id, type |-> 0] \in Answer
    BY <2>1 DEF Answer
  <2>3. Append(toClient, [id |-> Head(toServer).id, type |-> 0]) \in Seq(Answer)
    BY <2>2
  <2> QED  BY <1>9, <1>server, <2>1, <2>3 DEF Serve, RequestIDs
<1>10. CASE Reset
  <2>1. <<>> \in Seq(Request) /\ <<>> \in Seq(Answer)
    OBVIOUS
  <2>2. toServer' \in Seq(Request) /\ toClient' \in Seq(Answer)
    BY <1>10, <2>1 DEF Reset
  <2> QED  BY <1>10, <2>2 DEF Reset
<1>11. CASE UNCHANGED rconVars
  BY <1>11 DEF rconVars
<1> QED
  BY <1>1, <1>2, <1>3, <1>4, <1>5, <1>6, <1>7, <1>8, <1>9, <1>10, <1>11 DEF RconStep

-----------------------------------------------------------------------------
(* Type correctness of the controller *)

\* Where a verdict is used, one has been reached.
DesiredKnown == pc \in {"decide", "await", "exit", "exitAwait"} => desired \in Modes

TypeInv == TypeOK /\ DesiredKnown

(* The controller sends only commands of the session's set.                *)
LEMMA CommandType ==
    ASSUME NEW mode
    PROVE  CommandFor(mode) \in Commands /\ "pause" \in Commands
  BY PregenAssumption DEF CommandFor

(* Every step of the controlled system is a step of its session.           *)
LEMMA NextIsRconStep ==
    ASSUME [Next]_vars
    PROVE  RconStep
<1> USE DEF RconStep
<1>1. CASE PlayersChange \/ NodeChanges \/ Cancel
  BY <1>1 DEF PlayersChange, NodeChanges, Cancel
<1>2. CASE Login \/ Server \/ LinkBreaks
  BY <1>2 DEF Login, Server, ServerAnswersLogin, ServerExecutes, LinkBreaks
<1>3. CASE Start \/ Tick \/ Exit
  BY <1>3 DEF Start, Tick, Exit
<1>4. CASE ReadPlayers \/ ReadTPS \/ ReadLoad \/ Hold
  BY <1>4 DEF ReadPlayers, ReadTPS, ReadLoad, Hold
<1>5. CASE SendCommand
  BY <1>5, CommandType DEF SendCommand
<1>6. CASE CommandAnswered \/ PausedOnExit
  BY <1>6 DEF CommandAnswered, PausedOnExit
<1>7. CASE PauseOnExit
  BY <1>7, CommandType DEF PauseOnExit
<1>8. CASE UNCHANGED vars
  BY <1>8 DEF vars
<1> QED
  BY <1>1, <1>2, <1>3, <1>4, <1>5, <1>6, <1>7, <1>8 DEF Next, Controller, Step

LEMMA TypeInit == Init => TypeInv
<1> SUFFICES ASSUME Init
             PROVE  TypeInv
  OBVIOUS
<1>1. RconTypeOK
  <2>1. toServer \in Seq(Request) /\ toClient \in Seq(Answer)
    BY EmptySeq DEF Init, RconInit
  <2>2. reqID \in 0 .. MaxID /\ served \in 0 .. MaxID
    BY RconAssumption DEF Init, RconInit
  <2> QED  BY <2>1, <2>2 DEF Init, RconInit, RconTypeOK, Sessions, Results
<1> QED
  BY <1>1 DEF Init, TypeInv, TypeOK, DesiredKnown, Places, Modes, Outcomes

LEMMA TypeStep == TypeInv /\ [Next]_vars => TypeInv'
<1> SUFFICES ASSUME TypeInv, [Next]_vars
             PROVE  TypeInv'
  OBVIOUS
<1> USE DEF TypeInv, TypeOK, DesiredKnown, Places, Modes, Outcomes
<1>r. RconTypeOK'
  BY NextIsRconStep, RconTypeStep
<1>1. CASE PlayersChange
  BY <1>1, <1>r DEF PlayersChange, controlVars
<1>2. CASE NodeChanges
  <2>1. healthy' \in BOOLEAN /\ headroom' \in BOOLEAN /\ reachable' \in BOOLEAN
    BY <1>2, Zenon DEF NodeChanges
  <2> QED  BY <1>2, <1>r, <2>1 DEF NodeChanges, controlVars
<1>3. CASE Cancel
  BY <1>3, <1>r DEF Cancel, nodeVars
<1>4. CASE Login
  BY <1>4, <1>r DEF Login, nodeVars, controlVars
<1>5. CASE ServerAnswersLogin
  BY <1>5, <1>r DEF ServerAnswersLogin, nodeVars, controlVars
<1>6. CASE ServerExecutes
  BY <1>6, <1>r DEF ServerExecutes, Effect, nodeVars, controlVars
<1>7. CASE LinkBreaks
  BY <1>7, <1>r DEF LinkBreaks, nodeVars, controlVars
<1>8. CASE Start
  BY <1>8, <1>r DEF Start, nodeVars
<1>9. CASE ReadPlayers
  <2>1. pc' = "decide" => desired' = "pause"
    BY <1>9 DEF ReadPlayers
  <2>2. pc' \in {"tps", "decide"} /\ desired' \in {desired, "pause"}
    BY <1>9 DEF ReadPlayers
  <2>3. /\ joined' \in BOOLEAN
        /\ UNCHANGED <<online, healthy, headroom, reachable, chunky, running, started,
                       cancelled, outcome, doubt>>
    BY <1>9 DEF ReadPlayers, nodeVars
  <2>4. TypeOK'
    BY <1>r, <2>2, <2>3
  <2>5. DesiredKnown'
    BY <2>1, <2>2
  <2> QED  BY <2>4, <2>5
<1>10. CASE ReadTPS
  BY <1>10, <1>r DEF ReadTPS, nodeVars
<1>11. CASE ReadLoad
  BY <1>11, <1>r DEF ReadLoad, nodeVars
<1>12. CASE Hold
  BY <1>12, <1>r DEF Hold, nodeVars
<1>13. CASE SendCommand
  <2>1. /\ pc' \in {"await", "sleep"}
        /\ outcome' \in {outcome, "failed"}
        /\ doubt' \in BOOLEAN
    BY <1>13 DEF SendCommand
  <2>2. UNCHANGED <<online, healthy, headroom, reachable, chunky, desired, running,
                    started, cancelled, joined>>
    BY <1>13 DEF SendCommand, nodeVars
  <2>3. pc = "decide"
    BY <1>13 DEF SendCommand
  <2> QED  BY <1>r, <2>1, <2>2, <2>3
<1>14. CASE CommandAnswered
  BY <1>14, <1>r DEF CommandAnswered, Believed, nodeVars
<1>15. CASE Tick
  BY <1>15, <1>r DEF Tick, nodeVars
<1>16. CASE Exit
  BY <1>16, <1>r DEF Exit, nodeVars
<1>17. CASE PauseOnExit
  BY <1>17, <1>r DEF PauseOnExit, nodeVars
<1>18. CASE PausedOnExit
  BY <1>18, <1>r DEF PausedOnExit, nodeVars
<1>19. CASE UNCHANGED vars
  BY <1>19, <1>r DEF vars, nodeVars, controlVars
<1> QED
  BY <1>1, <1>2, <1>3, <1>4, <1>5, <1>6, <1>7, <1>8, <1>9, <1>10, <1>11, <1>12,
     <1>13, <1>14, <1>15, <1>16, <1>17, <1>18, <1>19
     DEF Next, Server, Controller, Step

(* Type correctness, under any faults of the link: in particular request   *)
(* ids never leave 1 .. MaxID, and only requests and answers are in flight. *)
THEOREM TypeCorrect == Spec => []TypeOK
<1>1. Init => TypeInv
  BY TypeInit
<1>2. TypeInv /\ [Next]_vars => TypeInv'
  BY TypeStep
<1>3. TypeInv => TypeOK
  BY DEF TypeInv
<1> QED  BY <1>1, <1>2, <1>3, PTL DEF Spec

-----------------------------------------------------------------------------
(***************************************************************************)
(* A link without faults.  The argument: the session is "ready" exactly    *)
(* while the controller is between commands, and then both directions of   *)
(* the stream are empty, so Chunky cannot change behind its back; while a  *)
(* command is under way, it or its answer is all there is in the stream.   *)
(***************************************************************************)

\* Where the session is, by where the controller is.
SessionFits ==
    /\ pc = "dial" => session # "reading" /\ ~started
    /\ pc = "exit" \/ Between => session = "ready"
    /\ pc \in {"await", "exitAwait"} => session = "reading"
    /\ pc = "stopped" => session \in {"ready", "failed"}

LoginInStream ==
    \/ toServer = <<[id |-> reqID, body |-> "auth"]>> /\ toClient = <<>>
    \/ toServer = <<>> /\ \E i : toClient = <<[id |-> i, type |-> 2]>>
    \/ toServer = <<>> /\ \E i, j : toClient = <<[id |-> j, type |-> 0], [id |-> i, type |-> 2]>>

CommandInStream ==
    \/ toServer = <<[id |-> reqID, body |-> CommandFor(desired)]>> /\ toClient = <<>>
    \/ toServer = <<>> /\ toClient = <<[id |-> reqID, type |-> 0]>> /\ chunky = desired

\* What is in the stream, by where the session is.
StreamFits ==
    /\ session \in {"auth", "skipped", "ready", "reading"} => up
    /\ session \in {"closed", "ready"} => Quiet
    /\ session = "auth" => LoginInStream
    /\ session = "skipped" => toServer = <<>> /\ \E i : toClient = <<[id |-> i, type |-> 2]>>
    /\ session = "reading" => CommandInStream
    /\ session = "failed" => toServer = <<>>

\* What the controller believes and wants.
BeliefFits ==
    /\ BeliefIsTruth
    /\ pc = "sleep" => started /\ running = desired
    /\ pc \in {"exit", "exitAwait"} => desired = "pause"

\* A step that may resume the task read an empty server.
ReadsFit ==
    pc \in {"tps", "load"} \/ (pc \in {"decide", "await"} /\ desired = "run")
        => (online => joined)

ReliableInv == SessionFits /\ StreamFits /\ BeliefFits /\ ReadsFit

LEMMA ReliableInit == Init => ReliableInv
  BY DEF Init, RconInit, ReliableInv, SessionFits, StreamFits, BeliefFits, ReadsFit,
         BeliefIsTruth, Between, Quiet

(* Steps of the node and of the controller that leave the session alone.   *)
LEMMA ReliableQuietStep ==
    ASSUME TypeInv, ReliableInv,
           \/ PlayersChange \/ NodeChanges \/ Cancel \/ Start \/ ReadPlayers
           \/ ReadTPS \/ ReadLoad \/ Hold \/ Tick \/ Exit \/ UNCHANGED vars
    PROVE  ReliableInv'
<1> USE DEF ReliableInv, SessionFits, BeliefFits, ReadsFit, BeliefIsTruth, Between
<1>a. UNCHANGED rconVars /\ chunky' = chunky
  BY DEF PlayersChange, NodeChanges, Cancel, Start, ReadPlayers, ReadTPS, ReadLoad,
         Hold, Tick, Exit, vars
<1>b. session = "reading" => pc \in {"await", "exitAwait"}
  BY DEF TypeInv, TypeOK, Places
<1>c. session = "reading" => desired' = desired
  BY <1>b DEF PlayersChange, NodeChanges, Cancel, Start, ReadPlayers, ReadTPS, ReadLoad,
         Hold, Tick, Exit, vars, controlVars
<1>s. StreamFits'
  BY <1>a, <1>c DEF StreamFits, LoginInStream, CommandInStream, CommandFor, Quiet, rconVars
<1>1. CASE PlayersChange
  BY <1>1, <1>a, <1>s DEF PlayersChange, controlVars, rconVars
<1>2. CASE NodeChanges
  BY <1>2, <1>a, <1>s DEF NodeChanges, controlVars, rconVars
<1>3. CASE Cancel
  BY <1>3, <1>a, <1>s DEF Cancel, nodeVars, rconVars
<1>4. CASE Start
  BY <1>4, <1>a, <1>s DEF Start, nodeVars, rconVars
<1>5. CASE ReadPlayers
  BY <1>5, <1>a, <1>s DEF ReadPlayers, nodeVars, rconVars
<1>6. CASE ReadTPS
  BY <1>6, <1>a, <1>s DEF ReadTPS, nodeVars, rconVars
<1>7. CASE ReadLoad
  BY <1>7, <1>a, <1>s DEF ReadLoad, nodeVars, rconVars
<1>8. CASE Hold
  BY <1>8, <1>a, <1>s DEF Hold, Settled, nodeVars, rconVars
<1>9. CASE Tick
  BY <1>9, <1>a, <1>s DEF Tick, nodeVars, rconVars
<1>10. CASE Exit
  BY <1>10, <1>a, <1>s DEF Exit, nodeVars, rconVars
<1>11. CASE UNCHANGED vars
  BY <1>11, <1>a, <1>s DEF vars, nodeVars, controlVars, rconVars
<1> QED  BY <1>1, <1>2, <1>3, <1>4, <1>5, <1>6, <1>7, <1>8, <1>9, <1>10, <1>11

(* Logging in: the auth request, then its answer, are all that is in the   *)
(* stream, and the session ends up ready with both directions empty.       *)
LEMMA ReliableLoginStep ==
    ASSUME Faults = {}, TypeInv, ReliableInv, Login \/ ServerAnswersLogin
    PROVE  ReliableInv'
<1> USE DEF ReliableInv, SessionFits
<1>a. UNCHANGED <<online, joined, chunky, pc, desired, running, started>>
  BY DEF Login, ServerAnswersLogin, nodeVars, controlVars
<1>b. BeliefFits' /\ ReadsFit'
  BY <1>a DEF BeliefFits, ReadsFit, BeliefIsTruth, Between
<1>l. CASE Login
  <2>a. session \in {"closed", "auth", "skipped"} /\ session' # "reading"
    BY <1>l DEF Login, Dial, DialRefused, SkipEmptyAnswer, ReadAuthAnswer, AuthReadFails
  <2>b. pc = "dial"
    BY <2>a DEF Between, TypeInv, TypeOK, Places
  <2>c. SessionFits'
    BY <1>a, <2>a, <2>b DEF Between
  <2>1. CASE Dial
    <3>1. toServer' = <<[id |-> reqID', body |-> "auth"]>> /\ toClient' = <<>>
      BY <2>1 DEF Dial, StreamFits, Quiet
    <3> QED  BY <1>b, <2>1, <2>c, <3>1 DEF Dial, StreamFits, LoginInStream
  <2>2. CASE DialRefused
    <3>1. toServer' = <<>> /\ session' = "failed"
      BY <2>2 DEF DialRefused, StreamFits, Quiet
    <3> QED  BY <1>b, <2>c, <3>1 DEF StreamFits
  <2>3. CASE SkipEmptyAnswer
    <3>1. /\ session = "auth" /\ toClient # <<>> /\ Head(toClient).type = 0
          /\ session' = "skipped" /\ toServer' = toServer /\ toClient' = Tail(toClient)
          /\ up' = up
      BY <2>3 DEF SkipEmptyAnswer
    <3>2. LoginInStream /\ up
      BY <3>1 DEF StreamFits
    <3>3. ASSUME NEW i, toClient = <<[id |-> i, type |-> 2]>>
          PROVE  FALSE
      <4>1. Head(toClient) = [id |-> i, type |-> 2]
        BY <3>3, ShortSeq
      <4> QED  BY <3>1, <4>1
    <3>4. toServer = <<>> /\ \E i, j : toClient = <<[id |-> j, type |-> 0], [id |-> i, type |-> 2]>>
      BY <3>1, <3>2, <3>3 DEF LoginInStream
    <3>5. PICK i, j : toClient = <<[id |-> j, type |-> 0], [id |-> i, type |-> 2]>>
      BY <3>4
    <3>6. toClient' = <<[id |-> i, type |-> 2]>>
      BY <3>1, <3>5, ShortSeq
    <3> QED  BY <1>b, <2>c, <3>1, <3>2, <3>4, <3>6 DEF StreamFits
  <2>4. CASE ReadAuthAnswer
    <3>1. /\ session \in {"auth", "skipped"} /\ toClient # <<>>
          /\ session = "auth" => Head(toClient).type # 0
          /\ toServer' = toServer /\ toClient' = Tail(toClient)
      BY <2>4 DEF ReadAuthAnswer
    <3>2. (session' = "ready" /\ up' = up) \/ session' = "failed"
      BY <2>4 DEF ReadAuthAnswer
    <3>3. up /\ (session = "auth" => LoginInStream)
      BY <3>1 DEF StreamFits
    <3>4. ASSUME NEW i, NEW j,
                 toClient = <<[id |-> j, type |-> 0], [id |-> i, type |-> 2]>>
          PROVE  Head(toClient).type = 0
      <4>1. Head(toClient) = [id |-> j, type |-> 0]
        BY <3>4, ShortSeq
      <4> QED  BY <4>1
    <3>5. toServer = <<>> /\ \E i : toClient = <<[id |-> i, type |-> 2]>>
      BY <3>1, <3>3, <3>4 DEF StreamFits, LoginInStream
    <3>6. PICK i : toClient = <<[id |-> i, type |-> 2]>>
      BY <3>5
    <3>7. toClient' = <<>> /\ toServer' = <<>>
      BY <3>1, <3>5, <3>6, ShortSeq
    <3> QED  BY <1>b, <2>c, <3>2, <3>3, <3>7 DEF StreamFits, Quiet
  <2>5. CASE AuthReadFails
    BY <2>5 DEF AuthReadFails, StreamFits
  <2> QED  BY <1>l, <2>1, <2>2, <2>3, <2>4, <2>5 DEF Login
<1>s. CASE ServerAnswersLogin
  <2>1. /\ toServer # <<>> /\ Head(toServer).body = "auth"
        /\ toServer' = Tail(toServer)
        /\ session' = session /\ up' = up
    BY <1>s DEF ServerAnswersLogin, ServeAuth
  <2>2. session \notin {"closed", "ready", "skipped", "failed"}
    BY <2>1 DEF StreamFits, Quiet
  <2>3. session # "reading"
    <3>1. SUFFICES ASSUME session = "reading"  PROVE  FALSE
      OBVIOUS
    <3>2. toServer = <<[id |-> reqID, body |-> CommandFor(desired)]>>
      BY <2>1, <3>1 DEF StreamFits, CommandInStream
    <3>3. Head(toServer) = [id |-> reqID, body |-> CommandFor(desired)]
      BY <3>2, ShortSeq
    <3> QED  BY <2>1, <3>3 DEF CommandFor
  <2>4. session = "auth"
    BY <2>2, <2>3 DEF TypeInv, TypeOK, RconTypeOK, Sessions
  <2>5. up /\ toServer = <<[id |-> reqID, body |-> "auth"]>> /\ toClient = <<>>
    BY <2>1, <2>4 DEF StreamFits, LoginInStream
  <2>6. toServer' = <<>>
    BY <2>1, <2>5, ShortSeq
  <2>7. \/ \E i : toClient' = <<>> \o <<[id |-> i, type |-> 2]>>
        \/ \E i, j : toClient' = <<>> \o <<[id |-> j, type |-> 0]>> \o <<[id |-> i, type |-> 2]>>
    BY <1>s, <2>5 DEF ServerAnswersLogin, ServeAuth
  <2>8. \/ \E i : toClient' = <<[id |-> i, type |-> 2]>>
        \/ \E i, j : toClient' = <<[id |-> j, type |-> 0], [id |-> i, type |-> 2]>>
    <3>1. CASE \E i : toClient' = <<>> \o <<[id |-> i, type |-> 2]>>
      BY <3>1, ShortSeq
    <3>2. CASE \E i, j : toClient' = <<>> \o <<[id |-> j, type |-> 0]>> \o <<[id |-> i, type |-> 2]>>
      <4>1. PICK i, j : toClient' = <<>> \o <<[id |-> j, type |-> 0]>> \o <<[id |-> i, type |-> 2]>>
        BY <3>2
      <4>2. toClient' = <<[id |-> j, type |-> 0], [id |-> i, type |-> 2]>>
        BY <4>1, ShortSeq
      <4> QED  BY <4>2
    <3> QED  BY <2>7, <3>1, <3>2
  <2>9. LoginInStream'
    BY <2>6, <2>8 DEF LoginInStream
  <2>10. StreamFits'
    BY <2>1, <2>4, <2>5, <2>9 DEF StreamFits
  <2> QED  BY <1>a, <1>b, <2>1, <2>10 DEF Between
<1> QED
  BY <1>l, <1>s

(* The command executed is the one the session waits for: Chunky does what *)
(* the controller wanted when it sent it.                                  *)
LEMMA CommandExecuted ==
    ASSUME TypeInv, ReliableInv, ServerExecutes
    PROVE  /\ session = "reading" /\ up /\ toClient = <<>>
           /\ toServer = <<[id |-> reqID, body |-> CommandFor(desired)]>>
           /\ chunky' = desired
<1> USE DEF ReliableInv, SessionFits
<1>1. toServer # <<>> /\ Head(toServer).body # "auth"
  BY DEF ServerExecutes, Serve
<1>2. session = "reading"
  <2>1. session \notin {"closed", "ready", "skipped", "failed"}
    BY <1>1 DEF StreamFits, Quiet
  <2>2. session # "auth"
    <3>1. SUFFICES ASSUME session = "auth"  PROVE  FALSE
      OBVIOUS
    <3>2. toServer = <<[id |-> reqID, body |-> "auth"]>>
      BY <1>1, <3>1 DEF StreamFits, LoginInStream
    <3>3. Head(toServer) = [id |-> reqID, body |-> "auth"]
      BY <3>2, ShortSeq
    <3> QED  BY <1>1, <3>3
  <2> QED  BY <2>1, <2>2 DEF TypeInv, TypeOK, RconTypeOK, Sessions
<1>3. /\ up /\ pc \in {"await", "exitAwait"} /\ desired \in Modes
      /\ toServer = <<[id |-> reqID, body |-> CommandFor(desired)]>> /\ toClient = <<>>
  BY <1>1, <1>2 DEF StreamFits, CommandInStream, Between, TypeInv, TypeOK, Places, DesiredKnown
<1>4. Head(toServer) = [id |-> reqID, body |-> CommandFor(desired)]
  BY <1>3, ShortSeq
<1>5. chunky' = desired
  BY <1>3, <1>4 DEF ServerExecutes, Effect, CommandFor, Modes
<1> QED  BY <1>2, <1>3, <1>5

(* Sending a command and executing it: the only ways into "reading".       *)
LEMMA ReliableCommandStep ==
    ASSUME Faults = {}, TypeInv, ReliableInv,
           SendCommand \/ PauseOnExit \/ ServerExecutes
    PROVE  ReliableInv'
<1> USE DEF ReliableInv, SessionFits, BeliefFits, ReadsFit, BeliefIsTruth, Between
<1>1. CASE SendCommand
  <2>1. session = "ready" /\ up /\ Quiet
    BY <1>1 DEF SendCommand, WriteCommand, StreamFits
  <2>2. toServer' = <<[id |-> reqID', body |-> CommandFor(desired)]>> /\ toClient' = <<>>
    BY <1>1, <2>1, ShortSeq DEF SendCommand, WriteCommand, Quiet
  <2>3. CommandInStream'
    BY <1>1, <2>2 DEF SendCommand, CommandInStream, CommandFor
  <2>4. session' = "reading" /\ up' /\ pc' = "await" /\ pc = "decide"
    BY <1>1, <2>1 DEF SendCommand, WriteCommand
  <2>5. UNCHANGED <<online, joined, desired, chunky, running, started>>
    BY <1>1 DEF SendCommand, nodeVars
  <2> QED  BY <2>3, <2>4, <2>5 DEF StreamFits
<1>2. CASE PauseOnExit
  <2>1. session = "ready" /\ up /\ Quiet /\ PauseNeeded /\ desired = "pause"
    BY <1>2 DEF PauseOnExit, StreamFits, PauseNeeded
  <2>2. toServer' = <<[id |-> reqID', body |-> "pause"]>> /\ toClient' = <<>>
    BY <1>2, <2>1, ShortSeq DEF PauseOnExit, WriteCommand, Quiet
  <2>3. CommandInStream'
    BY <1>2, <2>1, <2>2 DEF PauseOnExit, CommandInStream, CommandFor
  <2>4. session' = "reading" /\ up' /\ pc' = "exitAwait" /\ desired' = desired
    BY <1>2, <2>1 DEF PauseOnExit, WriteCommand
  <2> QED  BY <2>1, <2>3, <2>4 DEF StreamFits
<1>3. CASE ServerExecutes
  <2>1. /\ session = "reading" /\ up /\ toClient = <<>> /\ chunky' = desired
        /\ toServer = <<[id |-> reqID, body |-> CommandFor(desired)]>>
    BY <1>3, CommandExecuted
  <2>2. Head(toServer) = [id |-> reqID, body |-> CommandFor(desired)] /\ Tail(toServer) = <<>>
    BY <2>1, ShortSeq
  <2>3. UNCHANGED <<session, reqID, up, pc, desired, online, joined, running, started>>
    BY <1>3 DEF ServerExecutes, Serve, nodeVars, controlVars
  <2>4. toServer' = <<>> /\ toClient' = <<[id |-> reqID, type |-> 0]>>
    BY <1>3, <2>1, <2>2, ShortSeq DEF ServerExecutes, Serve
  <2>5. CommandInStream'
    BY <2>1, <2>3, <2>4 DEF CommandInStream
  <2>6. pc \in {"await", "exitAwait"}
    BY <2>1 DEF TypeInv, TypeOK, Places
  <2> QED  BY <2>1, <2>3, <2>5, <2>6 DEF StreamFits
<1> QED  BY <1>1, <1>2, <1>3

(* The answer: it is the command's own, so the belief becomes the truth.   *)
LEMMA ReliableAnswerStep ==
    ASSUME Faults = {}, TypeInv, ReliableInv, CommandAnswered \/ PausedOnExit
    PROVE  ReliableInv'
<1> USE DEF ReliableInv, SessionFits, BeliefFits, ReadsFit, BeliefIsTruth, Between
<1>1. ReadAnswer /\ session = "reading" /\ pc \in {"await", "exitAwait"}
  BY DEF CommandAnswered, PausedOnExit, CommandReturns, ReadAnswer, ReadTimesOut,
         ReadOnBrokenLink, StreamFits
<1>2. toServer = <<>> /\ toClient = <<[id |-> reqID, type |-> 0]>> /\ chunky = desired
  BY <1>1 DEF ReadAnswer, StreamFits, CommandInStream
<1>3. session' = "ready" /\ toServer' = <<>> /\ toClient' = <<>> /\ result' = "ok" /\ up'
  BY <1>1, <1>2, ShortSeq DEF ReadAnswer, Matches, StreamFits
<1>4. StreamFits'
  BY <1>3 DEF StreamFits, Quiet
<1>5. CASE CommandAnswered
  <2>1. /\ pc' = "sleep" /\ running' = desired /\ started' /\ desired' = desired
        /\ chunky' = chunky
    BY <1>3, <1>5 DEF CommandAnswered, Believed
  <2> QED  BY <1>2, <1>3, <1>4, <2>1
<1>6. CASE PausedOnExit
  BY <1>3, <1>4, <1>6 DEF PausedOnExit
<1> QED  BY <1>5, <1>6

LEMMA ReliableStep ==
    ASSUME Faults = {}, TypeInv, ReliableInv, [Next]_vars
    PROVE  ReliableInv'
<1>1. ~LinkBreaks
  BY DEF LinkBreaks, Reset
<1> QED
  BY <1>1, ReliableQuietStep, ReliableLoginStep, ReliableCommandStep, ReliableAnswerStep
     DEF Next, Server, Controller, Step

LEMMA ReliableInvariance ==
    ASSUME Faults = {}
    PROVE  Spec => [](TypeInv /\ ReliableInv)
<1>1. Init => TypeInv /\ ReliableInv
  BY TypeInit, ReliableInit
<1>2. TypeInv /\ ReliableInv /\ [Next]_vars => (TypeInv /\ ReliableInv)'
  BY TypeStep, ReliableStep
<1> QED  BY <1>1, <1>2, PTL DEF Spec

(* Without link faults the controller is never wrong about Chunky: outside *)
(* a command, what it believes is what the task does.                      *)
THEOREM BeliefHolds ==
    ASSUME Faults = {}
    PROVE  Spec => []BeliefIsTruth
<1>1. TypeInv /\ ReliableInv => BeliefIsTruth
  BY DEF ReliableInv, BeliefFits
<1> QED  BY <1>1, ReliableInvariance, PTL

(* Without link faults a step that found the node not idle leaves the task *)
(* paused, whether it sent the command or held.                            *)
THEOREM Yields ==
    ASSUME Faults = {}
    PROVE  Spec => []YieldsWhenUnsafe
<1>1. TypeInv /\ ReliableInv => YieldsWhenUnsafe
  BY DEF ReliableInv, BeliefFits, BeliefIsTruth, Between, YieldsWhenUnsafe
<1> QED  BY <1>1, ReliableInvariance, PTL

(* Without link faults the task is resumed only by a step that read an     *)
(* empty server; whoever is online then joined after that read.            *)
THEOREM ResumesFresh ==
    ASSUME Faults = {}
    PROVE  Spec => ResumesOnFreshReads
<1>1. ASSUME TypeInv, ReliableInv, [Next]_vars, chunky = "pause", chunky' = "run"
      PROVE  pc = "await" /\ desired = "run" /\ (online => joined)
  <2>1. ServerExecutes
    BY <1>1 DEF Next, PlayersChange, NodeChanges, Cancel, Login, Server,
       ServerAnswersLogin, LinkBreaks, Controller, Step, Start, ReadPlayers, ReadTPS,
       ReadLoad, Hold, SendCommand, CommandAnswered, Tick, Exit, PauseOnExit,
       PausedOnExit, vars
  <2>2. toServer # <<>> /\ Head(toServer).body = "continue"
    BY <1>1, <2>1 DEF ServerExecutes, Serve, Effect
  <2>3. session = "reading" /\ desired = "run"
    BY <1>1, <2>1, CommandExecuted
  <2>4. pc = "await"
    BY <1>1, <2>3 DEF ReliableInv, SessionFits, BeliefFits, Between, TypeInv, TypeOK, Places
  <2> QED  BY <1>1, <2>3, <2>4 DEF ReliableInv, ReadsFit
<1> QED  BY <1>1, ReliableInvariance, PTL DEF Spec, ResumesOnFreshReads

-----------------------------------------------------------------------------
(***************************************************************************)
(* Any link.  Answers may be late and the connection may break, so stale   *)
(* answers can be in the stream when a command is sent.  The argument: on  *)
(* a connection that stands, the requests and answers in flight carry the  *)
(* latest ids in order, fewer than MaxID of them, so all ids in flight     *)
(* differ and an answer with the latest id is the only thing in flight; on *)
(* a broken connection no answer can be read at all.                       *)
(***************************************************************************)

\* The id of the request that was made k requests before the one with this id.
Ago(id, k) == IF id - k >= 1 THEN id - k ELSE id - k + MaxID

\* What is in the stream while logging in.
LoginFits ==
    /\ session = "closed" => Quiet
    /\ session = "auth" /\ up => LoginInStream
    /\ session = "skipped" /\ up => toServer = <<>> /\ \E i : toClient = <<[id |-> i, type |-> 2]>>
    /\ session \in {"auth", "skipped"} /\ ~up => toClient = <<>>

\* Answers are ahead of requests, and the oldest of each is at its head.
IdsFit ==
    /\ \A i \in 1 .. Len(toClient) : toClient[i].id = Ago(reqID, InFlight - i)
    /\ \A i \in 1 .. Len(toServer) : toServer[i].id = Ago(reqID, Len(toServer) - i)

BodiesFit == \A i \in 1 .. Len(toServer) : toServer[i].body # "auth"

FlightFits ==
    /\ session = "ready" => InFlight < MaxInFlight
    /\ session = "reading" => InFlight <= MaxInFlight

\* The command that is waited for is the last one in flight.
LatestFits ==
    IF toServer = <<>>
      THEN toClient # <<>> /\ served = reqID /\ chunky = desired
      ELSE toServer[Len(toServer)].body = CommandFor(desired)

\* What is in the stream once logged in.
TrafficFits ==
    session \in {"ready", "reading"} =>
        /\ reqID \in RequestIDs
        /\ BodiesFit
        /\ up => IdsFit /\ FlightFits
        /\ ~up => toClient = <<>>
        /\ session = "reading" /\ up => LatestFits

\* What a command reported as executed leaves behind.
ReportFits ==
    /\ DoubtlessBeliefIsTruth
    /\ pc = "sleep" /\ outcome = "sent" => Quiet /\ served = reqID /\ chunky = desired
    /\ pc \in {"exit", "exitAwait"} => desired = "pause"

FaultyInv == SessionFits /\ LoginFits /\ TrafficFits /\ ReportFits

LEMMA FaultyInit == Init => FaultyInv
  BY DEF Init, RconInit, FaultyInv, SessionFits, LoginFits, TrafficFits, ReportFits,
         DoubtlessBeliefIsTruth, Between, Quiet

(* Ids that are less than MaxID requests apart differ.                     *)
LEMMA AgoDiffers ==
    ASSUME NEW id \in RequestIDs, NEW k \in Nat, k < MaxID, Ago(id, k) = id
    PROVE  k = 0
  BY RconAssumption DEF Ago, RequestIDs

(* A new request makes every other one request older.                      *)
LEMMA AgoAdvances ==
    ASSUME NEW id \in RequestIDs, NEW k \in Nat, k + 1 < MaxID
    PROVE  Ago(NextID(id), k + 1) = Ago(id, k)
  BY RconAssumption DEF Ago, RequestIDs, NextID

LEMMA AgoZero ==
    ASSUME NEW id \in RequestIDs
    PROVE  Ago(id, 0) = id
  BY RconAssumption DEF Ago, RequestIDs

(* Lengths are natural numbers, and what is not empty has a last element.  *)
LEMMA StreamLengths ==
    ASSUME RconTypeOK
    PROVE  /\ Len(toServer) \in Nat /\ Len(toClient) \in Nat
           /\ toServer # <<>> => Len(toServer) > 0
           /\ toClient # <<>> => Len(toClient) > 0
           /\ toServer = <<>> => Len(toServer) = 0
           /\ toClient = <<>> => Len(toClient) = 0
<1>1. toServer \in Seq(Request) /\ toClient \in Seq(Answer)
  BY DEF RconTypeOK
<1>2. /\ Len(toServer) \in Nat /\ Len(toClient) \in Nat
      /\ toServer = <<>> => Len(toServer) = 0
      /\ toClient = <<>> => Len(toClient) = 0
  BY <1>1
<1>3. toServer # <<>> => Len(toServer) \in Nat \ {0}
  BY <1>1, EmptySeq
<1>4. toClient # <<>> => Len(toClient) \in Nat \ {0}
  BY <1>1, EmptySeq
<1> QED  BY <1>2, <1>3, <1>4

(* Steps of the node and of the controller that leave the session alone.   *)
LEMMA FaultyQuietStep ==
    ASSUME TypeInv, FaultyInv,
           \/ PlayersChange \/ NodeChanges \/ Cancel \/ Start \/ ReadPlayers
           \/ ReadTPS \/ ReadLoad \/ Hold \/ Tick \/ Exit \/ UNCHANGED vars
    PROVE  FaultyInv'
<1> USE DEF FaultyInv, SessionFits, ReportFits, DoubtlessBeliefIsTruth, Between
<1>a. /\ UNCHANGED <<session, reqID, up, toServer, toClient, result, served>>
      /\ chunky' = chunky
  BY DEF PlayersChange, NodeChanges, Cancel, Start, ReadPlayers, ReadTPS, ReadLoad,
         Hold, Tick, Exit, vars, rconVars
<1>b. session = "reading" => pc \in {"await", "exitAwait"}
  BY DEF TypeInv, TypeOK, Places
<1>c. session = "reading" => desired' = desired
  BY <1>b DEF PlayersChange, NodeChanges, Cancel, Start, ReadPlayers, ReadTPS, ReadLoad,
         Hold, Tick, Exit, vars, controlVars
<1>d. (Quiet <=> Quiet') /\ InFlight' = InFlight /\ (LoginFits => LoginFits')
  BY <1>a DEF Quiet, InFlight, LoginFits, LoginInStream
<1>e. /\ IdsFit => IdsFit'
      /\ FlightFits => FlightFits'
      /\ BodiesFit => BodiesFit'
      /\ session = "reading" /\ LatestFits => LatestFits'
  BY <1>a, <1>c, <1>d DEF IdsFit, FlightFits, BodiesFit, LatestFits, CommandFor
<1>s. LoginFits' /\ TrafficFits'
  BY <1>a, <1>d, <1>e DEF TrafficFits
<1>1. CASE PlayersChange
  BY <1>1, <1>a, <1>d, <1>s DEF PlayersChange, controlVars
<1>2. CASE NodeChanges
  BY <1>2, <1>a, <1>d, <1>s DEF NodeChanges, controlVars
<1>3. CASE Cancel
  BY <1>3, <1>a, <1>d, <1>s DEF Cancel
<1>4. CASE Start
  BY <1>4, <1>a, <1>d, <1>s DEF Start
<1>5. CASE ReadPlayers
  BY <1>5, <1>a, <1>d, <1>s DEF ReadPlayers
<1>6. CASE ReadTPS
  BY <1>6, <1>a, <1>d, <1>s DEF ReadTPS
<1>7. CASE ReadLoad
  BY <1>7, <1>a, <1>d, <1>s DEF ReadLoad
<1>8. CASE Hold
  BY <1>8, <1>a, <1>d, <1>s DEF Hold
<1>9. CASE Tick
  BY <1>9, <1>a, <1>d, <1>s DEF Tick
<1>10. CASE Exit
  BY <1>10, <1>a, <1>d, <1>s DEF Exit
<1>11. CASE UNCHANGED vars
  BY <1>11, <1>a, <1>d, <1>s DEF vars, nodeVars, controlVars
<1> QED  BY <1>1, <1>2, <1>3, <1>4, <1>5, <1>6, <1>7, <1>8, <1>9, <1>10, <1>11

(* Logging in over any link: a session gets ready only over a connection   *)
(* that stands, with nothing left in flight.                               *)
LEMMA FaultyLoginStep ==
    ASSUME TypeInv, FaultyInv, Login
    PROVE  FaultyInv'
<1> USE DEF FaultyInv
<1>a. UNCHANGED <<online, joined, chunky, pc, desired, running, started, outcome, doubt>>
  BY DEF Login, nodeVars, controlVars
<1>b. session \in {"closed", "auth", "skipped"} /\ session' # "reading"
  BY DEF Login, Dial, DialRefused, SkipEmptyAnswer, ReadAuthAnswer, AuthReadFails
<1>c. pc = "dial"
  BY <1>b DEF SessionFits, Between, TypeInv, TypeOK, Places
<1>d. SessionFits' /\ ReportFits'
  BY <1>a, <1>b, <1>c DEF SessionFits, ReportFits, DoubtlessBeliefIsTruth, Between
<1>1. CASE Dial
  <2>1. /\ session' = "auth" /\ up' /\ toServer' = <<[id |-> reqID', body |-> "auth"]>>
        /\ toClient' = <<>>
    BY <1>1 DEF Dial, LoginFits, Quiet
  <2> QED  BY <1>d, <2>1 DEF LoginFits, TrafficFits, LoginInStream
<1>2. CASE DialRefused \/ AuthReadFails
  <2>1. session' = "failed"
    BY <1>2 DEF DialRefused, AuthReadFails
  <2> QED  BY <1>d, <2>1 DEF LoginFits, TrafficFits
<1>3. CASE SkipEmptyAnswer
  <2>1. /\ session = "auth" /\ toClient # <<>> /\ Head(toClient).type = 0
        /\ session' = "skipped" /\ toServer' = toServer /\ toClient' = Tail(toClient)
        /\ up' = up
    BY <1>3 DEF SkipEmptyAnswer
  <2>2. up /\ LoginInStream
    BY <2>1 DEF LoginFits, TypeInv, TypeOK, RconTypeOK
  <2>3. ASSUME NEW i, toClient = <<[id |-> i, type |-> 2]>>
        PROVE  FALSE
    <3>1. Head(toClient) = [id |-> i, type |-> 2]
      BY <2>3, ShortSeq
    <3> QED  BY <2>1, <3>1
  <2>4. toServer = <<>> /\ \E i, j : toClient = <<[id |-> j, type |-> 0], [id |-> i, type |-> 2]>>
    BY <2>1, <2>2, <2>3 DEF LoginInStream
  <2>5. PICK i, j : toClient = <<[id |-> j, type |-> 0], [id |-> i, type |-> 2]>>
    BY <2>4
  <2>6. toClient' = <<[id |-> i, type |-> 2]>>
    BY <2>1, <2>5, ShortSeq
  <2> QED  BY <1>d, <2>1, <2>2, <2>4, <2>6 DEF LoginFits, TrafficFits
<1>4. CASE ReadAuthAnswer
  <2>1. /\ session \in {"auth", "skipped"} /\ toClient # <<>>
        /\ session = "auth" => Head(toClient).type # 0
        /\ toServer' = toServer /\ toClient' = Tail(toClient) /\ reqID' = reqID
    BY <1>4 DEF ReadAuthAnswer
  <2>2. \/ session' = "ready" /\ up' = up /\ Head(toClient).id = reqID
        \/ session' = "failed"
    BY <1>4 DEF ReadAuthAnswer
  <2>3. up /\ (session = "auth" => LoginInStream)
    BY <2>1 DEF LoginFits, TypeInv, TypeOK, RconTypeOK
  <2>4. ASSUME NEW i, NEW j, session = "auth",
               toClient = <<[id |-> j, type |-> 0], [id |-> i, type |-> 2]>>
        PROVE  FALSE
    <3>1. Head(toClient) = [id |-> j, type |-> 0]
      BY <2>4, ShortSeq
    <3> QED  BY <2>1, <2>4, <3>1
  <2>5. toServer = <<>> /\ \E i : toClient = <<[id |-> i, type |-> 2]>>
    BY <2>1, <2>3, <2>4 DEF LoginFits, LoginInStream
  <2>6. PICK i : toClient = <<[id |-> i, type |-> 2]>>
    BY <2>5
  <2>7. toClient' = <<>> /\ toServer' = <<>>
    BY <2>1, <2>5, <2>6, ShortSeq
  <2>8. CASE session' = "ready" /\ Head(toClient).id = reqID /\ up' = up
    <3>1. Head(toClient) \in Answer /\ reqID \in 0 .. MaxID
      BY <2>1, HeadTailType DEF TypeInv, TypeOK, RconTypeOK
    <3>2. reqID' \in RequestIDs
      BY <2>1, <2>8, <3>1, RconAssumption DEF Answer, RequestIDs, AuthFailedID
    <3>3. Len(toServer') = 0 /\ Len(toClient') = 0
      BY <2>7
    <3>4. InFlight' < MaxInFlight
      BY <3>3, RconAssumption DEF InFlight
    <3>5. TrafficFits'
      BY <2>3, <2>8, <3>2, <3>3, <3>4 DEF TrafficFits, BodiesFit, IdsFit, FlightFits
    <3> QED  BY <1>d, <2>8, <3>5 DEF LoginFits
  <2>9. CASE session' = "failed"
    BY <1>d, <2>9 DEF LoginFits, TrafficFits
  <2> QED  BY <2>2, <2>8, <2>9
<1> QED  BY <1>1, <1>2, <1>3, <1>4 DEF Login

(* The server's answer to the login: it finds the auth request only while  *)
(* the client waits for that answer, or has given up.                      *)
LEMMA FaultyAuthStep ==
    ASSUME TypeInv, FaultyInv, ServerAnswersLogin
    PROVE  FaultyInv'
<1> USE DEF FaultyInv
<1>a. UNCHANGED <<session, reqID, up, served, chunky, pc, desired, running, started,
                  outcome, doubt>>
  BY DEF ServerAnswersLogin, ServeAuth, nodeVars, controlVars
<1>b. toServer # <<>> /\ Head(toServer).body = "auth" /\ toServer' = Tail(toServer)
  BY DEF ServerAnswersLogin, ServeAuth
<1>c. session \notin {"closed", "ready", "reading"}
  <2>1. session # "closed"
    BY <1>b DEF LoginFits, Quiet
  <2>2. SUFFICES ASSUME session \in {"ready", "reading"} PROVE FALSE
    BY <2>1
  <2>3. BodiesFit
    BY <2>2 DEF TrafficFits
  <2>4. Len(toServer) \in Nat /\ Len(toServer) > 0
    BY <1>b, StreamLengths DEF TypeInv, TypeOK
  <2>5. toServer[1].body # "auth"
    BY <2>3, <2>4 DEF BodiesFit
  <2>6. Head(toServer) = toServer[1]
    BY <1>b DEF TypeInv, TypeOK, RconTypeOK
  <2> QED  BY <1>b, <2>5, <2>6
<1>d. SessionFits' /\ ReportFits' /\ TrafficFits'
  <2>1. ~Between /\ pc \notin {"exit", "exitAwait", "sleep"}
    BY <1>c DEF SessionFits, Between
  <2> QED  BY <1>a, <1>c, <2>1 DEF SessionFits, ReportFits, DoubtlessBeliefIsTruth,
                                   Between, TrafficFits
<1>1. CASE session \notin {"auth", "skipped"}
  BY <1>a, <1>c, <1>d, <1>1 DEF LoginFits
<1>2. CASE session \in {"auth", "skipped"} /\ ~up
  <2>1. toClient' = <<>>
    BY <1>2 DEF ServerAnswersLogin, ServeAuth, LoginFits
  <2> QED  BY <1>a, <1>d, <1>2, <2>1 DEF LoginFits
<1>3. CASE session \in {"auth", "skipped"} /\ up
  <2>1. session = "auth"
    BY <1>b, <1>3 DEF LoginFits
  <2>2. toServer = <<[id |-> reqID, body |-> "auth"]>> /\ toClient = <<>>
    BY <1>b, <1>3, <2>1 DEF LoginFits, LoginInStream
  <2>3. toServer' = <<>>
    BY <1>b, <2>2, ShortSeq
  <2>4. \/ \E i : toClient' = <<>> \o <<[id |-> i, type |-> 2]>>
        \/ \E i, j : toClient' = <<>> \o <<[id |-> j, type |-> 0]>> \o <<[id |-> i, type |-> 2]>>
    BY <1>3, <2>2 DEF ServerAnswersLogin, ServeAuth
  <2>5. \/ \E i : toClient' = <<[id |-> i, type |-> 2]>>
        \/ \E i, j : toClient' = <<[id |-> j, type |-> 0], [id |-> i, type |-> 2]>>
    <3>1. CASE \E i : toClient' = <<>> \o <<[id |-> i, type |-> 2]>>
      BY <3>1, ShortSeq
    <3>2. CASE \E i, j : toClient' = <<>> \o <<[id |-> j, type |-> 0]>> \o <<[id |-> i, type |-> 2]>>
      <4>1. PICK i, j : toClient' = <<>> \o <<[id |-> j, type |-> 0]>> \o <<[id |-> i, type |-> 2]>>
        BY <3>2
      <4>2. toClient' = <<[id |-> j, type |-> 0], [id |-> i, type |-> 2]>>
        BY <4>1, ShortSeq
      <4> QED  BY <4>2
    <3> QED  BY <2>4, <3>1, <3>2
  <2>6. LoginInStream'
    BY <2>3, <2>5 DEF LoginInStream
  <2> QED  BY <1>a, <1>d, <1>3, <2>1, <2>6 DEF LoginFits
<1> QED  BY <1>1, <1>2, <1>3

(* A broken connection loses every answer and perhaps the requests.        *)
LEMMA FaultyBreakStep ==
    ASSUME TypeInv, FaultyInv, LinkBreaks
    PROVE  FaultyInv'
<1> USE DEF FaultyInv
<1>1. /\ UNCHANGED <<session, reqID, served, chunky, pc, desired, running, started,
                     outcome, doubt>>
      /\ ~up' /\ toClient' = <<>> /\ (toServer' = toServer \/ toServer' = <<>>)
  BY DEF LinkBreaks, Reset, nodeVars, controlVars
<1>2. Quiet => Quiet'
  BY <1>1 DEF Quiet
<1>3. BodiesFit => BodiesFit'
  <2>1. CASE toServer' = toServer
    BY <2>1 DEF BodiesFit
  <2>2. CASE toServer' = <<>>
    <3>1. Len(toServer') = 0
      BY <2>2
    <3> QED  BY <3>1 DEF BodiesFit
  <2> QED  BY <1>1, <2>1, <2>2
<1>4. SessionFits' /\ ReportFits'
  BY <1>1, <1>2 DEF SessionFits, ReportFits, DoubtlessBeliefIsTruth, Between
<1>5. LoginFits' /\ TrafficFits'
  BY <1>1, <1>2, <1>3 DEF LoginFits, TrafficFits
<1> QED  BY <1>4, <1>5

(* The server executes a command: what is in flight keeps its order, and   *)
(* when the latest command is executed, Chunky does what it says.          *)
LEMMA FaultyExecuteStep ==
    ASSUME TypeInv, FaultyInv, ServerExecutes
    PROVE  FaultyInv'
<1> USE DEF FaultyInv
<1> DEFINE m == Len(toServer)
           n == Len(toClient)
           answer == [id |-> Head(toServer).id, type |-> 0]
<1>a. /\ toServer # <<>> /\ Head(toServer).body # "auth" /\ toServer' = Tail(toServer)
      /\ toClient' = IF up THEN Append(toClient, answer) ELSE toClient
      /\ served' = Head(toServer).id /\ chunky' = Effect(Head(toServer).body)
      /\ UNCHANGED <<session, reqID, up, pc, desired, running, started, outcome, doubt>>
  BY DEF ServerExecutes, Serve, nodeVars, controlVars
<1>t. /\ toServer \in Seq(Request) /\ toClient \in Seq(Answer)
      /\ m \in Nat /\ n \in Nat /\ m > 0
      /\ Head(toServer) = toServer[1] /\ Head(toServer) \in Request
  BY <1>a, StreamLengths, HeadTailType DEF TypeInv, TypeOK, RconTypeOK
<1>u. answer \in Answer
  BY <1>t DEF Answer, Request
<1>v. /\ toServer' \in Seq(Request) /\ Len(toServer') = m - 1
      /\ \A i \in 1 .. m - 1 : toServer'[i] = toServer[i + 1]
  BY <1>a, <1>t, HeadTailProperties
<1>w. up => /\ Len(toClient') = n + 1 /\ toClient' # <<>>
            /\ \A i \in 1 .. n : toClient'[i] = toClient[i]
            /\ toClient'[n + 1] = answer
  <2> HIDE DEF answer
  <2> QED  BY <1>a, <1>t, <1>u, AppendProperties
<1>1. SessionFits' /\ ReportFits'
  BY <1>a DEF SessionFits, ReportFits, DoubtlessBeliefIsTruth, Between, Quiet
<1>2. LoginFits'
  <2>1. session # "closed"
    BY <1>a DEF LoginFits, Quiet
  <2>2. session = "auth" => ~up
    <3>1. SUFFICES ASSUME session = "auth", up PROVE FALSE
      OBVIOUS
    <3>2. toServer = <<[id |-> reqID, body |-> "auth"]>>
      BY <1>a, <3>1 DEF LoginFits, LoginInStream
    <3>3. Head(toServer) = [id |-> reqID, body |-> "auth"]
      BY <3>2, ShortSeq
    <3> QED  BY <1>a, <3>3
  <2>3. session = "skipped" => ~up
    BY <1>a DEF LoginFits
  <2> QED  BY <1>a, <2>1, <2>2, <2>3 DEF LoginFits
<1>3. CASE session \notin {"ready", "reading"}
  BY <1>a, <1>1, <1>2, <1>3 DEF TrafficFits
<1>4. CASE session \in {"ready", "reading"}
  <2>1. reqID \in RequestIDs /\ BodiesFit /\ (~up => toClient = <<>>)
    BY <1>4 DEF TrafficFits
  <2>2. BodiesFit'
    BY <1>t, <1>v, <2>1 DEF BodiesFit
  <2>3. CASE ~up
    BY <1>a, <1>1, <1>2, <2>1, <2>2, <2>3 DEF TrafficFits
  <2>4. CASE up
    <3>1. IdsFit /\ FlightFits
      BY <1>4, <2>4 DEF TrafficFits
    <3>2. InFlight' = InFlight /\ InFlight = m + n
      <4>1. Len(toServer') = m - 1 /\ Len(toClient') = n + 1
        BY <1>v, <1>w, <2>4
      <4>2. m \in Nat /\ n \in Nat
        BY <1>t
      <4> QED  BY <4>1, <4>2 DEF InFlight
    <3>3. FlightFits'
      BY <1>a, <3>1, <3>2 DEF FlightFits
    <3>4. \A i \in 1 .. m - 1 : toServer'[i].id = Ago(reqID, m - 1 - i)
      <4>1. SUFFICES ASSUME NEW i \in 1 .. m - 1
                     PROVE  toServer'[i].id = Ago(reqID, m - 1 - i)
        OBVIOUS
      <4>2. toServer[i + 1].id = Ago(reqID, m - (i + 1))
        BY <1>t, <3>1 DEF IdsFit
      <4>3. m - (i + 1) = m - 1 - i
        BY <1>t
      <4> QED  BY <1>v, <4>2, <4>3
    <3>5. answer.id = Ago(reqID, m - 1)
      BY <1>t, <3>1 DEF IdsFit
    <3>6. \A i \in 1 .. n + 1 : toClient'[i].id = Ago(reqID, m + n - i)
      <4>1. \A i \in 1 .. n : toClient'[i].id = Ago(reqID, m + n - i)
        BY <1>w, <2>4, <3>1, <3>2 DEF IdsFit
      <4>2. m + n - (n + 1) = m - 1
        BY <1>t
      <4>3. toClient'[n + 1].id = Ago(reqID, m + n - (n + 1))
        BY <1>w, <2>4, <3>5, <4>2
      <4>4. \A i \in 1 .. n + 1 : i \in 1 .. n \/ i = n + 1
        BY <1>t
      <4> QED  BY <4>1, <4>3, <4>4
    <3>7. IdsFit'
      <4>1. Len(toServer') = m - 1 /\ Len(toClient') = n + 1 /\ InFlight' = m + n
        BY <1>v, <1>w, <2>4, <3>2
      <4>2. reqID' = reqID
        BY <1>a
      <4>3. m \in Nat /\ n \in Nat
        BY <1>t
      <4> HIDE DEF m, n
      <4>4. ASSUME NEW i \in 1 .. Len(toServer')
            PROVE  toServer'[i].id = Ago(reqID', Len(toServer') - i)
        <5>1. i \in 1 .. m - 1 /\ Len(toServer') - i = m - 1 - i
          BY <4>1, <4>3
        <5> QED  BY <3>4, <4>2, <5>1, Zenon
      <4>5. ASSUME NEW i \in 1 .. Len(toClient')
            PROVE  toClient'[i].id = Ago(reqID', InFlight' - i)
        <5>1. i \in 1 .. n + 1 /\ InFlight' - i = m + n - i
          BY <4>1, <4>3
        <5> QED  BY <3>6, <4>2, <5>1, Zenon
      <4> QED  BY <4>4, <4>5 DEF IdsFit
    <3>8. ASSUME session = "reading"
          PROVE  LatestFits'
      <4>1. toServer[m].body = CommandFor(desired)
        BY <1>a, <2>4, <3>8 DEF TrafficFits, LatestFits
      <4>2. CASE m = 1
        <5>1. Len(toServer') = 0
          BY <1>v, <4>2
        <5>2. toServer' = <<>>
          BY <1>v, <5>1, EmptySeq
        <5>3. served' = Ago(reqID, 0)
          BY <1>a, <3>5, <4>2
        <5>4. served' = reqID
          BY <2>1, <5>3, AgoZero
        <5>5. pc \in {"await", "exitAwait"}
          BY <3>8 DEF SessionFits, Between, TypeInv, TypeOK, Places
        <5>6. desired \in Modes
          BY <5>5 DEF TypeInv, DesiredKnown
        <5>7. chunky' = desired
          BY <1>a, <1>t, <4>1, <4>2, <5>6 DEF Effect, CommandFor, Modes
        <5> QED  BY <1>a, <1>w, <2>4, <5>2, <5>4, <5>7 DEF LatestFits
      <4>3. CASE m # 1
        <5>1. Len(toServer') = m - 1 /\ m - 1 > 0 /\ m - 1 \in 1 .. m - 1
          BY <1>t, <1>v, <4>3
        <5>2. toServer' # <<>>
          BY <1>v, <5>1, EmptySeq
        <5>3. toServer'[m - 1] = toServer[m - 1 + 1] /\ m - 1 + 1 = m
          BY <1>t, <1>v, <5>1
        <5>4. toServer'[Len(toServer')] = toServer[m]
          BY <5>1, <5>3
        <5> QED  BY <1>a, <4>1, <5>2, <5>4 DEF LatestFits, CommandFor
      <4> QED  BY <4>2, <4>3
    <3>9. TrafficFits'
      BY <1>a, <2>1, <2>2, <2>4, <3>3, <3>7, <3>8 DEF TrafficFits
    <3> QED  BY <1>1, <1>2, <3>9
  <2> QED  BY <2>3, <2>4
<1> QED  BY <1>3, <1>4

(* A command is written behind whatever is in flight, with an id of its    *)
(* own; on a broken connection nothing is written.                         *)
LEMMA FaultyWriteStep ==
    ASSUME TypeInv, FaultyInv, NEW cmd \in {"continue", "pause"}, WriteCommand(cmd),
           chunky' = chunky, desired' = desired, CommandFor(desired) = cmd
    PROVE  /\ LoginFits' /\ TrafficFits' /\ up' = up
           /\ up => session' = "reading"
           /\ ~up => session' = "ready"
<1> USE DEF FaultyInv
<1> DEFINE m == Len(toServer)
           n == Len(toClient)
           request == [id |-> reqID', body |-> cmd]
<1>a. session = "ready" /\ reqID' = NextID(reqID) /\ UNCHANGED <<up, toClient, served>>
  BY DEF WriteCommand
<1>b. /\ up => toServer' = Append(toServer, request) /\ session' = "reading"
      /\ ~up => toServer' = toServer /\ session' = session
  BY DEF WriteCommand
<1>c. LoginFits'
  BY <1>a, <1>b DEF LoginFits
<1>d. reqID \in RequestIDs /\ BodiesFit /\ (~up => toClient = <<>>)
  BY <1>a DEF TrafficFits
<1>e. reqID' \in RequestIDs
  BY <1>a, NextIDType DEF TypeInv, TypeOK, RconTypeOK
<1>t. /\ toServer \in Seq(Request) /\ toClient \in Seq(Answer) /\ m \in Nat /\ n \in Nat
  BY StreamLengths DEF TypeInv, TypeOK, RconTypeOK
<1>1. CASE ~up
  <2>1. BodiesFit'
    BY <1>b, <1>d, <1>1 DEF BodiesFit
  <2> QED  BY <1>a, <1>b, <1>c, <1>d, <1>e, <1>1, <2>1 DEF TrafficFits
<1>2. CASE up
  <2>1. IdsFit /\ m + n < MaxInFlight
    BY <1>a, <1>2 DEF TrafficFits, FlightFits, InFlight
  <2>2. request \in Request
    BY <1>e, PregenAssumption DEF Request
  <2>3. /\ toServer' # <<>> /\ Len(toServer') = m + 1
        /\ \A i \in 1 .. m : toServer'[i] = toServer[i]
        /\ toServer'[m + 1] = request
    <3> HIDE DEF request
    <3> QED  BY <1>b, <1>t, <1>2, <2>2, AppendProperties
  <2>4. \A i \in 1 .. m + 1 : i \in 1 .. m \/ i = m + 1
    BY <1>t
  <2>5. BodiesFit'
    <3>1. request.body # "auth"
      OBVIOUS
    <3> HIDE DEF request
    <3> QED  BY <1>d, <2>3, <2>4, <3>1 DEF BodiesFit
  <2>6. InFlight' = m + n + 1 /\ InFlight = m + n
    BY <1>a, <1>t, <2>3 DEF InFlight
  <2>7. FlightFits'
    BY <1>b, <1>t, <1>2, <2>1, <2>6, RconAssumption DEF FlightFits
  <2>8. ASSUME NEW k \in Nat, k < m + n
        PROVE  Ago(reqID', k + 1) = Ago(reqID, k)
    <3>1. k + 1 < MaxID
      BY <1>t, <2>1, <2>8, RconAssumption
    <3> QED  BY <1>a, <1>d, <3>1, AgoAdvances
  <2>9. \A i \in 1 .. m + 1 : toServer'[i].id = Ago(reqID', m + 1 - i)
    <3>1. ASSUME NEW i \in 1 .. m
          PROVE  toServer'[i].id = Ago(reqID', m + 1 - i)
      <4>1. m - i \in Nat /\ m - i < m + n /\ (m - i) + 1 = m + 1 - i
        BY <1>t
      <4>2. Ago(reqID', (m - i) + 1) = Ago(reqID, m - i)
        BY <2>8, <4>1
      <4>3. toServer[i].id = Ago(reqID, m - i)
        BY <2>1 DEF IdsFit
      <4> QED  BY <2>3, <4>1, <4>2, <4>3
    <3>2. toServer'[m + 1].id = Ago(reqID', m + 1 - (m + 1))
      <4>1. m + 1 - (m + 1) = 0
        BY <1>t
      <4>2. request.id = reqID'
        OBVIOUS
      <4> HIDE DEF request
      <4> QED  BY <1>e, <2>3, <4>1, <4>2, AgoZero
    <3> QED  BY <2>4, <3>1, <3>2
  <2>10. \A i \in 1 .. n : toClient'[i].id = Ago(reqID', m + n + 1 - i)
    <3>1. SUFFICES ASSUME NEW i \in 1 .. n
                   PROVE  toClient[i].id = Ago(reqID', m + n + 1 - i)
      BY <1>a
    <3>2. m + n - i \in Nat /\ m + n - i < m + n /\ (m + n - i) + 1 = m + n + 1 - i
      BY <1>t
    <3>3. Ago(reqID', (m + n - i) + 1) = Ago(reqID, m + n - i)
      BY <2>8, <3>2
    <3>4. toClient[i].id = Ago(reqID, m + n - i)
      BY <2>1, <2>6 DEF IdsFit
    <3> QED  BY <3>2, <3>3, <3>4
  <2>11. IdsFit'
    <3>1. Len(toServer') = m + 1 /\ Len(toClient') = n /\ InFlight' = m + n + 1
      BY <1>a, <2>3, <2>6
    <3>2. m \in Nat /\ n \in Nat
      BY <1>t
    <3> HIDE DEF m, n
    <3>3. ASSUME NEW i \in 1 .. Len(toServer')
          PROVE  toServer'[i].id = Ago(reqID', Len(toServer') - i)
      <4>1. i \in 1 .. m + 1 /\ Len(toServer') - i = m + 1 - i
        BY <3>1, <3>2
      <4> QED  BY <2>9, <4>1, Zenon
    <3>4. ASSUME NEW i \in 1 .. Len(toClient')
          PROVE  toClient'[i].id = Ago(reqID', InFlight' - i)
      <4>1. i \in 1 .. n /\ InFlight' - i = m + n + 1 - i
        BY <3>1, <3>2
      <4> QED  BY <2>10, <4>1, Zenon
    <3> QED  BY <3>3, <3>4 DEF IdsFit
  <2>12. LatestFits'
    <3>1. toServer'[Len(toServer')].body = cmd
      BY <2>3
    <3> HIDE DEF request
    <3> QED  BY <2>3, <3>1 DEF LatestFits, CommandFor
  <2> QED  BY <1>a, <1>b, <1>c, <1>e, <1>2, <2>5, <2>7, <2>11, <2>12 DEF TrafficFits
<1> QED  BY <1>1, <1>2

(* The controller sends a command.                                         *)
LEMMA FaultySendStep ==
    ASSUME TypeInv, FaultyInv, SendCommand \/ PauseOnExit
    PROVE  FaultyInv'
<1> USE DEF SessionFits, ReportFits, DoubtlessBeliefIsTruth, Between
<1>1. CASE SendCommand
  <2>1. /\ pc = "decide" /\ desired \in Modes /\ CommandFor(desired) \in {"continue", "pause"}
    BY <1>1 DEF SendCommand, TypeInv, DesiredKnown, CommandFor
  <2>2. /\ WriteCommand(CommandFor(desired))
        /\ UNCHANGED <<chunky, desired, running, started>>
        /\ up => pc' = "await"
        /\ ~up => pc' = "sleep" /\ outcome' = "failed" /\ doubt'
    BY <1>1 DEF SendCommand
  <2>3. /\ LoginFits' /\ TrafficFits' /\ up' = up
        /\ up => session' = "reading"
        /\ ~up => session' = "ready"
    BY <2>1, <2>2, FaultyWriteStep
  <2>4. SessionFits'
    BY <2>2, <2>3
  <2>5. ReportFits'
    BY <2>2
  <2> QED  BY <2>3, <2>4, <2>5 DEF FaultyInv
<1>2. CASE PauseOnExit
  <2>1. /\ pc = "exit" /\ desired = "pause" /\ CommandFor(desired) = "pause"
    BY <1>2 DEF PauseOnExit, FaultyInv, CommandFor
  <2>2. /\ WriteCommand("pause")
        /\ UNCHANGED <<chunky, desired>>
        /\ up => pc' = "exitAwait"
        /\ ~up => pc' = "stopped"
    BY <1>2 DEF PauseOnExit, PauseNeeded
  <2>3. /\ LoginFits' /\ TrafficFits' /\ up' = up
        /\ up => session' = "reading"
        /\ ~up => session' = "ready"
    BY <2>1, <2>2, FaultyWriteStep
  <2>4. SessionFits'
    BY <2>2, <2>3
  <2>5. ReportFits'
    BY <2>1, <2>2
  <2> QED  BY <2>3, <2>4, <2>5 DEF FaultyInv
<1> QED  BY <1>1, <1>2

(* A call returns: an answer that carries the latest id is the answer to   *)
(* the command just sent, the server has executed it, and nothing else is  *)
(* in flight.                                                              *)
LEMMA FaultyReturnStep ==
    ASSUME TypeInv, FaultyInv, CommandReturns
    PROVE  /\ session' = "ready" /\ LoginFits' /\ TrafficFits' /\ result' # "none"
           /\ result' = "ok" => Quiet' /\ served = reqID /\ chunky = desired
           /\ UNCHANGED <<reqID, served>>
<1> USE DEF FaultyInv
<1> DEFINE m == Len(toServer)
           n == Len(toClient)
<1>a. /\ session = "reading" /\ session' = "ready"
      /\ UNCHANGED <<reqID, up, toServer, served>> /\ result' \in {"ok", "error"}
  BY DEF CommandReturns, ReadAnswer, ReadTimesOut, ReadOnBrokenLink
<1>t. /\ toServer \in Seq(Request) /\ toClient \in Seq(Answer) /\ m \in Nat /\ n \in Nat
  BY StreamLengths DEF TypeInv, TypeOK, RconTypeOK
<1>b. LoginFits'
  BY <1>a DEF LoginFits
<1>c. reqID \in RequestIDs /\ BodiesFit' /\ (~up => toClient = <<>>)
  BY <1>a DEF TrafficFits, BodiesFit
<1>1. CASE ReadAnswer
  <2>1. /\ toClient # <<>> /\ toClient' = Tail(toClient)
        /\ result' = "ok" => Head(toClient).id = reqID
    BY <1>1 DEF ReadAnswer, Matches
  <2>2. up /\ IdsFit /\ m + n <= MaxInFlight /\ LatestFits
    BY <1>a, <2>1 DEF TrafficFits, FlightFits, InFlight, TypeInv, TypeOK, RconTypeOK
  <2>3. /\ n > 0 /\ Head(toClient) = toClient[1] /\ Len(toClient') = n - 1
        /\ toClient' \in Seq(Answer)
        /\ \A i \in 1 .. n - 1 : toClient'[i] = toClient[i + 1]
    BY <1>t, <2>1, HeadTailProperties, StreamLengths DEF TypeInv, TypeOK
  <2>4. InFlight' = m + n - 1 /\ InFlight = m + n
    BY <1>a, <1>t, <2>3 DEF InFlight
  <2>5. IdsFit'
    <3>1. ASSUME NEW i \in 1 .. n - 1
          PROVE  toClient'[i].id = Ago(reqID, m + n - 1 - i)
      <4>1. toClient[i + 1].id = Ago(reqID, m + n - (i + 1))
        BY <1>t, <2>2, <2>4 DEF IdsFit
      <4>2. m + n - (i + 1) = m + n - 1 - i
        BY <1>t
      <4> QED  BY <2>3, <4>1, <4>2
    <3>2. Len(toServer)' = m /\ Len(toClient)' = n - 1
      BY <1>a, <2>3
    <3>3. \A i \in 1 .. m : toServer[i].id = Ago(reqID, m - i)
      BY <2>2 DEF IdsFit
    <3> HIDE DEF m, n
    <3> QED  BY <1>a, <2>4, <3>1, <3>2, <3>3 DEF IdsFit
  <2>6. FlightFits'
    BY <1>a, <1>t, <2>2, <2>4, RconAssumption DEF FlightFits
  <2>7. TrafficFits'
    BY <1>a, <1>c, <2>2, <2>5, <2>6 DEF TrafficFits
  <2>8. ASSUME result' = "ok"
        PROVE  Quiet' /\ served = reqID /\ chunky = desired
    <3>1. toClient[1].id = Ago(reqID, m + n - 1)
      BY <1>t, <2>2, <2>3, <2>4 DEF IdsFit
    <3>2. m + n - 1 \in Nat /\ m + n - 1 < MaxID
      BY <1>t, <2>2, <2>3, RconAssumption
    <3>3. m + n - 1 = 0
      BY <1>c, <2>1, <2>3, <2>8, <3>1, <3>2, AgoDiffers
    <3>4. m = 0 /\ n - 1 = 0
      BY <1>t, <2>3, <3>3
    <3>5. toServer = <<>> /\ toClient' = <<>>
      <4>1. toServer = <<>>
        BY <1>t, <3>4, EmptySeq
      <4>2. Len(toClient') = 0
        BY <2>3, <3>4
      <4>3. toClient' = <<>>
        BY <2>3, <4>2, EmptySeq
      <4> QED  BY <4>1, <4>3
    <3> QED  BY <1>a, <2>2, <3>5 DEF Quiet, LatestFits
  <2> QED  BY <1>a, <1>b, <2>7, <2>8
<1>2. CASE ReadTimesOut
  <2>1. up /\ toClient' = toClient /\ result' = "error" /\ InFlight < MaxInFlight
    BY <1>2 DEF ReadTimesOut
  <2>2. IdsFit
    BY <1>a, <2>1 DEF TrafficFits
  <2>3. IdsFit' /\ FlightFits'
    <3>1. InFlight' = InFlight
      BY <1>a, <2>1 DEF InFlight
    <3> QED  BY <1>a, <2>1, <2>2, <3>1 DEF IdsFit, FlightFits
  <2> QED  BY <1>a, <1>b, <1>c, <2>1, <2>3 DEF TrafficFits
<1>3. CASE ReadOnBrokenLink
  <2>1. ~up /\ toClient' = toClient /\ result' = "error" /\ toClient = <<>>
    BY <1>3 DEF ReadOnBrokenLink
  <2> QED  BY <1>a, <1>b, <1>c, <2>1 DEF TrafficFits
<1> QED  BY <1>1, <1>2, <1>3 DEF CommandReturns

(* What the controller makes of a call that returned.                      *)
LEMMA FaultyAnswerStep ==
    ASSUME TypeInv, FaultyInv, CommandAnswered \/ PausedOnExit
    PROVE  FaultyInv'
<1> USE DEF SessionFits, ReportFits, DoubtlessBeliefIsTruth, Between
<1>1. CommandReturns
  BY DEF CommandAnswered, PausedOnExit
<1>2. /\ session' = "ready" /\ LoginFits' /\ TrafficFits' /\ result' # "none"
      /\ result' = "ok" => Quiet' /\ served = reqID /\ chunky = desired
      /\ UNCHANGED <<reqID, served>>
  BY <1>1, FaultyReturnStep
<1>3. CASE CommandAnswered
  <2>1. /\ pc' = "sleep" /\ chunky' = chunky /\ desired' = desired
        /\ result' = "ok" => running' = desired
        /\ outcome' = "sent" => result' = "ok"
        /\ ~doubt' => result' = "ok"
    BY <1>3 DEF CommandAnswered, Believed
  <2> QED  BY <1>2, <2>1 DEF FaultyInv
<1>4. CASE PausedOnExit
  <2>1. pc' = "stopped"
    BY <1>4 DEF PausedOnExit
  <2> QED  BY <1>2, <2>1 DEF FaultyInv
<1> QED  BY <1>3, <1>4

LEMMA FaultyStep == TypeInv /\ FaultyInv /\ [Next]_vars => FaultyInv'
  BY FaultyQuietStep, FaultyLoginStep, FaultyAuthStep, FaultyBreakStep,
     FaultyExecuteStep, FaultySendStep, FaultyAnswerStep
     DEF Next, Server, Controller, Step

LEMMA FaultyInvariance == Spec => [](TypeInv /\ FaultyInv)
<1>1. Init => TypeInv /\ FaultyInv
  BY TypeInit, FaultyInit
<1>2. TypeInv /\ FaultyInv /\ [Next]_vars => (TypeInv /\ FaultyInv)'
  BY TypeStep, FaultyStep
<1> QED  BY <1>1, <1>2, PTL DEF Spec

(* However late answers come and whenever the connection breaks: unless an *)
(* error was reported since the last confirmed command, the controller is  *)
(* right about Chunky and nothing is on its way that could change it.      *)
THEOREM DoubtlessBeliefHolds == Spec => []DoubtlessBeliefIsTruth
<1>1. TypeInv /\ FaultyInv => DoubtlessBeliefIsTruth
  BY DEF FaultyInv, ReportFits
<1> QED  BY <1>1, FaultyInvariance, PTL

(* A command that Step reports as sent was executed, and by an answer to   *)
(* that very request, for any number of ids and any stale answers, as long *)
(* as fewer requests than there are ids are in flight.                     *)
THEOREM SentIsExecuted == Spec => []SentMeansExecuted
<1>1. TypeInv /\ FaultyInv => SentMeansExecuted
  BY DEF FaultyInv, ReportFits, SentMeansExecuted
<1> QED  BY <1>1, FaultyInvariance, PTL

-----------------------------------------------------------------------------
(***************************************************************************)
(* The controller implements OpportunisticTask.  Reading the sensors is a  *)
(* Judge where it changes the verdict, and so is leaving the loop; the     *)
(* server's execution of a command is an Obey where it changes the task;   *)
(* all other steps stutter.  A Judge needs the verdict before it to be     *)
(* followed: a step starts to read only after the latest verdict was       *)
(* carried out.                                                            *)
(***************************************************************************)

\* Until this step's own verdict, the one before it is what is believed.
JudgedFits ==
    /\ pc = "dial" => desired = "unknown"
    /\ pc \in {"players", "tps", "load"} => desired = "unknown" \/ (started /\ running = desired)

LEMMA JudgedStep ==
    ASSUME TypeInv, ReliableInv, JudgedFits, [Next]_vars
    PROVE  JudgedFits'
<1> USE DEF JudgedFits
<1>1. CASE PlayersChange \/ NodeChanges \/ Cancel
  BY <1>1 DEF PlayersChange, NodeChanges, Cancel, controlVars
<1>2. CASE Login \/ Server \/ LinkBreaks
  BY <1>2 DEF Login, Server, ServerAnswersLogin, ServerExecutes, LinkBreaks, controlVars
<1>3. CASE Start \/ Tick
  BY <1>3 DEF Start, Tick, ReliableInv, BeliefFits
<1>4. CASE ReadPlayers \/ ReadTPS \/ ReadLoad
  BY <1>4 DEF ReadPlayers, ReadTPS, ReadLoad
<1>5. CASE Hold \/ SendCommand \/ CommandAnswered
  BY <1>5 DEF Hold, SendCommand, CommandAnswered
<1>6. CASE Exit \/ PauseOnExit \/ PausedOnExit
  BY <1>6 DEF Exit, PauseOnExit, PausedOnExit
<1>7. CASE UNCHANGED vars
  BY <1>7 DEF vars, controlVars
<1> QED
  BY <1>1, <1>2, <1>3, <1>4, <1>5, <1>6, <1>7 DEF Next, Controller, Step

\* The verdicts a step may start from, and what "followed" says of them.
LEMMA VerdictFollowed ==
    ASSUME TypeInv, ReliableInv, JudgedFits, pc \in {"players", "tps", "load", "sleep"}
    PROVE  Promise!Followed /\ Verdict # "final"
<1>1. desired = "unknown" \/ chunky = desired
  BY DEF JudgedFits, ReliableInv, BeliefFits, BeliefIsTruth, Between
<1>2. desired \in {"unknown", "run", "pause"}
  BY DEF TypeInv, TypeOK, Modes
<1> QED  BY <1>1, <1>2 DEF Promise!Followed, Promise!Due, Verdict

(* A step that leaves the task and the verdict's sources alone stutters.   *)
LEMMA VerdictKept ==
    ASSUME chunky' = chunky, desired' = desired,
           desired = "unknown"
             \/ (pc \in {"exit", "exitAwait", "stopped"} <=> pc' \in {"exit", "exitAwait", "stopped"})
    PROVE  UNCHANGED Promise!vars
  BY DEF Promise!vars, Verdict

LEMMA ImplementsStep ==
    ASSUME Faults = {}, TypeInv, ReliableInv, JudgedFits, [Next]_vars
    PROVE  [Promise!Next]_Promise!vars
<1>1. CASE PlayersChange \/ NodeChanges \/ Cancel \/ Login \/ ServerAnswersLogin \/ UNCHANGED vars
  BY <1>1, VerdictKept
     DEF PlayersChange, NodeChanges, Cancel, Login, ServerAnswersLogin, controlVars, vars
<1>2. CASE LinkBreaks
  BY <1>2 DEF LinkBreaks, Reset
<1>3. CASE Start
  BY <1>3, VerdictKept DEF Start, JudgedFits
<1>4. CASE Hold \/ SendCommand \/ CommandAnswered \/ Tick
  BY <1>4, VerdictKept DEF Hold, SendCommand, CommandAnswered, Tick
<1>5. CASE PauseOnExit \/ PausedOnExit
  BY <1>5, VerdictKept DEF PauseOnExit, PausedOnExit
<1>6. CASE ReadPlayers \/ ReadTPS \/ ReadLoad
  <2>1. /\ pc \in {"players", "tps", "load"} /\ pc' \in {"tps", "load", "decide"}
        /\ desired' \in {desired, "run", "pause"} /\ chunky' = chunky
    BY <1>6 DEF ReadPlayers, ReadTPS, ReadLoad
  <2>2. CASE desired' = desired
    BY <2>1, <2>2, VerdictKept
  <2>3. CASE desired' \in {"run", "pause"}
    <3>1. Verdict' \in {"run", "pause"}
      BY <2>1, <2>3 DEF Verdict
    <3> QED
      BY <2>1, <3>1, VerdictFollowed DEF Promise!Next, Promise!Judge, Promise!Verdicts
  <2> QED  BY <2>1, <2>2, <2>3
<1>7. CASE Exit
  <2>1. pc = "sleep" /\ pc' = "exit" /\ desired' = "pause" /\ chunky' = chunky
    BY <1>7 DEF Exit
  <2>2. Verdict' = "final"
    BY <2>1 DEF Verdict
  <2> QED
    BY <2>1, <2>2, VerdictFollowed DEF Promise!Next, Promise!Judge, Promise!Verdicts
<1>8. CASE ServerExecutes
  <2>1. session = "reading" /\ chunky' = desired
    BY <1>8, CommandExecuted
  <2>2. pc \in {"await", "exitAwait"} /\ desired \in Modes /\ (pc = "exitAwait" => desired = "pause")
    BY <2>1 DEF ReliableInv, SessionFits, BeliefFits, Between, TypeInv, TypeOK, Places, DesiredKnown
  <2>3. UNCHANGED <<pc, desired>>
    BY <1>8 DEF ServerExecutes, controlVars
  <2>4. Verdict' = Verdict /\ Verdict # "none" /\ Promise!Due(Verdict) = desired
    BY <2>2, <2>3 DEF Verdict, Promise!Due, Modes
  <2> QED
    BY <2>1, <2>4 DEF Promise!Next, Promise!Obey, Promise!Followed, Promise!vars
<1> QED
  BY <1>1, <1>2, <1>3, <1>4, <1>5, <1>6, <1>7, <1>8 DEF Next, Server, Controller, Step

(* Without link faults the controller with its session, sensors and stale  *)
(* answers implements the abstract task: no verdict before the one before  *)
(* it is carried out, the task never moves but towards the latest verdict, *)
(* and after shutdown it stays paused.  (That it gets there is liveness.)  *)
THEOREM ImplementsTask ==
    ASSUME Faults = {}
    PROVE  Spec => Promise!Spec
<1>1. Init => Promise!Init /\ JudgedFits
  BY DEF Init, Promise!Init, Verdict, JudgedFits, Modes
<1>2. TypeInv /\ ReliableInv /\ JudgedFits /\ [Next]_vars => JudgedFits'
  BY JudgedStep
<1>3. TypeInv /\ ReliableInv /\ JudgedFits /\ [Next]_vars => [Promise!Next]_Promise!vars
  BY ImplementsStep
<1> QED
  BY <1>1, <1>2, <1>3, ReliableInvariance, PTL DEF Spec, Promise!Spec
=============================================================================

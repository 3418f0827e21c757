-------------------------- MODULE ServerFilesProofs --------------------------
(***************************************************************************)
(* What holds of a server's directory whatever the machines, the command   *)
(* lines, the manifest and the files it starts from, and wherever the      *)
(* commands break off: the backup holds what was overwritten, init keeps   *)
(* what is the operator's, and no torn jar is in place.                    *)
(***************************************************************************)
EXTENDS ServerFiles, SequenceTheorems, TLAPS

Properties == "server.properties"
Backup == "server.properties.bak"

\* A sequence, whatever its elements are.
IsList(s) == s \in Seq({s[i] : i \in DOMAIN s})

\* The files init must not write over.
Kept == {"server.properties", "eula.txt"}

\* Each command has its own steps; only Write touches the backup, and init
\* writes what it must keep only afresh.
StepsFit ==
    \A i \in DOMAIN job :
        /\ job[i].op \in {"plan", "read"} => cmd = "apply"
        /\ job[i].op \in {"resolve", "fetch"} => cmd = "init"
        /\ job[i].op = "write" =>
             /\ cmd # "apply" => job[i].file # Backup
             /\ cmd = "init" /\ job[i].file \in Kept => job[i].fresh

\* The backup is still to be written; a half-written one promises nothing.
BackupAhead ==
    /\ Len(job) = 2 /\ job[1].op = "write" /\ job[2].op = "write"
    /\ job[1].file = Backup /\ job[1].content = job[2].original
    /\ job[2].file = Properties
    /\ opened => before = NothingRead

\* The backup is written, the properties are not.
BackupBehind ==
    /\ Len(job) = 1 /\ job[1].op = "write"
    /\ job[1].file = Properties
    /\ files[Backup] = job[1].original

\* How far `tune -apply -write` has come.
WriteFits ==
    cmd = "apply" /\ job # <<>> =>
        \/ Len(job) = 1 /\ job[1].op # "write"
        \/ BackupAhead
        \/ BackupBehind

FilesInv ==
    /\ TypeOK
    /\ IsList(job)
    /\ StepsFit
    /\ WriteFits
    /\ BackupIsWhole

-----------------------------------------------------------------------------
(* Lists *)

(* A sequence over any set is a list.                                      *)
LEMMA ListOf ==
    ASSUME NEW S, NEW s \in Seq(S)
    PROVE  IsList(s)
<1> DEFINE R == {s[i] : i \in DOMAIN s}
<1>1. /\ Len(s) \in Nat /\ DOMAIN s = 1 .. Len(s)
      /\ \A i \in 1 .. Len(s) : s[i] \in R
  BY LenProperties
<1>2. SubSeq(s, 1, Len(s)) \in Seq(R)
  <2> HIDE DEF R
  <2> QED  BY <1>1, SubSeqProperties
<1>3. SubSeq(s, 1, Len(s)) = s
  BY <1>1, SubSeqProperties
<1> QED  BY <1>2, <1>3 DEF IsList

(* What a list is made of.                                                 *)
LEMMA ListFacts ==
    ASSUME NEW s, IsList(s)
    PROVE  /\ Len(s) \in Nat /\ DOMAIN s = 1 .. Len(s)
           /\ (s = <<>>) <=> (Len(s) = 0)
<1> DEFINE R == {s[i] : i \in DOMAIN s}
<1>1. s \in Seq(R)
  BY DEF IsList
<1> HIDE DEF R
<1>2. Len(s) \in Nat /\ DOMAIN s = 1 .. Len(s)
  BY <1>1, LenProperties
<1>3. s = <<>> <=> Len(s) = 0
  BY <1>1, EmptySeq
<1> QED  BY <1>2, <1>3

(* The tail of a list is a list of what comes after its first element.     *)
LEMMA TailFacts ==
    ASSUME NEW s, IsList(s), s # <<>>
    PROVE  /\ IsList(Tail(s)) /\ Len(Tail(s)) = Len(s) - 1
           /\ \A i \in DOMAIN Tail(s) : i + 1 \in DOMAIN s /\ Tail(s)[i] = s[i + 1]
<1> DEFINE R == {s[i] : i \in DOMAIN s}
<1>1. s \in Seq(R)
  BY DEF IsList
<1> HIDE DEF R
<1>2. /\ Tail(s) \in Seq(R) /\ Len(Tail(s)) = Len(s) - 1
      /\ \A i \in 1 .. Len(Tail(s)) : Tail(s)[i] = s[i + 1]
  BY <1>1, HeadTailProperties
<1>3. IsList(Tail(s))
  BY <1>2, ListOf
<1>4. /\ Len(s) \in Nat /\ DOMAIN s = 1 .. Len(s)
      /\ Len(Tail(s)) \in Nat /\ DOMAIN Tail(s) = 1 .. Len(Tail(s))
  BY <1>3, ListFacts
<1> QED  BY <1>2, <1>3, <1>4

(* A list of one step.                                                     *)
LEMMA OneStep ==
    ASSUME NEW a, NEW s, s = <<a>>
    PROVE  /\ IsList(s) /\ Len(s) = 1 /\ s # <<>> /\ s[1] = a
           /\ \A i \in DOMAIN s : s[i] = a
<1>1. /\ s \in Seq({a}) /\ Len(s) = 1 /\ s # <<>> /\ s[1] = a
      /\ \A i \in DOMAIN s : s[i] = a
  OBVIOUS
<1> QED  BY <1>1, ListOf

(* A list of two.                                                          *)
LEMMA TwoSteps ==
    ASSUME NEW a, NEW b, NEW s, s = <<a, b>>
    PROVE  /\ IsList(s) /\ Len(s) = 2 /\ s # <<>> /\ DOMAIN s = {1, 2}
           /\ s[1] = a /\ s[2] = b
<1>1. /\ s \in Seq({a, b}) /\ Len(s) = 2 /\ s # <<>> /\ DOMAIN s = {1, 2}
      /\ s[1] = a /\ s[2] = b
  OBVIOUS
<1> QED  BY <1>1, ListOf

-----------------------------------------------------------------------------
(* Steps that end, and steps that are someone else's *)

LEMMA FilesInit == Init => FilesInv
<1> SUFFICES ASSUME Init PROVE FilesInv
  OBVIOUS
<1>1. <<>> \in Seq({})
  OBVIOUS
<1>2. IsList(job)
  BY <1>1, ListOf DEF Init
<1>3. DOMAIN job = {}
  BY DEF Init
<1>4. TypeOK
  <2>1. DOMAIN files = FileNames
    BY FilesAssumption DEF Init
  <2>2. jars \in [Range(Jars) -> Portions] /\ parts \in [Range(Jars) -> Portions]
    BY DEF Init, Portions
  <2>3. edits \in 0 .. MaxEdits
    BY FilesAssumption DEF Init
  <2> QED  BY <1>3, <2>1, <2>2, <2>3 DEF TypeOK, Init
<1>5. StepsFit /\ WriteFits /\ BackupIsWhole
  BY <1>3 DEF StepsFit, WriteFits, BackupIsWhole, Init
<1> QED  BY <1>2, <1>4, <1>5 DEF FilesInv

(* A step that leaves the command and the backup alone.                    *)
LEMMA OthersStep ==
    ASSUME FilesInv, UNCHANGED <<machine, cmdVars, before>>,
           jars' \in [Range(Jars) -> Portions], parts' \in [Range(Jars) -> Portions],
           DOMAIN files' = FileNames, files'[Backup] = files[Backup],
           edits' \in 0 .. MaxEdits
    PROVE  FilesInv'
<1>1. TypeOK'
  BY DEF FilesInv, TypeOK, cmdVars
<1>2. IsList(job)'
  BY DEF FilesInv, cmdVars
<1>3. StepsFit' /\ WriteFits' /\ BackupIsWhole'
  BY DEF FilesInv, StepsFit, WriteFits, BackupAhead, BackupBehind, BackupIsWhole, Backup, cmdVars
<1> QED  BY <1>1, <1>2, <1>3 DEF FilesInv

(* What StepDone leaves of a command.                                      *)
LEMMA StepDoneFacts ==
    ASSUME FilesInv, job # <<>>, StepDone
    PROVE  /\ IsList(job') /\ clear' = FALSE /\ opened' = FALSE
           /\ locks' \subseteq EditedKeys
           /\ \/ Len(job) = 1 /\ job' = <<>> /\ cmd' = "none" /\ locks' = {}
              \/ /\ Len(job) # 1 /\ job' # <<>> /\ cmd' = cmd /\ cmd # "none"
                 /\ Len(job') = Len(job) - 1
                 /\ \A i \in DOMAIN job' : i + 1 \in DOMAIN job /\ job'[i] = job[i + 1]
<1> DEFINE n == Len(job)
<1>1. IsList(job) /\ n \in Nat /\ n # 0
  BY ListFacts DEF FilesInv
<1> HIDE DEF n
<1>2. CASE n > 1
  <2>1. /\ job' = Tail(job) /\ clear' = FALSE /\ opened' = FALSE
        /\ UNCHANGED <<cmd, locks>>
    BY <1>2, Zenon DEF StepDone, n
  <2>2. /\ IsList(Tail(job)) /\ Len(Tail(job)) = n - 1
        /\ \A i \in DOMAIN Tail(job) : i + 1 \in DOMAIN job /\ Tail(job)[i] = job[i + 1]
    BY <1>1, TailFacts DEF n
  <2>3. Tail(job) # <<>>
    <3>1. n - 1 # 0
      BY <1>1, <1>2
    <3> QED  BY <2>2, <3>1, ListFacts
  <2>6. n # 1
    BY <1>1, <1>2
  <2>4. cmd # "none" /\ locks \subseteq EditedKeys
    BY DEF FilesInv, TypeOK
  <2>5. Len(job') = n - 1
    BY <2>1, <2>2
  <2> QED  BY <1>2, <2>1, <2>2, <2>3, <2>4, <2>5, <2>6, Zenon DEF n
<1>3. CASE ~ (n > 1)
  <2>0. n = 1
    BY <1>1, <1>3
  <2>1. EndCommand
    BY <1>3, Zenon DEF StepDone, n
  <2>2. <<>> \in Seq({})
    OBVIOUS
  <2> QED  BY <2>0, <2>1, <2>2, ListOf DEF EndCommand, n
<1> QED  BY <1>2, <1>3

(* A step that ends the command keeps the invariant as long as what it     *)
(* leaves in the backup is what the history says.                          *)
LEMMA EndStep ==
    ASSUME FilesInv, UNCHANGED <<machine, edits>>,
           job' = <<>>, cmd' = "none", locks' = {}, clear' = FALSE, opened' = FALSE,
           jars' \in [Range(Jars) -> Portions], parts' \in [Range(Jars) -> Portions],
           DOMAIN files' = FileNames, BackupIsWhole'
    PROVE  FilesInv'
<1>1. <<>> \in Seq({}) /\ DOMAIN <<>> = {}
  OBVIOUS
<1>2. IsList(job')
  BY <1>1, ListOf
<1>3. TypeOK'
  BY <1>1 DEF FilesInv, TypeOK
<1>4. StepsFit' /\ WriteFits'
  BY <1>1 DEF StepsFit, WriteFits
<1> QED  BY <1>2, <1>3, <1>4 DEF FilesInv

(* A command that starts, or goes on, with other steps than writes to the  *)
(* backup or over what init keeps.                                         *)
LEMMA NewStepsStep ==
    ASSUME FilesInv, UNCHANGED <<machine, dirVars, edits, before>>,
           ~ clear, UNCHANGED clear, ~ opened, UNCHANGED opened,
           cmd' \in {"apply", "revert", "init"}, locks' \subseteq EditedKeys,
           IsList(job'), job' # <<>>,
           \A i \in DOMAIN job' :
             /\ job'[i].op \in {"plan", "read", "write", "resolve", "fetch"}
             /\ job'[i].op = "write" => job'[i].file \in FileNames,
           StepsFit', WriteFits'
    PROVE  FilesInv'
<1>1. TypeOK'
  BY DEF FilesInv, TypeOK, dirVars
<1>2. BackupIsWhole'
  BY DEF FilesInv, BackupIsWhole, dirVars
<1> QED  BY <1>1, <1>2 DEF FilesInv

-----------------------------------------------------------------------------
(* The steps of a command *)

\* The first step is a step of the list.
LEMMA FirstStep ==
    ASSUME FilesInv, job # <<>>
    PROVE  1 \in DOMAIN job
<1> DEFINE n == Len(job)
<1>1. n \in Nat /\ n # 0 /\ DOMAIN job = 1 .. n
  BY ListFacts DEF FilesInv
<1> HIDE DEF n
<1> QED  BY <1>1

(* A step that is done gives way to the next one: the invariant holds when *)
(* the backup, if that is what was written, is what Write had read.        *)
LEMMA AdvanceStep ==
    ASSUME FilesInv, job # <<>>, StepDone, UNCHANGED <<machine, edits>>,
           jars' \in [Range(Jars) -> Portions], parts' \in [Range(Jars) -> Portions],
           DOMAIN files' = FileNames, BackupIsWhole',
           BackupAhead => files'[Backup] = job[1].content
    PROVE  FilesInv'
<1>1. CASE Len(job) = 1 /\ job' = <<>> /\ cmd' = "none" /\ locks' = {}
  <2>1. clear' = FALSE /\ opened' = FALSE
    BY StepDoneFacts
  <2> QED  BY <1>1, <2>1, EndStep
<1>2. CASE /\ job' # <<>> /\ cmd' = cmd /\ cmd # "none" /\ Len(job) # 1
           /\ Len(job') = Len(job) - 1
           /\ \A i \in DOMAIN job' : i + 1 \in DOMAIN job /\ job'[i] = job[i + 1]
  <2>1. /\ IsList(job') /\ clear' = FALSE /\ opened' = FALSE
        /\ locks' \subseteq EditedKeys
    BY StepDoneFacts
  <2>2. \A i \in DOMAIN job' : \E k \in DOMAIN job : job'[i] = job[k]
    BY <1>2
  <2>3. TypeOK'
    BY <1>2, <2>1, <2>2 DEF FilesInv, TypeOK
  <2>4. StepsFit'
    BY <1>2, <2>2 DEF FilesInv, StepsFit
  <2>5. WriteFits'
    <3>1. SUFFICES ASSUME cmd = "apply" PROVE BackupBehind'
      BY <1>2 DEF WriteFits
    <3>2. BackupAhead
      BY <1>2, <3>1 DEF FilesInv, WriteFits, BackupBehind
    <3>3. Len(job) = 2 /\ Len(job') = 1
      BY <1>2, <3>2 DEF BackupAhead
    <3>4. 1 \in DOMAIN job'
      BY <2>1, <3>3, ListFacts
    <3>5. job'[1] = job[2]
      BY <1>2, <3>4
    <3> QED  BY <3>2, <3>3, <3>5 DEF BackupAhead, BackupBehind
  <2> QED  BY <2>1, <2>3, <2>4, <2>5 DEF FilesInv
<1>3. \/ Len(job) = 1 /\ job' = <<>> /\ cmd' = "none" /\ locks' = {}
      \/ /\ job' # <<>> /\ cmd' = cmd /\ cmd # "none" /\ Len(job) # 1
         /\ Len(job') = Len(job) - 1
         /\ \A i \in DOMAIN job' : i + 1 \in DOMAIN job /\ job'[i] = job[i + 1]
  BY StepDoneFacts
<1> QED  BY <1>1, <1>2, <1>3

(* Writing a step's file, in full or in part, leaves what the history      *)
(* promises in the backup: a Write that is at its backup promises nothing. *)
LEMMA WritingStep ==
    ASSUME FilesInv, job # <<>>, Step.op = "write", opened, UNCHANGED before,
           NEW content, files' = [files EXCEPT ![Step.file] = content]
    PROVE  DOMAIN files' = FileNames /\ BackupIsWhole'
<1>1. DOMAIN files' = FileNames
  BY DEF FilesInv, TypeOK
<1>2. CASE Step.file # Backup
  BY <1>1, <1>2 DEF FilesInv, BackupIsWhole, Backup
<1>3. CASE Step.file = Backup
  <2>1. cmd = "apply"
    BY <1>3, FirstStep DEF FilesInv, StepsFit, Step
  <2>2. BackupAhead
    BY <1>3, <2>1 DEF FilesInv, WriteFits, BackupBehind, Step, Backup, Properties
  <2> QED  BY <1>1, <2>2 DEF BackupAhead, BackupIsWhole
<1> QED  BY <1>1, <1>2, <1>3

LEMMA CheckFreshStep == FilesInv /\ CheckFresh => FilesInv'
<1> SUFFICES ASSUME FilesInv, CheckFresh PROVE FilesInv'
  OBVIOUS
<1>1. /\ job # <<>> /\ Step.op = "write"
      /\ UNCHANGED <<machine, dirVars, edits, before>>
      /\ (clear' = TRUE /\ UNCHANGED <<cmd, locks, job, opened>>) \/ EndCommand
  BY DEF CheckFresh
<1>2. CASE clear' = TRUE /\ UNCHANGED <<cmd, locks, job, opened>>
  <2>1. TypeOK'
    BY <1>1, <1>2 DEF FilesInv, TypeOK, dirVars, Step
  <2>2. IsList(job)' /\ StepsFit' /\ WriteFits' /\ BackupIsWhole'
    BY <1>1, <1>2 DEF FilesInv, StepsFit, WriteFits, BackupAhead, BackupBehind,
       BackupIsWhole, dirVars
  <2> QED  BY <2>1, <2>2 DEF FilesInv
<1>3. CASE EndCommand
  <2>1. /\ jars' \in [Range(Jars) -> Portions] /\ parts' \in [Range(Jars) -> Portions]
        /\ DOMAIN files' = FileNames /\ BackupIsWhole'
    BY <1>1 DEF FilesInv, TypeOK, BackupIsWhole, dirVars
  <2> QED  BY <1>1, <1>3, <2>1, EndStep DEF EndCommand
<1> QED  BY <1>1, <1>2, <1>3

LEMMA OpenFileStep == FilesInv /\ OpenFile => FilesInv'
<1> SUFFICES ASSUME FilesInv, OpenFile PROVE FilesInv'
  OBVIOUS
<1>1. /\ job # <<>> /\ job[1].op = "write" /\ ~ opened /\ opened' = TRUE
      /\ files' = [files EXCEPT ![job[1].file] = <<>>]
      /\ before' = IF job[1].file = Backup THEN NothingRead
                   ELSE IF job[1].file = Properties /\ cmd = "apply" THEN job[1].original
                   ELSE before
      /\ UNCHANGED <<machine, jars, parts, cmd, locks, job, clear, edits>>
  BY DEF OpenFile, Step, Backup, Properties
<1>2. DOMAIN files' = FileNames /\ job[1].file \in FileNames
  BY <1>1, FirstStep DEF FilesInv, TypeOK
<1>3. TypeOK'
  BY <1>1, <1>2 DEF FilesInv, TypeOK
<1>4. IsList(job)' /\ StepsFit'
  BY <1>1 DEF FilesInv, StepsFit
<1>5. CASE job[1].file = Backup
  <2>1. cmd = "apply"
    BY <1>1, <1>5, FirstStep DEF FilesInv, StepsFit
  <2>2. BackupAhead
    BY <1>1, <1>5, <2>1 DEF FilesInv, WriteFits, BackupBehind, Backup, Properties
  <2>3. before' = NothingRead
    BY <1>1, <1>5
  <2>4. WriteFits' /\ BackupIsWhole'
    BY <1>1, <2>2, <2>3 DEF WriteFits, BackupAhead, BackupIsWhole
  <2> QED  BY <1>3, <1>4, <2>4 DEF FilesInv
<1>6. CASE job[1].file = Properties /\ cmd = "apply"
  <2>1. BackupBehind
    BY <1>1, <1>6 DEF FilesInv, WriteFits, BackupAhead, Backup, Properties
  <2>2. before' = job[1].original /\ files'[Backup] = files[Backup]
    BY <1>1, <1>2, <1>6 DEF Backup, Properties
  <2>3. WriteFits' /\ BackupIsWhole'
    BY <1>1, <2>1, <2>2 DEF WriteFits, BackupBehind, BackupIsWhole, Backup
  <2> QED  BY <1>3, <1>4, <2>3 DEF FilesInv
<1>7. CASE job[1].file # Backup /\ ~ (job[1].file = Properties /\ cmd = "apply")
  <2>1. before' = before /\ files'[Backup] = files[Backup]
    BY <1>1, <1>7 DEF FilesInv, TypeOK, FileNames, Backup
  <2>2. cmd # "apply"
    BY <1>1, <1>7 DEF FilesInv, WriteFits, BackupAhead, BackupBehind
  <2>3. WriteFits' /\ BackupIsWhole'
    BY <1>1, <2>1, <2>2 DEF FilesInv, WriteFits, BackupIsWhole, Backup
  <2> QED  BY <1>3, <1>4, <2>3 DEF FilesInv
<1> QED  BY <1>5, <1>6, <1>7

LEMMA FillFileStep == FilesInv /\ FillFile => FilesInv'
<1> SUFFICES ASSUME FilesInv, FillFile PROVE FilesInv'
  OBVIOUS
<1>1. /\ job # <<>> /\ Step.op = "write" /\ opened /\ StepDone
      /\ files' = [files EXCEPT ![Step.file] = Step.content]
      /\ UNCHANGED <<machine, jars, parts, edits, before>>
  BY DEF FillFile
<1>2. DOMAIN files' = FileNames /\ BackupIsWhole'
  BY <1>1, WritingStep
<1>3. jars' \in [Range(Jars) -> Portions] /\ parts' \in [Range(Jars) -> Portions]
  BY <1>1 DEF FilesInv, TypeOK
<1>4. BackupAhead => files'[Backup] = job[1].content
  BY <1>1, <1>2, FirstStep DEF FilesInv, TypeOK, BackupAhead, Step
<1> QED  BY <1>1, <1>2, <1>3, <1>4, AdvanceStep

LEMMA FillFailsStep == FilesInv /\ FillFails => FilesInv'
<1> SUFFICES ASSUME FilesInv, FillFails PROVE FilesInv'
  OBVIOUS
<1>1. PICK content : files' = [files EXCEPT ![Step.file] = content]
  BY DEF FillFails
<1>2. /\ job # <<>> /\ Step.op = "write" /\ opened
      /\ job' = <<>> /\ cmd' = "none" /\ locks' = {} /\ clear' = FALSE
      /\ opened' = FALSE
      /\ UNCHANGED <<machine, jars, parts, edits, before>>
  BY DEF FillFails, EndCommand
<1>3. DOMAIN files' = FileNames /\ BackupIsWhole'
  BY <1>1, <1>2, WritingStep
<1>4. jars' \in [Range(Jars) -> Portions] /\ parts' \in [Range(Jars) -> Portions]
  BY <1>2 DEF FilesInv, TypeOK
<1> QED  BY <1>2, <1>3, <1>4, EndStep

-----------------------------------------------------------------------------
(* tune *)

\* The states a new list of steps is handed over in.
LEMMA AwakeFacts ==
    ASSUME FilesInv
    PROVE  /\ cmd = "none" => job = <<>> /\ ~ clear /\ ~ opened
           /\ job # <<>> => cmd \in {"apply", "revert", "init"}
           /\ job # <<>> /\ Step.op \notin {"write", "fetch"} => ~ clear /\ ~ opened
           /\ locks \subseteq EditedKeys
           /\ job # <<>> /\ Step.op \in {"plan", "read"} => cmd = "apply"
           /\ job # <<>> /\ Step.op \in {"resolve", "fetch"} => cmd = "init"
BY FirstStep DEF FilesInv, TypeOK, StepsFit, Step

LEMMA StartApplyStep == FilesInv /\ StartApply => FilesInv'
<1> SUFFICES ASSUME FilesInv, StartApply PROVE FilesInv'
  OBVIOUS
<1>1. PICK w \in Flags :
        /\ StartCommand("apply", <<[op |-> "plan", recs |-> Recommend(machine, w)]>>)
        /\ locks' = LocksIn(files["tickwarden.toml"])
  BY DEF StartApply
<1> DEFINE plan == [op |-> "plan", recs |-> Recommend(machine, w)]
<1>2. plan.op = "plan"
  OBVIOUS
<1>3. /\ cmd = "none" /\ cmd' = "apply" /\ job' = <<plan>>
      /\ UNCHANGED <<machine, dirVars, clear, opened, edits, before>>
  BY <1>1 DEF StartCommand, history
<1> HIDE DEF plan
<1>4. locks' \subseteq EditedKeys
  BY <1>1 DEF LocksIn
<1>5. /\ IsList(job') /\ job' # <<>> /\ Len(job') = 1 /\ job'[1] = plan
      /\ \A i \in DOMAIN job' : job'[i] = plan
  BY <1>3, OneStep, Zenon
<1>6. StepsFit'
  BY <1>2, <1>3, <1>5 DEF StepsFit
<1>7. WriteFits'
  BY <1>2, <1>3, <1>5 DEF WriteFits
<1> QED  BY <1>2, <1>3, <1>4, <1>5, <1>6, <1>7, AwakeFacts, NewStepsStep

LEMMA PlanPropertiesStep == FilesInv /\ PlanProperties => FilesInv'
<1> SUFFICES ASSUME FilesInv, PlanProperties PROVE FilesInv'
  OBVIOUS
<1> DEFINE changes == Changes(files["server.properties"], Step.recs, locks)
           read == [op |-> "read", changes |-> changes]
<1>1. read.op = "read"
  OBVIOUS
<1>2. /\ job # <<>> /\ Step.op = "plan" /\ job' = <<read>>
      /\ UNCHANGED <<machine, dirVars, cmd, locks, clear, opened, edits, before>>
  BY DEF PlanProperties, history
<1> HIDE DEF read
<1>3. /\ IsList(job') /\ job' # <<>> /\ Len(job') = 1 /\ job'[1] = read
      /\ \A i \in DOMAIN job' : job'[i] = read
  BY <1>2, OneStep, Zenon
<1>4. cmd' = "apply" /\ ~ clear /\ ~ opened /\ locks' \subseteq EditedKeys
  BY <1>2, AwakeFacts
<1>5. StepsFit'
  BY <1>1, <1>3, <1>4 DEF StepsFit
<1>6. WriteFits'
  BY <1>1, <1>2, <1>3 DEF WriteFits
<1> QED  BY <1>1, <1>2, <1>3, <1>4, <1>5, <1>6, NewStepsStep

LEMMA ReadOriginalStep == FilesInv /\ ReadOriginal => FilesInv'
<1> SUFFICES ASSUME FilesInv, ReadOriginal PROVE FilesInv'
  OBVIOUS
<1> DEFINE original == files["server.properties"]
           backup == Write("server.properties.bak", original, FALSE)
           change == WriteChanged("server.properties", original, Step.changes)
<1>1. /\ backup.op = "write" /\ backup.file = Backup /\ backup.content = original
      /\ change.op = "write" /\ change.file = Properties /\ change.original = original
  BY DEF Write, WriteChanged, Backup, Properties
<1>2. /\ job # <<>> /\ Step.op = "read" /\ job' = <<backup, change>>
      /\ UNCHANGED <<machine, dirVars, cmd, locks, clear, opened, edits, before>>
  BY DEF ReadOriginal, WriteSteps, history
<1> HIDE DEF backup, change
<1>3. /\ IsList(job') /\ job' # <<>> /\ Len(job') = 2
      /\ job'[1] = backup /\ job'[2] = change /\ DOMAIN job' = {1, 2}
  BY <1>2, TwoSteps
<1>4. cmd' = "apply" /\ ~ clear /\ ~ opened /\ locks' \subseteq EditedKeys
  BY <1>2, AwakeFacts
<1>5. StepsFit'
  BY <1>1, <1>3, <1>4 DEF StepsFit
<1>6. WriteFits'
  BY <1>1, <1>2, <1>3, <1>4 DEF WriteFits, BackupAhead
<1>7. \A i \in DOMAIN job' : job'[i].op = "write" /\ job'[i].file \in FileNames
  BY <1>1, <1>3 DEF FileNames, Backup, Properties
<1> QED  BY <1>2, <1>3, <1>4, <1>5, <1>6, <1>7, NewStepsStep

LEMMA StartRevertStep == FilesInv /\ StartRevert => FilesInv'
<1> SUFFICES ASSUME FilesInv, StartRevert PROVE FilesInv'
  OBVIOUS
<1> DEFINE restore == Write("server.properties", files["server.properties.bak"], FALSE)
<1>1. restore.op = "write" /\ restore.file = Properties
  BY DEF Write, Properties
<1>2. /\ cmd = "none" /\ cmd' = "revert" /\ job' = <<restore>>
      /\ UNCHANGED <<machine, dirVars, clear, opened, edits, before, locks>>
  BY DEF StartRevert, StartCommand, history
<1> HIDE DEF restore
<1>3. /\ IsList(job') /\ job' # <<>>
      /\ \A i \in DOMAIN job' : job'[i] = restore
  BY <1>2, OneStep, Zenon
<1>4. StepsFit' /\ WriteFits'
  BY <1>1, <1>2, <1>3 DEF StepsFit, WriteFits, Backup, Properties
<1>5. restore.file \in FileNames
  BY <1>1 DEF FileNames, Properties
<1> QED  BY <1>1, <1>2, <1>3, <1>4, <1>5, AwakeFacts, NewStepsStep

-----------------------------------------------------------------------------
(* init *)

LEMMA StartInitStep == FilesInv /\ StartInit => FilesInv'
<1> SUFFICES ASSUME FilesInv, StartInit PROVE FilesInv'
  OBVIOUS
<1>1. PICK w \in Flags, eula \in {0, 1} :
        LET recs == Recommend(machine, [w EXCEPT !.perfMods = TRUE])
        IN StartCommand("init", InitSteps(recs, w, eula)) /\ UNCHANGED locks
  BY DEF StartInit
<1> DEFINE recs == Recommend(machine, [w EXCEPT !.perfMods = TRUE])
           properties == Write("server.properties", PropertiesFor(recs), TRUE)
           answer == Write("eula.txt", <<Comment, Line("eula", eula)>>, TRUE)
           script == Write("start.sh", ScriptFor(recs), FALSE)
           toml == Write("tickwarden.toml", TomlFor(w), FALSE)
           resolve == [op |-> "resolve"]
<1>2. /\ cmd = "none" /\ cmd' = "init"
      /\ job' = <<properties, answer, script, toml, resolve>>
      /\ UNCHANGED <<machine, dirVars, clear, opened, edits, before, locks>>
  BY <1>1 DEF StartCommand, InitSteps, history
<1>3. /\ properties.op = "write" /\ properties.file = Properties /\ properties.fresh
      /\ answer.op = "write" /\ answer.file = "eula.txt" /\ answer.fresh
      /\ script.op = "write" /\ script.file = "start.sh"
      /\ toml.op = "write" /\ toml.file = "tickwarden.toml"
      /\ resolve.op = "resolve"
  BY DEF Write, Properties
<1> HIDE DEF properties, answer, script, toml, resolve
<1> DEFINE steps == <<properties, answer, script, toml, resolve>>
<1>4. /\ steps \in Seq({properties, answer, script, toml, resolve})
      /\ steps # <<>> /\ DOMAIN steps = 1 .. 5
      /\ \A i \in DOMAIN steps : steps[i] \in {properties, answer, script, toml, resolve}
  OBVIOUS
<1>5. job' = steps
  BY <1>2
<1> HIDE DEF steps
<1>6. IsList(job')
  BY <1>4, <1>5, ListOf
<1>7. \A i \in DOMAIN job' :
        /\ job'[i].op \in {"write", "resolve"}
        /\ job'[i].op = "write" =>
             /\ job'[i].file \in FileNames \ {Backup}
             /\ job'[i].file \in Kept => job'[i].fresh
  BY <1>3, <1>4, <1>5 DEF FileNames, Kept, Properties, Backup
<1>8. StepsFit' /\ WriteFits'
  BY <1>2, <1>7 DEF StepsFit, WriteFits
<1> QED  BY <1>2, <1>4, <1>5, <1>6, <1>7, <1>8, AwakeFacts, NewStepsStep

LEMMA ResolveStep == FilesInv /\ Resolve => FilesInv'
<1> SUFFICES ASSUME FilesInv, Resolve PROVE FilesInv'
  OBVIOUS
<1>1. PICK n \in DOMAIN Jars : \E found \in [1 .. n -> DOMAIN Jars] :
        job' = [i \in 1 .. n |-> [op |-> "fetch", jar |-> Jars[found[i]]]]
  BY DEF Resolve
<1>2. PICK found \in [1 .. n -> DOMAIN Jars] :
        job' = [i \in 1 .. n |-> [op |-> "fetch", jar |-> Jars[found[i]]]]
  BY <1>1
<1>3. /\ job # <<>> /\ Step.op = "resolve"
      /\ UNCHANGED <<machine, dirVars, cmd, locks, clear, opened, edits, before>>
  BY DEF Resolve, history
<1> DEFINE S == {[op |-> "fetch", jar |-> j] : j \in Range(Jars)}
<1>4. n \in Nat /\ n # 0
  BY FilesAssumption
<1>5. \A i \in 1 .. n : Jars[found[i]] \in Range(Jars)
  BY <1>2 DEF Range
<1>6. \A i \in 1 .. n : [op |-> "fetch", jar |-> Jars[found[i]]] \in S
  BY <1>5
<1>7. job' \in Seq(S) /\ Len(job') = n
  <2> HIDE DEF S
  <2> QED  BY <1>2, <1>4, <1>6
<1>8. IsList(job')
  BY <1>7, ListOf
<1>9. job' # <<>>
  BY <1>4, <1>7
<1>10. \A i \in DOMAIN job' : job'[i].op = "fetch"
  BY <1>2
<1>11. cmd' = "init" /\ ~ clear /\ ~ opened /\ locks' \subseteq EditedKeys
  BY <1>3, AwakeFacts
<1>12. StepsFit' /\ WriteFits'
  BY <1>10, <1>11 DEF StepsFit, WriteFits
<1> QED  BY <1>3, <1>8, <1>9, <1>10, <1>11, <1>12, NewStepsStep

\* A download leaves the plain files alone.
LEMMA DownloadStep ==
    FilesInv /\ (CreatePart \/ CopyPart \/ RenamePart \/ DownloadFails) => FilesInv'
<1> SUFFICES ASSUME FilesInv, CreatePart \/ CopyPart \/ RenamePart \/ DownloadFails
             PROVE  FilesInv'
  OBVIOUS
<1>1. /\ job # <<>> /\ Step.op = "fetch"
      /\ UNCHANGED <<machine, files, edits, before>>
  BY DEF CreatePart, CopyPart, RenamePart, DownloadFails, history
<1>2. /\ jars' \in [Range(Jars) -> Portions] /\ parts' \in [Range(Jars) -> Portions]
      /\ DOMAIN files' = FileNames /\ BackupIsWhole'
  <2>1. jars \in [Range(Jars) -> Portions] /\ parts \in [Range(Jars) -> Portions]
    BY DEF FilesInv, TypeOK
  <2>2. jars' \in [Range(Jars) -> Portions] /\ parts' \in [Range(Jars) -> Portions]
    BY <2>1 DEF CreatePart, CopyPart, RenamePart, DownloadFails, Portions
  <2>3. DOMAIN files' = FileNames /\ BackupIsWhole'
    BY <1>1 DEF FilesInv, TypeOK, BackupIsWhole
  <2> QED  BY <2>2, <2>3
<1>3. ~ BackupAhead
  BY <1>1 DEF BackupAhead, Step
<1>4. CASE StepDone
  BY <1>1, <1>2, <1>3, <1>4, AdvanceStep
<1>5. CASE EndCommand
  BY <1>1, <1>2, <1>5, EndStep DEF EndCommand
<1>6. CASE CreatePart
  <2>1. opened' = TRUE /\ UNCHANGED <<cmd, locks, job, clear>>
    BY <1>6 DEF CreatePart
  <2>2. TypeOK'
    BY <1>1, <1>2, <2>1 DEF FilesInv, TypeOK, Step
  <2>3. cmd # "apply"
    BY <1>1, AwakeFacts
  <2>4. IsList(job)' /\ StepsFit' /\ WriteFits'
    BY <2>1, <2>3 DEF FilesInv, StepsFit, WriteFits
  <2> QED  BY <1>2, <2>2, <2>4 DEF FilesInv
<1>7. CASE CopyPart
  <2>1. UNCHANGED <<machine, cmdVars, before>> /\ edits' \in 0 .. MaxEdits
    BY <1>7 DEF CopyPart, FilesInv, TypeOK, history
  <2> QED  BY <1>1, <1>2, <2>1, OthersStep
<1>8. CreatePart \/ CopyPart \/ StepDone \/ EndCommand
  BY DEF RenamePart, DownloadFails
<1> QED  BY <1>4, <1>5, <1>6, <1>7, <1>8

LEMMA StopStep == FilesInv /\ Stop => FilesInv'
<1> SUFFICES ASSUME FilesInv, Stop PROVE FilesInv'
  OBVIOUS
<1>1. EndCommand /\ UNCHANGED <<machine, dirVars, edits, before>>
  BY DEF Stop
<1>2. /\ jars' \in [Range(Jars) -> Portions] /\ parts' \in [Range(Jars) -> Portions]
      /\ DOMAIN files' = FileNames /\ BackupIsWhole'
  BY <1>1 DEF FilesInv, TypeOK, BackupIsWhole, dirVars
<1> QED  BY <1>1, <1>2, EndStep DEF EndCommand

\* The operator and the game server leave the backup alone.
LEMMA EditStep == FilesInv /\ (EditProperties \/ EditLock \/ ServerStores) => FilesInv'
<1> SUFFICES ASSUME FilesInv, EditProperties \/ EditLock \/ ServerStores PROVE FilesInv'
  OBVIOUS
<1>1. /\ edits < MaxEdits /\ edits' = edits + 1
      /\ UNCHANGED <<machine, jars, parts, cmdVars, before>>
  BY DEF EditProperties, EditLock, ServerStores, history
<1>2. PICK name \in {"server.properties", "tickwarden.toml"} :
        \E content : files' = [files EXCEPT ![name] = content]
  <2>1. CASE EditProperties
    BY <2>1 DEF EditProperties
  <2>2. CASE EditLock
    BY <2>2 DEF EditLock
  <2>3. CASE ServerStores
    BY <2>3 DEF ServerStores
  <2> QED  BY <2>1, <2>2, <2>3
<1>3. PICK content : files' = [files EXCEPT ![name] = content]
  BY <1>2
<1>4. DOMAIN files = FileNames /\ edits \in 0 .. MaxEdits
  BY DEF FilesInv, TypeOK
<1>5. DOMAIN files' = FileNames /\ files'[Backup] = files[Backup]
  BY <1>3, <1>4 DEF Backup, FileNames
<1>6. edits' \in 0 .. MaxEdits
  BY <1>1, <1>4, FilesAssumption
<1>7. jars' \in [Range(Jars) -> Portions] /\ parts' \in [Range(Jars) -> Portions]
  BY <1>1 DEF FilesInv, TypeOK
<1> QED  BY <1>1, <1>5, <1>6, <1>7, OthersStep

LEMMA FilesStep == FilesInv /\ [Next]_vars => FilesInv'
<1> SUFFICES ASSUME FilesInv, [Next]_vars PROVE FilesInv'
  OBVIOUS
<1>1. CASE UNCHANGED vars
  <2>1. /\ UNCHANGED <<machine, cmdVars, before>> /\ edits' \in 0 .. MaxEdits
        /\ jars' \in [Range(Jars) -> Portions] /\ parts' \in [Range(Jars) -> Portions]
        /\ DOMAIN files' = FileNames /\ files'[Backup] = files[Backup]
    BY <1>1 DEF FilesInv, TypeOK, vars, dirVars, cmdVars, history
  <2> QED  BY <2>1, OthersStep
<1>2. CASE Next
  BY <1>2, StartApplyStep, PlanPropertiesStep, ReadOriginalStep, StartRevertStep,
     StartInitStep, ResolveStep, DownloadStep, CheckFreshStep, OpenFileStep, FillFileStep, FillFailsStep,
     StopStep, EditStep DEF Next, Command
<1> QED  BY <1>1, <1>2

LEMMA FilesInvariance == Spec => []FilesInv
BY FilesInit, FilesStep, PTL DEF Spec

-----------------------------------------------------------------------------
(* The theorems *)

(* Every variable keeps its type: no command has steps left once it is     *)
(* over, none writes to a file the model does not know.                    *)
THEOREM FilesTypeCorrect == Spec => []TypeOK
<1>1. FilesInv => TypeOK
  BY DEF FilesInv
<1> QED  BY <1>1, FilesInvariance, PTL

(* From the moment Write empties server.properties until a later Write     *)
(* starts a backup of its own, the .bak holds, whole, what Write had read, *)
(* wherever a Write, a revert or an init breaks off.                       *)
THEOREM BackupAlwaysWhole == Spec => []BackupIsWhole
<1>1. FilesInv => BackupIsWhole
  BY DEF FilesInv
<1> QED  BY <1>1, FilesInvariance, PTL

(* No jar of any manifest is ever half there, whatever downloads fail.     *)
THEOREM JarsAlwaysWhole == Spec => []JarsAreWhole
<1>1. Init => JarsAreWhole
  BY DEF Init, JarsAreWhole
<1>2. FilesInv /\ JarsAreWhole /\ [Next]_vars => JarsAreWhole'
  <2> SUFFICES ASSUME FilesInv, JarsAreWhole, [Next]_vars PROVE JarsAreWhole'
    OBVIOUS
  <2>1. CASE RenamePart
    <3>1. jars \in [Range(Jars) -> Portions]
      BY DEF FilesInv, TypeOK
    <3> QED  BY <2>1, <3>1 DEF RenamePart, JarsAreWhole
  <2>2. jars' = jars \/ RenamePart
    BY DEF Next, Command, vars, dirVars, cmdVars, StartApply, PlanProperties, ReadOriginal,
       StartRevert, StartInit, StartCommand, Resolve, CreatePart, CopyPart, DownloadFails,
       CheckFresh, OpenFile, FillFile, FillFails, Stop, EditProperties, EditLock, ServerStores
  <2> QED  BY <2>1, <2>2 DEF JarsAreWhole
<1> QED  BY <1>1, <1>2, FilesInvariance, PTL DEF Spec

(* init never touches properties or an EULA answer that exist when it      *)
(* looks for them, however often it is run and broken off, on whatever     *)
(* directory and whatever others store meanwhile.                          *)
THEOREM InitAlwaysKeeps == Spec => InitKeepsExisting
<1> DEFINE Keeps ==
      \A file \in {"server.properties", "eula.txt"} :
         cmd = "init" /\ edits' = edits /\ files[file] # NoFile
            /\ ~((clear \/ opened) /\ Step.op = "write" /\ Step.file = file)
           => files'[file] = files[file]
<1>1. FilesInv /\ [Next]_vars => [Keeps]_vars
  <2> SUFFICES ASSUME FilesInv, [Next]_vars,
                      NEW file \in {"server.properties", "eula.txt"},
                      cmd = "init", edits' = edits, files[file] # NoFile,
                      ~((clear \/ opened) /\ Step.op = "write" /\ Step.file = file)
               PROVE  files'[file] = files[file]
    OBVIOUS
  <2>1. edits' # edits + 1
    BY FilesAssumption DEF FilesInv, TypeOK
  <2>2. files' = files \/ OpenFile \/ FillFile \/ FillFails
    BY <2>1 DEF Next, Command, vars, dirVars, cmdVars, StartApply, PlanProperties,
       ReadOriginal, StartRevert, StartInit, StartCommand, Resolve, CreatePart, CopyPart,
       RenamePart, DownloadFails, CheckFresh, Stop, EditProperties, EditLock, ServerStores
  <2>3. CASE OpenFile
    <3>1. /\ job # <<>> /\ Step.op = "write" /\ (Step.fresh => clear)
          /\ files' = [files EXCEPT ![Step.file] = <<>>]
      BY <2>3 DEF OpenFile
    <3>2. Step.file # file
      BY <3>1, FirstStep DEF FilesInv, StepsFit, Kept, Step
    <3>3. DOMAIN files = FileNames
      BY DEF FilesInv, TypeOK
    <3> QED  BY <3>1, <3>2, <3>3 DEF FileNames
  <2>4. CASE FillFile \/ FillFails
    <3>1. /\ Step.op = "write" /\ opened
          /\ \E content : files' = [files EXCEPT ![Step.file] = content]
      BY <2>4 DEF FillFile, FillFails
    <3>2. DOMAIN files = FileNames
      BY DEF FilesInv, TypeOK
    <3> QED  BY <3>1, <3>2 DEF FileNames
  <2> QED  BY <2>2, <2>3, <2>4
<1> QED  BY <1>1, FilesInvariance, PTL DEF Spec, InitKeepsExisting
=============================================================================

----------------------------- MODULE ServerFiles -----------------------------
(***************************************************************************)
(* The files of a game server's directory and the commands that write      *)
(* them: `tune -apply -write` (internal/apply), `tune -revert`, and `init` *)
(* (internal/scaffold), with the operator and the game server editing the  *)
(* same files in between.                                                  *)
(*                                                                         *)
(* os.WriteFile empties a file and then fills it: two steps, between which *)
(* the disk may fill up or the process die.  A file is a sequence of       *)
(* lines; a half-written one is a prefix.                                  *)
(***************************************************************************)
EXTENDS Tune, FiniteSets, SequencesExt

CONSTANTS
    Machines,       \* detect.Detect() on the hosts considered: a set of Profiles
    Flags,          \* the workload flags of the command lines: a set of Workloads
    Jars,           \* the artifacts of the manifest, the server jar first
    Directories,    \* server directories a behaviour may start from
    EditedKeys,     \* keys the operator edits and locks,
    EditedValue,    \* and the value they set
    MaxEdits        \* bound: edits by the operator, starts of the server

VARIABLES
    machine,        \* the host's Profile
    files,          \* the plain files of the directory
    jars, parts,    \* the jars, and their .part files: how much of each is there
    cmd,            \* the command running: "none", "apply", "revert" or "init"
    locks,          \* the keys LoadLocks found locked
    job,            \* the steps it still has to do
    clear,          \* the first step's file was looked for and not found
    opened,         \* the file of the first step has been created or emptied
    edits,          \* edits so far
    before,         \* history: what Write read before it last emptied the properties,
    emptied,        \* what it found on disk when it did,
    since           \* and the keys others have stored there since it read them

dirVars == <<files, jars, parts>>
cmdVars == <<cmd, locks, job, clear, opened>>
history == <<before, emptied, since>>
vars == <<machine, dirVars, cmdVars, edits, history>>

FileNames == {"server.properties", "server.properties.bak", "eula.txt", "start.sh",
              "tickwarden.toml"}

\* A line "key=value"; a comment has the key "#".  Booleans are 0 and 1.
Line(key, value) == [key |-> key, value |-> value]
Comment == Line("#", 0)

NoFile == <<Line("no file", 0)>>
NothingRead == <<Line("nothing read", 0)>>

\* How much of a downloaded file is on disk.
Portions == {"none", "some", "all"}

ASSUME FilesAssumption ==
    /\ Machines \subseteq Profiles
    /\ Flags \subseteq Workloads
    /\ Jars \in Seq(Range(Jars)) /\ Jars # <<>> /\ IsInjective(Jars)
    /\ MaxEdits \in Nat
    /\ \A d \in Directories : DOMAIN d = FileNames

-----------------------------------------------------------------------------
(* Reading properties *)

\* The keys of a file's property lines (propKey).
KeysOf(file) == {file[i].key : i \in DOMAIN file} \ {"#"}

\* readProps: of a repeated key the last line counts.
Lookup(file, key) == file[SelectLastInSeq(file, LAMBDA line : line.key = key)].value

\* LoadLocks: the keys set to true in [lock]; no file, no locks.
LocksIn(toml) ==
    IF toml = NoFile THEN {}
    ELSE {line.key : line \in {l \in Range(toml) : l.key \in EditedKeys /\ l.value = 1}}

\* Change.Differs
Differs(file, rec) == rec.key \notin KeysOf(file) \/ Lookup(file, rec.key) # rec.value

\* Bug form of Changes: locks are not looked at.
ChangesUnlocked(file, recs, locked) ==
    SelectSeq(RecsFor("server.properties", recs), LAMBDA r : Differs(file, r))

\* The Changes of PlanProperties.
Changes(file, recs, locked) ==
    SelectSeq(RecsFor("server.properties", recs),
              LAMBDA r : Differs(file, r) /\ r.key \notin locked)

\* The line Write puts in the place of a line.
Replaced(line, changes) ==
    LET i == SelectInSeq(changes, LAMBDA c : c.key = line.key)
    IN IF i = 0 THEN line ELSE Line(line.key, changes[i].value)

\* Bug form of Rewritten: only the first line of a repeated key is replaced.
RewrittenOnce(original, changes) ==
    [i \in DOMAIN original |->
        IF \E j \in 1 .. i - 1 : original[j].key = original[i].key
          THEN original[i] ELSE Replaced(original[i], changes)]
      \o [i \in DOMAIN SelectSeq(changes, LAMBDA c : c.key \notin KeysOf(original)) |->
            LET c == SelectSeq(changes, LAMBDA d : d.key \notin KeysOf(original))[i]
            IN Line(c.key, c.value)]

\* The text Write builds: changed keys edited in place, new ones appended.
Rewritten(original, changes) ==
    LET new == SelectSeq(changes, LAMBDA c : c.key \notin KeysOf(original))
    IN [i \in DOMAIN original |-> Replaced(original[i], changes)]
         \o [i \in DOMAIN new |-> Line(new[i].key, new[i].value)]

-----------------------------------------------------------------------------
(* Rendering a new server (RenderFiles) *)

LinesOf(recs) == [i \in DOMAIN recs |-> Line(recs[i].key, recs[i].value)]

PropertiesFor(recs) == <<Comment>> \o LinesOf(RecsFor("server.properties", recs))

\* renderStartSh: the heap of the plan, or "2G" when it names none, and the flags.
ScriptFor(recs) ==
    LET jvm == RecsFor("jvm-flags", recs)
        xmx == SelectInSeq(jvm, LAMBDA r : r.key = "Xmx")
        gc == SelectInSeq(jvm, LAMBDA r : r.key = "gc")
    IN <<Line("Xmx", IF xmx = 0 THEN 2 ELSE jvm[xmx].value),
         Line("UseZGC", IF gc = 0 THEN 0 ELSE jvm[gc].value)>>

\* renderToml: the workload, and no [lock] section.
TomlFor(w) == <<Line("players", w.players)>>

-----------------------------------------------------------------------------
TypeOK ==
    /\ machine \in Machines
    /\ DOMAIN files = FileNames
    /\ jars \in [Range(Jars) -> Portions] /\ parts \in [Range(Jars) -> Portions]
    /\ cmd \in {"none", "apply", "revert", "init"}
    /\ locks \subseteq EditedKeys
    /\ \A i \in DOMAIN job :
         /\ job[i].op \in {"plan", "read", "write", "resolve", "fetch"}
         /\ job[i].op = "write" => job[i].file \in FileNames
    /\ opened => job # <<>> /\ job[1].op \in {"write", "fetch"}
    /\ clear \in BOOLEAN
    /\ clear => job # <<>> /\ job[1].op = "write"
    /\ cmd = "none" <=> job = <<>>
    /\ cmd = "none" => locks = {} /\ ~clear /\ ~opened
    /\ edits \in 0 .. MaxEdits

Init ==
    /\ machine \in Machines
    /\ files \in Directories
    /\ jars = [j \in Range(Jars) |-> "none"] /\ parts = jars
    /\ cmd = "none" /\ locks = {} /\ job = <<>> /\ clear = FALSE /\ opened = FALSE
    /\ edits = 0
    /\ before = NothingRead /\ emptied = NothingRead /\ since = {}

-----------------------------------------------------------------------------
(* Steps of a command *)

Step == job[1]

\* os.WriteFile of `content`; a fresh file must not exist yet.
Write(file, content, fresh) ==
    [op |-> "write", file |-> file, content |-> content, fresh |-> fresh,
     original |-> NothingRead, changes |-> <<>>]

\* ... and of an original with some changes
WriteChanged(file, original, changes) ==
    [op |-> "write", file |-> file, content |-> Rewritten(original, changes),
     fresh |-> FALSE, original |-> original, changes |-> changes]

EndCommand ==
    /\ cmd' = "none" /\ locks' = {} /\ job' = <<>> /\ clear' = FALSE /\ opened' = FALSE
    /\ emptied' = NothingRead /\ since' = {}

StepDone ==
    IF Len(job) > 1
      THEN /\ job' = Tail(job) /\ clear' = FALSE /\ opened' = FALSE
           /\ UNCHANGED <<cmd, locks, emptied, since>>
      ELSE EndCommand

StartCommand(name, steps) ==
    /\ cmd = "none"
    /\ cmd' = name
    /\ job' = steps
    /\ UNCHANGED <<machine, dirVars, clear, opened, edits, history>>

\* WriteFiles looks for a file it is not to write over; one that is there ends
\* the command with an error.
CheckFresh ==
    /\ job # <<>> /\ Step.op = "write" /\ Step.fresh /\ ~clear /\ ~opened
    /\ IF files[Step.file] = NoFile
         THEN clear' = TRUE /\ UNCHANGED <<cmd, locks, job, opened, emptied, since>>
         ELSE EndCommand
    /\ UNCHANGED <<machine, dirVars, edits, before>>

\* os.WriteFile opens the file, which creates it, or empties what is there now.
OpenFile ==
    /\ job # <<>> /\ Step.op = "write" /\ ~opened
    /\ Step.fresh => clear
    /\ files' = [files EXCEPT ![Step.file] = <<>>]
    /\ opened' = TRUE
    /\ before' = IF Step.file = "server.properties.bak" THEN NothingRead
                 ELSE IF Step.file = "server.properties" /\ cmd = "apply" THEN Step.original
                 ELSE before
    /\ emptied' = IF Step.file = "server.properties" /\ cmd = "apply" THEN files[Step.file]
                  ELSE emptied
    /\ UNCHANGED <<machine, jars, parts, cmd, locks, job, clear, edits, since>>

FillFile ==
    /\ job # <<>> /\ Step.op = "write" /\ opened
    /\ files' = [files EXCEPT ![Step.file] = Step.content]
    /\ StepDone
    /\ UNCHANGED <<machine, jars, parts, edits, before>>

\* The disk is full, or the process dies, half way through the contents.
FillFails ==
    /\ job # <<>> /\ Step.op = "write" /\ opened
    /\ \E n \in 0 .. Len(Step.content) - 1 :
         files' = [files EXCEPT ![Step.file] = SubSeq(Step.content, 1, n)]
    /\ EndCommand
    /\ UNCHANGED <<machine, jars, parts, edits, before>>

\* The command ends between two steps: it is done with what it was asked, it
\* reports an error and exits, or the process dies.
Stop ==
    /\ cmd # "none"
    /\ EndCommand
    /\ UNCHANGED <<machine, dirVars, edits, before>>

-----------------------------------------------------------------------------
(* tune -apply -write, tune -revert *)

\* runApply: the locks are loaded before the properties are read.
StartApply ==
    \E w \in Flags :
        /\ StartCommand("apply", <<[op |-> "plan", recs |-> Recommend(machine, w)]>>)
        /\ locks' = LocksIn(files["tickwarden.toml"])

\* PlanProperties.  A dry run, and a plan without changes, Stop here.
PlanProperties ==
    /\ job # <<>> /\ Step.op = "plan"
    /\ files["server.properties"] # NoFile
    /\ LET changes == Changes(files["server.properties"], Step.recs, locks)
       IN /\ changes # <<>>
          /\ job' = <<[op |-> "read", changes |-> changes]>>
    /\ UNCHANGED <<machine, dirVars, cmd, locks, clear, opened, edits, history>>

\* Bug form of WriteSteps: the properties first, then their backup.
WriteStepsBackupLast(original, changes) ==
    <<WriteChanged("server.properties", original, changes),
      Write("server.properties.bak", original, FALSE)>>

\* What Plan.Write writes.
WriteSteps(original, changes) ==
    <<Write("server.properties.bak", original, FALSE),
      WriteChanged("server.properties", original, changes)>>

\* Plan.Write reads the properties again.
ReadOriginal ==
    /\ job # <<>> /\ Step.op = "read"
    /\ files["server.properties"] # NoFile
    /\ job' = WriteSteps(files["server.properties"], Step.changes)
    /\ UNCHANGED <<machine, dirVars, cmd, locks, clear, opened, edits, history>>

StartRevert ==
    LET backup == files["server.properties.bak"]
    IN /\ backup # NoFile
       /\ StartCommand("revert", <<Write("server.properties", backup, FALSE)>>)
       /\ UNCHANGED locks

-----------------------------------------------------------------------------
(* init *)

\* Bug form of InitSteps: only server.properties is looked for.
InitStepsOverEula(recs, w, eula) ==
    <<Write("server.properties", PropertiesFor(recs), TRUE),
      Write("eula.txt", <<Comment, Line("eula", eula)>>, FALSE),
      Write("start.sh", ScriptFor(recs), FALSE),
      Write("tickwarden.toml", TomlFor(w), FALSE),
      [op |-> "resolve"]>>

\* RenderFiles and WriteFiles, then the downloads; minecraft.service, written
\* last, is left out.
InitSteps(recs, w, eula) ==
    <<Write("server.properties", PropertiesFor(recs), TRUE),
      Write("eula.txt", <<Comment, Line("eula", eula)>>, TRUE),
      Write("start.sh", ScriptFor(recs), FALSE),
      Write("tickwarden.toml", TomlFor(w), FALSE),
      [op |-> "resolve"]>>

\* cmdInit: init installs the performance mods, so it counts on them.
StartInit ==
    \E w \in Flags, eula \in {0, 1} :
        LET recs == Recommend(machine, [w EXCEPT !.perfMods = TRUE])
        IN /\ StartCommand("init", InitSteps(recs, w, eula))
           /\ UNCHANGED locks

\* Resolve: a mod without a build for this version is left out, the others and
\* the server jar are fetched in the manifest's order.
Resolve ==
    /\ job # <<>> /\ Step.op = "resolve"
    /\ \E n \in DOMAIN Jars : \E found \in [1 .. n -> DOMAIN Jars] :
         /\ found[1] = 1 /\ \A i, k \in 1 .. n : i < k => found[i] < found[k]
         /\ job' = [i \in 1 .. n |-> [op |-> "fetch", jar |-> Jars[found[i]]]]
    /\ UNCHANGED <<machine, dirVars, cmd, locks, clear, opened, edits, history>>

\* Bug form of CreatePart: the download goes straight to its destination.
CreatePartInPlace ==
    /\ job # <<>> /\ Step.op = "fetch" /\ ~opened
    /\ parts' = [parts EXCEPT ![Step.jar] = "some"]
    /\ jars' = [jars EXCEPT ![Step.jar] = "some"]
    /\ opened' = TRUE
    /\ UNCHANGED <<machine, files, cmd, locks, job, clear, edits, history>>

\* Download: os.Create of the .part file
CreatePart ==
    /\ job # <<>> /\ Step.op = "fetch" /\ ~opened
    /\ parts' = [parts EXCEPT ![Step.jar] = "some"]
    /\ opened' = TRUE
    /\ UNCHANGED <<machine, files, jars, cmd, locks, job, clear, edits, history>>

\* io.Copy and Close
CopyPart ==
    /\ job # <<>> /\ Step.op = "fetch" /\ opened
    /\ parts[Step.jar] = "some"
    /\ parts' = [parts EXCEPT ![Step.jar] = "all"]
    /\ UNCHANGED <<machine, files, jars, cmdVars, edits, history>>

RenamePart ==
    /\ job # <<>> /\ Step.op = "fetch" /\ opened
    /\ parts[Step.jar] = "all"
    /\ jars' = [jars EXCEPT ![Step.jar] = "all"]
    /\ parts' = [parts EXCEPT ![Step.jar] = "none"]
    /\ StepDone
    /\ UNCHANGED <<machine, files, edits, before>>

\* FetchAll: a failed mod is noted, a failed server jar ends the command.  A
\* broken download is removed; one that cannot be renamed stays.
DownloadFails ==
    /\ job # <<>> /\ Step.op = "fetch"
    /\ IF opened /\ parts[Step.jar] = "some"
         THEN parts' = [parts EXCEPT ![Step.jar] = "none"]
         ELSE UNCHANGED parts
    /\ IF Step.jar = Jars[1] THEN EndCommand ELSE StepDone
    /\ UNCHANGED <<machine, files, jars, edits, before>>

-----------------------------------------------------------------------------
(* The operator and the game server *)

\* Others store properties with these keys.
StoredByOthers(keys) ==
    since' = IF cmd = "apply" /\ Step.op = "write" THEN since \cup keys ELSE since

EditProperties ==
    /\ edits < MaxEdits /\ edits' = edits + 1
    /\ files["server.properties"] # NoFile
    /\ \E key \in EditedKeys :
         /\ files' = [files EXCEPT !["server.properties"] =
                         Rewritten(@, <<Rec(key, EditedValue, "server.properties")>>)]
         /\ StoredByOthers({key})
    /\ UNCHANGED <<machine, jars, parts, cmdVars, before, emptied>>

EditLock ==
    /\ edits < MaxEdits /\ edits' = edits + 1
    /\ \E key \in EditedKeys :
         files' = [files EXCEPT !["tickwarden.toml"] =
                      IF key \in LocksIn(@)
                        THEN SelectSeq(@, LAMBDA line : line.key # key)
                        ELSE Append(IF @ = NoFile THEN <<>> ELSE @, Line(key, 1))]
    /\ UNCHANGED <<machine, jars, parts, cmdVars, history>>

\* A starting server loads its properties and stores them again, each key once,
\* with its own values for the keys that are not there.
ServerStores ==
    /\ edits < MaxEdits /\ edits' = edits + 1
    /\ LET found == IF files["server.properties"] = NoFile THEN <<>>
                      ELSE files["server.properties"]
           kept == {Line(key, Lookup(found, key)) : key \in KeysOf(found)}
           added == {Line(key, 10) : key \in (EditedKeys \cup {"motd"}) \ KeysOf(found)}
       IN /\ files' = [files EXCEPT !["server.properties"] =
                          <<Comment>> \o SetToSeq(kept \cup added)]
          /\ StoredByOthers({"#"} \cup {line.key : line \in kept \cup added})
    /\ UNCHANGED <<machine, jars, parts, cmdVars, before, emptied>>

-----------------------------------------------------------------------------
Command ==
    \/ StartApply \/ PlanProperties \/ ReadOriginal
    \/ StartRevert
    \/ StartInit \/ Resolve \/ CreatePart \/ CopyPart \/ RenamePart \/ DownloadFails
    \/ CheckFresh \/ OpenFile \/ FillFile \/ FillFails \/ Stop

Next == Command \/ EditProperties \/ EditLock \/ ServerStores

Spec == Init /\ [][Next]_vars

-----------------------------------------------------------------------------
(* Properties *)

(* "Backs up before writing" (apply.go:5): from the moment Write empties   *)
(* server.properties until a later Write starts a backup of its own, the   *)
(* .bak holds, whole, what Write had read, wherever Write was interrupted. *)
BackupIsWhole ==
    before # NothingRead => files["server.properties.bak"] = before

\* A Write that finished with the properties.
PropertiesWritten ==
    /\ cmd = "apply" /\ opened /\ Step.op = "write" /\ Step.file = "server.properties"
    /\ files'["server.properties"] = Step.content

\* The lines of a file whose key is not in a set.
Without(file, keys) == SelectSeq(file, LAMBDA line : line.key \notin keys)

(* What -apply showed is what it did: every change it listed is what a     *)
(* reader of the file now finds, and every other line that was on disk     *)
(* when the file was emptied is where and what it was: repeated keys,      *)
(* comments, and edits made since the preview.  Only what others stored    *)
(* between Write's reading of the file (apply.go:87) and the end of its    *)
(* writing (apply.go:121) is overwritten: the keys in `since`.             *)
PreviewIsWhatHappens ==
    [][PropertiesWritten
         => LET now == files'["server.properties"]
                keys == {c.key : c \in Range(Step.changes)}
            IN /\ \A c \in Range(Step.changes) : ~Differs(now, c)
               /\ Without(now, keys \cup since) = Without(emptied, keys \cup since)]_vars

LinesWith(key, file) == SelectSeq(file, LAMBDA line : line.key = key)

(* "Never overwrites a value the user has locked" (apply.go:3): a key that *)
(* was locked when the command loaded the locks keeps the lines it had on  *)
(* disk when Write emptied the file, or stays absent, whatever the plan    *)
(* and whatever was edited before.  A locked key somebody stores between   *)
(* Write's reading and the end of its writing is the exception: Write puts *)
(* back the value it had read.                                             *)
LocksHold ==
    [][PropertiesWritten
         => \A key \in locks \ since :
                LinesWith(key, files'["server.properties"]) = LinesWith(key, emptied)]_vars

(* "Re-running init on a live server must not clobber state the operator   *)
(* may have changed" (scaffold.go:322): properties and an EULA answer that *)
(* exist are not what init writes, however often it is run and broken off, *)
(* unless they came to be after init had looked for them (scaffold.go:335) *)
(* and before it wrote them (scaffold.go:339).                             *)
InitKeepsExisting ==
    [][\A file \in {"server.properties", "eula.txt"} :
         cmd = "init" /\ edits' = edits /\ files[file] # NoFile
            /\ ~((clear \/ opened) /\ Step.op = "write" /\ Step.file = file)
           => files'[file] = files[file]]_vars

(* "A half-downloaded jar never sits where the server (or a retry) would   *)
(* mistake it for a whole one" (scaffold.go:413).                          *)
JarsAreWhole == \A j \in Range(Jars) : jars[j] # "some"
=============================================================================

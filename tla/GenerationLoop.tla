--------------------------- MODULE GenerationLoop ---------------------------
(***************************************************************************)
(* The scripts that run a target generation after generation until it      *)
(* generates no new inputs: util/min-concolic-exec.sh, which sets          *)
(* SYMCC_PURE_CONCOLIC (here: history is TRUE) and empties the output      *)
(* directory between generations, and util/pure_concolic_execution.sh,     *)
(* which does neither.                                                     *)
(* The processes they run are those of PureConcolic.                       *)
(*                                                                         *)
(* A file is a name and a content; a test case is given the hash of its    *)
(* content for a name, which stands for the content itself here.           *)
(***************************************************************************)
EXTENDS PureConcolic

CONSTANTS
  Names,       \* the names users give to files
  Seeds,       \* the contents of users' files
  Found        \* Found[n]: the names in whose lines grep finds n

\* The names of the files in the work directory
AllNames == Names \cup Inputs

ASSUME LoopAssumption ==
  /\ Names # {} /\ Names \cap Inputs = {}
  /\ Seeds \subseteq Inputs
  /\ Found \in [Names -> SUBSET AllNames]
  /\ \A n \in Names : n \in Found[n]

VARIABLES
  sc,          \* where the script stands: "import", "run", "wait" or "done"
  indir,       \* the files in the input directory: [name -> content]
  next,        \* those of the next generation
  cur,         \* those of the current one that have not been run yet
  current,     \* the name of the file being run
  analyzed,    \* the lines of analyzed_inputs
  exported,    \* the files in the directory for the generated inputs
  ever         \* history: the contents of all test cases ever generated

scriptVars == <<sc, indir, next, cur, current, analyzed, exported, ever>>
vars == <<procVars, scriptVars>>

File(n, c) == [name |-> n, content |-> c]
NameOf(F) == {f.name : f \in F}

Replaced(dir, F) == F     \* mutant: the directory is emptied first

\* cp replaces files of the same name.
CopyTo(dir, F) == {f \in dir : f.name \notin NameOf(F)} \cup F

Init ==
  /\ ProcInit
  /\ sc = "import"
  /\ current = CHOOSE n \in Names : TRUE
  /\ \E c \in Seeds : indir = {File(current, c)}
  /\ next = {} /\ cur = {}
  /\ analyzed = {} /\ exported = {} /\ ever = {}

\* New inputs appear in the input directory.
UserAdds(n, c) ==
  /\ n \notin NameOf(indir)
  /\ indir' = indir \cup {File(n, c)}
  /\ UNCHANGED <<procVars, sc, next, cur, current, analyzed, exported, ever>>

NothingAnalyzed(n) == analyzed = {}     \* mutant: import once only

\* maybe_import: grep looks for the name anywhere in the lines.
NotAnalyzed(n) == Found[n] \cap analyzed = {}

Imported ==
  {f \in indir : NotAnalyzed(f.name) /\ f.name \notin NameOf(next)}

\* The head of the main loop: import, begin a generation, stop if it is empty.
NewGeneration ==
  /\ sc = "import"
  /\ cur' = next \cup Imported
  /\ next' = {}
  /\ IF history THEN outdir' = <<>> /\ generated' = 0
                ELSE UNCHANGED <<outdir, generated>>
  /\ sc' = IF cur' = {} THEN "done" ELSE "run"
  /\ UNCHANGED <<disk, proc, input, at, loaded, mem, count, trace, last, sites,
                 blocked, written, own, ideal, mishaps, seen, solved,
                 history, indir, current, analyzed, exported, ever>>

Run ==
  /\ sc = "run"
  /\ \E f \in cur :
       /\ Start(f.content)
       /\ current' = f.name
  /\ sc' = "wait"
  /\ UNCHANGED <<indir, next, cur, analyzed, exported, ever>>

\* Mutant: only the first test case.
HashedFirst == {File(c, c) : c \in ToSet(SubSeq(outdir, 1, IF outdir = <<>> THEN 0 ELSE 1))}

\* copy_with_unique_name: every file of the output directory under its hash
Hashed == {File(c, c) : c \in ToSet(outdir)}

\* The process is over: its output becomes part of the next generation.
Collect ==
  /\ sc = "wait" /\ proc = "down"
  /\ next' = CopyTo(next, Hashed)
  /\ exported' = CopyTo(exported, Hashed)
  /\ analyzed' = analyzed \cup {current}
  /\ cur' = {f \in cur : f.name # current}
  /\ sc' = IF cur' = {} THEN "import" ELSE "run"
  /\ UNCHANGED <<procVars, indir, current, ever>>

\* The script waits for the target.
Wait ==
  /\ sc = "wait"
  /\ ever' = ever \cup ToSet(outdir')
  /\ UNCHANGED <<sc, indir, next, cur, current, analyzed, exported>>

TargetStep == (Progress \/ Kill \/ KillWriting) /\ Wait

Script == NewGeneration \/ Run \/ Collect

Next ==
  \/ \E n \in Names, c \in Seeds : UserAdds(n, c)
  \/ Script
  \/ TargetStep

\* The script goes on, and the target as well: timeout(1) ends it otherwise.
Fairness == WF_vars(Script) /\ WF_vars(Progress /\ Wait)

Spec == Init /\ [][Next]_vars /\ Fairness

-----------------------------------------------------------------------------
\* A generated test case is never lost: until it is among the inputs that were
\* run, it is in this generation, in the next one or still in the output
\* directory of the process that wrote it (overwritten file names, the
\* cleaning of the output directory).
TestsKept ==
  \A c \in ever :
    \/ c \in analyzed
    \/ \E f \in next \cup cur : f.content = c
    \/ sc = "wait" /\ c \in ToSet(outdir)

\* What a user sees in the export directory is all that was ever generated.
ExportComplete ==
  sc \in {"import", "done"} => {f.content : f \in exported} = ever

\* Every file of the input directory is part of the new generation unless it
\* has been analyzed ("copy those files from the input directory to the next
\* generation that haven't been analyzed yet").
AllImported ==
  [][ NewGeneration =>
        \A f \in indir : f.name \in analyzed \/ f.name \in NameOf(cur') ]_vars

\* With a history the loop ends, however test cases are generated again, also
\* when a process is killed or truncates the history ("run generation after
\* generation until we don't generate new inputs anymore").
Terminates == <>(sc = "done" \/ ~history)
=============================================================================

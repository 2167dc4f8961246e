----------------------------- MODULE GraphServe -----------------------------
(* `dander graph serve': one graph file edited from browser tabs and from an  *)
(* ordinary editor, the deployed job that can be triggered from it, and the   *)
(* preview of its deployment.  GraphDocumentStore keeps the file under a      *)
(* lock; GraphOperations has a lock for executions and one for previews.      *)
(*                                                                            *)
(* A content of the file or of another part of the project is the number of   *)
(* the write that produced it: contents are compared by their SHA-256.        *)
EXTENDS Naturals, FiniteSets

CONSTANTS
    Tabs,           \* browser tabs
    OtherParts,     \* what a preview copies besides the graph, in any order
    Executions,     \* names of executions of the deployed job
    MaxWrites,      \* bound on contents
    Requests,       \* what the tabs ask for besides opening: "save", "run", "preview"
    None

VARIABLES
    file,           \* content of the graph file
    parts,          \* [OtherParts -> content]
    invalid,        \* contents the editor wrote that are not valid graphs
    written,        \* number of contents so far
    storeLock, runLock, previewLock,
    tab,            \* [Tabs -> what the tab and the handler of its request know]
    execution,      \* [Executions -> state of the job's executions]
    submitted,      \* _submitted_execution
    lostAnswer      \* an execute command failed after Cloud Run accepted it

vars == <<file, parts, invalid, written, storeLock, runLock, previewLock, tab,
          execution, submitted, lostAnswer>>

ProjectParts == OtherParts \cup {"graph"}

Blank == [pc |-> "idle", base |-> None, draft |-> None, edited |-> FALSE,
          before |-> None, copy |-> [p \in ProjectParts |-> None], preview |-> None]

Init ==
    /\ file = 0
    /\ parts = [p \in OtherParts |-> 0]
    /\ invalid = {}
    /\ written = 0
    /\ storeLock = None /\ runLock = None /\ previewLock = None
    /\ tab = [t \in Tabs |-> Blank]
    /\ execution = [x \in Executions |-> "none"]
    /\ submitted = None
    /\ lostAnswer = FALSE

Locks == <<storeLock, runLock, previewLock>>
Files == <<file, parts, invalid, written>>
Job == <<execution, submitted, lostAnswer>>

At(t, pc) == tab[t].pc = pc
Goto(t, pc) == tab' = [tab EXCEPT ![t].pc = pc]

-----------------------------------------------------------------------------
(* The document store. *)

(* load() reads the bytes once, under the lock. *)
Loads(rev) == storeLock = None /\ file = rev /\ file \notin invalid
LoadsElse(rev) == storeLock = None /\ ~(file = rev /\ file \notin invalid)

(* GET: the tab shows the graph and keeps its ETag. *)
Open(t) ==
    /\ At(t, "idle")
    /\ Loads(file)
    /\ tab' = [tab EXCEPT ![t].base = file]
    /\ UNCHANGED <<Files, Locks, Job>>

(* PUT with If-Match: the payload is validated before the lock is taken. *)
SaveBegin(t) ==
    /\ "save" \in Requests
    /\ At(t, "idle") /\ tab[t].base # None
    /\ storeLock = None
    /\ written < MaxWrites
    /\ \/ /\ file = tab[t].base
          /\ storeLock' = t
          /\ written' = written + 1
          /\ tab' = [tab EXCEPT ![t].pc = "write", ![t].draft = written + 1, ![t].edited = FALSE]
       \/ /\ file # tab[t].base
          /\ tab' = [tab EXCEPT ![t].base = None]
          /\ UNCHANGED <<storeLock, written>>
    /\ UNCHANGED <<file, parts, invalid, runLock, previewLock, Job>>

(* The temporary file is written and synced, or that fails and it is removed. *)
WriteTemporary(t) ==
    /\ At(t, "write")
    /\ \/ Goto(t, "check") /\ UNCHANGED storeLock
       \/ Goto(t, "idle") /\ storeLock' = None
    /\ UNCHANGED <<Files, runLock, previewLock, Job>>

NotCheckedAgain(t) == TRUE

StillTheBase(t) == file = tab[t].base

CheckAgain(t) ==
    /\ At(t, "check")
    /\ \/ /\ StillTheBase(t)
          /\ tab' = [tab EXCEPT ![t].pc = "replace", ![t].edited = FALSE]
          /\ UNCHANGED storeLock
       \/ /\ ~StillTheBase(t)
          /\ tab' = [tab EXCEPT ![t].pc = "idle", ![t].base = None]
          /\ storeLock' = None
    /\ UNCHANGED <<Files, runLock, previewLock, Job>>

Replace(t) ==
    /\ At(t, "replace")
    /\ file' = tab[t].draft
    /\ Goto(t, "reload")
    /\ UNCHANGED <<parts, invalid, written, Locks, Job>>

(* The answer holds what is in the file now, and its revision. *)
Reload(t) ==
    /\ At(t, "reload")
    /\ storeLock' = None
    /\ tab' = [tab EXCEPT ![t].pc = "idle", ![t].base = IF file \in invalid THEN None ELSE file]
    /\ UNCHANGED <<Files, runLock, previewLock, Job>>

(* An editor, or a tool, writes the graph or another part of the project. *)
EditorWrites ==
    /\ written < MaxWrites
    /\ written' = written + 1
    /\ \/ /\ file' = written + 1
          /\ invalid' \in {invalid, invalid \cup {written + 1}}
          /\ tab' = [t \in Tabs |-> [tab[t] EXCEPT !.edited = TRUE]]
          /\ UNCHANGED parts
       \/ /\ \E p \in OtherParts : parts' = [parts EXCEPT ![p] = written + 1]
          /\ UNCHANGED <<file, invalid, tab>>
    /\ UNCHANGED <<Locks, Job>>

-----------------------------------------------------------------------------
(* Executions of the deployed job.  Cloud Run lists an execution some time    *)
(* after it accepted it: "accepted", "listed", then "finished".               *)

Active(x) == execution[x] \in {"accepted", "listed"}
ListedActive == {x \in Executions : execution[x] = "listed"}

RunBegin(t) ==
    /\ "run" \in Requests
    /\ At(t, "idle") /\ tab[t].base # None
    /\ runLock = None
    /\ runLock' = t
    /\ Goto(t, "run")
    /\ UNCHANGED <<Files, storeLock, previewLock, Job>>

(* validate: the graph on disk is the one the tab shows. *)
RunValidate(t) ==
    /\ At(t, "run")
    /\ \/ Loads(tab[t].base) /\ Goto(t, "submit") /\ UNCHANGED runLock
       \/ LoadsElse(tab[t].base) /\ Goto(t, "idle") /\ runLock' = None
    /\ UNCHANGED <<Files, storeLock, previewLock, Job>>

MaySubmit == submitted = None /\ ListedActive = {}

RunRefused(t) ==
    /\ At(t, "submit") /\ ~MaySubmit
    /\ Goto(t, "idle")
    /\ runLock' = None
    /\ UNCHANGED <<Files, storeLock, previewLock, Job>>

(* gcloud run jobs execute --async: the name comes back, or the command fails  *)
(* before or after Cloud Run accepted the execution.                          *)
RunExecute(t) ==
    /\ At(t, "submit") /\ MaySubmit
    /\ \/ \E x \in Executions :
            /\ execution[x] = "none"
            /\ execution' = [execution EXCEPT ![x] = "accepted"]
            /\ \/ submitted' = x /\ UNCHANGED lostAnswer
               \/ lostAnswer' = TRUE /\ UNCHANGED submitted
       \/ UNCHANGED Job
    /\ Goto(t, "idle")
    /\ runLock' = None
    /\ UNCHANGED <<Files, storeLock, previewLock>>

(* GET status: an execution that is not listed yet is reported as starting; *)
(* one that has finished is forgotten.                                      *)
Forget == submitted # None /\ execution[submitted] = "finished"

Status(t) ==
    /\ At(t, "idle")
    /\ runLock = None /\ storeLock = None
    /\ submitted # None
    /\ submitted' = IF Forget THEN None ELSE submitted
    /\ UNCHANGED <<Files, Locks, tab, execution, lostAnswer>>

Lists(x) ==
    /\ execution[x] = "accepted"
    /\ execution' = [execution EXCEPT ![x] = "listed"]
    /\ UNCHANGED <<Files, Locks, tab, submitted, lostAnswer>>

Finishes(x) ==
    /\ execution[x] = "listed"
    /\ execution' = [execution EXCEPT ![x] = "finished"]
    /\ UNCHANGED <<Files, Locks, tab, submitted, lostAnswer>>

(* An execution that has ended and been forgotten: its name may be used for a *)
(* later one (a bound of the model).                                          *)
Retires(x) ==
    /\ execution[x] = "finished" /\ submitted # x
    /\ execution' = [execution EXCEPT ![x] = "none"]
    /\ UNCHANGED <<Files, Locks, tab, submitted, lostAnswer>>

-----------------------------------------------------------------------------
(* Previews: one at a time, without the run lock. *)

Project == [p \in ProjectParts |-> IF p = "graph" THEN file ELSE parts[p]]

PreviewBegin(t) ==
    /\ "preview" \in Requests
    /\ At(t, "idle") /\ tab[t].base # None
    /\ previewLock = None
    /\ previewLock' = t
    /\ Goto(t, "preview")
    /\ UNCHANGED <<Files, storeLock, runLock, Job>>

PreviewEnds(t) ==
    /\ tab' = [tab EXCEPT ![t].pc = "idle", ![t].before = None, ![t].copy = [p \in ProjectParts |-> None]]
    /\ previewLock' = None

(* validate, the first load of preview() and the fingerprint of the project. *)
PreviewValidate(t) ==
    /\ At(t, "preview")
    /\ \/ /\ Loads(tab[t].base)
          /\ tab' = [tab EXCEPT ![t].pc = "copy", ![t].before = Project]
          /\ UNCHANGED previewLock
       \/ LoadsElse(tab[t].base) /\ PreviewEnds(t)
    /\ UNCHANGED <<Files, storeLock, runLock, Job>>

CopyPart(t) ==
    /\ At(t, "copy")
    /\ \E p \in ProjectParts :
        /\ tab[t].copy[p] = None
        /\ tab' = [tab EXCEPT ![t].copy[p] = Project[p]]
    /\ UNCHANGED <<Files, Locks, Job>>

(* The copied graph is the one the tab shows; then the image is published and *)
(* the plan made from the copies, or one of these fails.                      *)
SnapshotMatches(t) == tab[t].copy["graph"] = tab[t].base

Publish(t) ==
    /\ At(t, "copy")
    /\ \A p \in ProjectParts : tab[t].copy[p] # None
    /\ \/ SnapshotMatches(t) /\ Goto(t, "planned") /\ UNCHANGED previewLock
       \/ PreviewEnds(t)
    /\ UNCHANGED <<Files, storeLock, runLock, Job>>

(* The project's fingerprint and the graph's revision, once more. *)
GraphUnchanged(t) == file = tab[t].base

Unchanged(t) == Project = tab[t].before /\ GraphUnchanged(t)

Compare(t) ==
    /\ At(t, "planned")
    /\ storeLock = None
    /\ IF Unchanged(t) /\ file \notin invalid
       THEN Goto(t, "returning") /\ UNCHANGED previewLock
       ELSE PreviewEnds(t)
    /\ UNCHANGED <<Files, storeLock, runLock, Job>>

(* The last validate; then the preview is the answer. *)
PreviewReturn(t) ==
    /\ At(t, "returning")
    /\ previewLock' = None
    /\ \/ /\ Loads(tab[t].base)
          /\ tab' = [tab EXCEPT ![t].pc = "idle", ![t].preview =
                        [revision |-> tab[t].base, of |-> tab[t].copy, at |-> tab[t].before],
                        ![t].before = None, ![t].copy = [p \in ProjectParts |-> None]]
       \/ LoadsElse(tab[t].base) /\ PreviewEnds(t)
    /\ UNCHANGED <<Files, storeLock, runLock, Job>>

(* The tab is reloaded. *)
Dismiss(t) ==
    /\ At(t, "idle") /\ tab[t].preview # None
    /\ tab' = [tab EXCEPT ![t].preview = None]
    /\ UNCHANGED <<Files, Locks, Job>>

-----------------------------------------------------------------------------
Next ==
    \/ EditorWrites
    \/ \E x \in Executions : Lists(x) \/ Finishes(x) \/ Retires(x)
    \/ \E t \in Tabs :
        \/ Open(t) \/ SaveBegin(t) \/ WriteTemporary(t) \/ CheckAgain(t) \/ Replace(t) \/ Reload(t)
        \/ RunBegin(t) \/ RunValidate(t) \/ RunRefused(t) \/ RunExecute(t) \/ Status(t)
        \/ PreviewBegin(t) \/ PreviewValidate(t) \/ CopyPart(t) \/ Publish(t) \/ Compare(t)
        \/ PreviewReturn(t) \/ Dismiss(t)

Spec == Init /\ [][Next]_vars

-----------------------------------------------------------------------------
TypeOK ==
    /\ file \in 0 .. MaxWrites /\ written \in 0 .. MaxWrites /\ invalid \subseteq 1 .. MaxWrites
    /\ parts \in [OtherParts -> 0 .. MaxWrites]
    /\ {storeLock, runLock, previewLock} \subseteq Tabs \cup {None}
    /\ \A t \in Tabs :
        /\ (storeLock = t) <=> tab[t].pc \in {"write", "check", "replace", "reload"}
        /\ (runLock = t) <=> tab[t].pc \in {"run", "submit"}
        /\ (previewLock = t) <=> tab[t].pc \in {"preview", "copy", "planned", "returning"}

(* A save replaces the content its author opened and no other: another tab's   *)
(* save is never undone, and an editor's only when it falls between the last   *)
(* comparison and the rename (save() compares twice and holds the lock).       *)
NoSilentOverwrite ==
    \A t \in Tabs :
        (At(t, "replace") /\ file' = tab[t].draft /\ file' # file)
        => file = tab[t].base \/ tab[t].edited

(* Two tabs cannot have two executions of the job active at once, though the   *)
(* listing lags behind what was accepted, unless the answer to a submission    *)
(* was lost (trigger and _submitted_execution).                                *)
OneActiveExecution ==
    lostAnswer \/ Cardinality({x \in Executions : Active(x)}) <= 1

(* A preview that is returned was built from one state of the project, and its *)
(* graph is the revision the tab showed, though files are copied one after the *)
(* other while they are edited.                                                *)
PreviewOfOneProject ==
    \A t \in Tabs :
        tab[t].preview # None =>
            /\ tab[t].preview.of = tab[t].preview.at
            /\ tab[t].preview.of["graph"] = tab[t].preview.revision
=============================================================================

------------------------ MODULE JournaledGraphStore ------------------------
(***************************************************************************)
(* One graph in the S3, Azure Blob, OCI and GCS graph stores: an object    *)
(* for the graph, one journal object per create key and per delete key,    *)
(* and nothing but conditional writes to coordinate the workers.           *)
(*                                                                         *)
(* A worker handles one request at a time; every step is one provider      *)
(* call.  A call inside a call (a reader that finishes somebody's pending  *)
(* create or delete) is a frame on the worker's stack.  Versions stand for *)
(* ETags and generations.                                                  *)
(***************************************************************************)
EXTENDS Naturals, Sequences, FiniteSets, SequenceTheorems, TLAPS

CONSTANTS
    Workers,
    CreateKeys, DeleteKeys,
    Docs,           \* documents, as the fingerprint of a create tells them apart
    MaxVersion,     \* bound: conditional writes that succeed
    MaxCrashes,     \* bound: workers that die inside a request
    MaxRequests     \* bound: requests

JournaledAssumption ==
    MaxVersion \in Nat /\ MaxCrashes \in Nat /\ MaxRequests \in Nat

VARIABLES
    graph,          \* the graph object, or NoGraph
    cj, dj,         \* cj[k], dj[k]: journal objects of create and delete keys
    version,        \* the last version given out
    stack,          \* stack[w]: frames of the worker's request, innermost last
    made,           \* history: [op, rev, plan, from] of every revision
    removed,        \* history: revisions that a fence took away
    answers,        \* history: successful answers
    crashes, requests

storeVars == <<graph, cj, dj, version, stack, made, removed, answers, crashes, requests>>

NoKey == "none"
NoFence == [key |-> NoKey, expected |-> 0]

\* _StoredGraph: who created it, for which request, as which plan, and whether
\* it was replaced since.
NoGraph == [ver |-> 0, key |-> NoKey, req |-> NoKey, plan |-> 0, edited |-> FALSE, fence |-> NoFence]

GraphSet ==
    [ver : Nat, key : CreateKeys \union {NoKey}, req : Docs \union {NoKey}, plan : Nat,
     edited : BOOLEAN, fence : [key : DeleteKeys \union {NoKey}, expected : Nat]]

\* _CreateJournal and _DeleteJournal; ver = 0 is a missing object.
NoCreate == [ver |-> 0, done |-> FALSE, req |-> NoKey, plan |-> 0, result |-> 0]
NoDelete == [ver |-> 0, done |-> FALSE, expected |-> 0, fence |-> 0]

CreateSet == [ver : Nat, done : BOOLEAN, req : Docs \union {NoKey}, plan : Nat, result : Nat]
DeleteSet == [ver : Nat, done : BOOLEAN, expected : Nat, fence : Nat]

\* A frame: where it is, its request or journal, and the graph it has seen.
Frame(pc, key, seen) ==
    [pc |-> pc, key |-> key, req |-> NoKey, expected |-> 0, seen |-> seen,
     c |-> NoCreate, d |-> NoDelete, err |-> "none"]

Top(w) == stack[w][Len(stack[w])]
At(w, pc) == stack[w] # <<>> /\ Top(w).pc = pc
Replaced(s, frame) == [s EXCEPT ![Len(s)] = frame]
Popped(s) == SubSeq(s, 1, Len(s) - 1)

Goto(w, frame) == stack' = [stack EXCEPT ![w] = Replaced(@, frame)]

\* An error ends the request, whatever frame raised it.
Raise(w) == stack' = [stack EXCEPT ![w] = <<>>]

\* frame continues below a new innermost frame.
Call(w, frame, inner) == stack' = [stack EXCEPT ![w] = Append(Replaced(@, frame), inner)]

Fresh == version < MaxVersion
Next1 == version + 1

Untouched == UNCHANGED <<crashes, requests>>
NoEffect == UNCHANGED <<graph, cj, dj, version, made, removed>> /\ Untouched
ReadOnly == NoEffect /\ UNCHANGED answers

Succeed(op, key, rev, from) ==
    answers' = answers \union {[op |-> op, key |-> key, rev |-> rev, from |-> from]}

TypeOK ==
    /\ graph \in GraphSet
    /\ cj \in [CreateKeys -> CreateSet] /\ dj \in [DeleteKeys -> DeleteSet]
    /\ version \in 0 .. MaxVersion /\ removed \subseteq 1 .. version
    /\ crashes \in 0 .. MaxCrashes /\ requests \in 0 .. MaxRequests

Init ==
    /\ graph = NoGraph
    /\ cj = [k \in CreateKeys |-> NoCreate] /\ dj = [k \in DeleteKeys |-> NoDelete]
    /\ version = 0
    /\ stack = [w \in Workers |-> <<>>]
    /\ made = {} /\ removed = {} /\ answers = {}
    /\ crashes = 0 /\ requests = 0

-----------------------------------------------------------------------------
(***************************************************************************)
(* Requests.                                                               *)
(***************************************************************************)

\* A client names a revision that it was shown.
Revisions == {m.rev : m \in made}

Begin(w, frame) ==
    /\ stack[w] = <<>> /\ requests < MaxRequests
    /\ requests' = requests + 1
    /\ stack' = [stack EXCEPT ![w] = <<frame>>]
    /\ UNCHANGED <<graph, cj, dj, version, made, removed, answers, crashes>>

Request(w) ==
    \/ \E k \in CreateKeys, d \in Docs :
         Begin(w, [Frame("create", k, NoGraph) EXCEPT !.req = d])
    \/ \E r \in Revisions : Begin(w, [Frame("put", NoKey, NoGraph) EXCEPT !.expected = r])
    \/ \E k \in DeleteKeys, r \in Revisions :
         Begin(w, [Frame("delete", k, NoGraph) EXCEPT !.expected = r])
    \/ Begin(w, Frame("get", NoKey, NoGraph))

\* _validate_create_replay and _validate_delete_replay.
SameCreate(j, f) == j.req = f.req
SameDelete(j, f) == j.expected = f.expected

\* create: the journal of the key is followed if there is one.
CreateJournal(w) ==
    /\ At(w, "create")
    /\ LET f == Top(w)
           j == cj[f.key]
       IN  IF j.ver = 0 THEN Goto(w, [f EXCEPT !.pc = "existing"])
           ELSE IF SameCreate(j, f) THEN Goto(w, [f EXCEPT !.pc = "resume_create", !.c = j])
           ELSE Raise(w)
    /\ ReadOnly

\* create: is there a graph already?  A fenced one is deleted on the way.
CreateExisting(w) ==
    /\ At(w, "existing")
    /\ LET f == Top(w)
       IN  IF graph.ver = 0 THEN Goto(w, [f EXCEPT !.pc = "plan"])
           ELSE Call(w, [f EXCEPT !.pc = "existed"], Frame("resolve", NoKey, graph))
    /\ ReadOnly

CreateExisted(w) ==
    /\ At(w, "existed")
    /\ IF Top(w).seen.ver = 0 THEN Goto(w, [Top(w) EXCEPT !.pc = "plan"]) ELSE Raise(w)
    /\ ReadOnly

\* create: the pending journal is written if the key has none yet, and read
\* again if another worker was first.
CreatePlan(w) ==
    /\ At(w, "plan")
    /\ LET f == Top(w)
           j == [ver |-> Next1, done |-> FALSE, req |-> f.req, plan |-> Next1, result |-> 0]
       IN  IF cj[f.key].ver = 0
           THEN /\ Fresh
                /\ version' = Next1
                /\ cj' = [cj EXCEPT ![f.key] = j]
                /\ Goto(w, [f EXCEPT !.pc = "resume_create", !.c = j])
           ELSE /\ Goto(w, [f EXCEPT !.pc = "replan"])
                /\ UNCHANGED <<cj, version>>
    /\ UNCHANGED <<graph, dj, made, removed, answers>> /\ Untouched

CreateReplan(w) ==
    /\ At(w, "replan")
    /\ LET f == Top(w)
           j == cj[f.key]
       IN  IF j.ver # 0 /\ SameCreate(j, f)
           THEN Goto(w, [f EXCEPT !.pc = "resume_create", !.c = j]) ELSE Raise(w)
    /\ ReadOnly

\* _load_resolved for get and put.
Load(w) ==
    /\ \E op \in {"get", "put"} : At(w, op)
    /\ LET f == Top(w)
           loaded == IF f.pc = "get" THEN "got" ELSE "putting"
       IN  IF graph.ver = 0 THEN Raise(w)
           ELSE Call(w, [f EXCEPT !.pc = loaded], Frame("resolve", NoKey, graph))
    /\ ReadOnly

Get(w) == At(w, "got") /\ Raise(w) /\ ReadOnly

\* put: the revision it was shown, and the ETag that goes with it.
PutWrites(f) == f.seen.ver # 0 /\ f.seen.ver = f.expected /\ graph.ver = f.seen.ver

Put(w) ==
    /\ At(w, "putting")
    /\ Raise(w)
    /\ IF PutWrites(Top(w))
       THEN /\ Fresh
            /\ version' = Next1
            /\ graph' = [Top(w).seen EXCEPT !.ver = Next1, !.edited = TRUE]
            /\ made' = made \union {[op |-> "put", rev |-> Next1, plan |-> graph.plan, from |-> graph.ver]}
            /\ Succeed("put", NoKey, Next1, Top(w).expected)
       ELSE UNCHANGED <<graph, version, made, answers>>
    /\ UNCHANGED <<cj, dj, removed>> /\ Untouched

\* delete: the journal of the key, or a new one for the revision it was shown.
DeleteJournal(w) ==
    /\ At(w, "delete")
    /\ LET f == Top(w)
           j == dj[f.key]
       IN  IF j.ver # 0 /\ ~SameDelete(j, f) THEN Raise(w)
           ELSE IF j.ver # 0 THEN Goto(w, [f EXCEPT !.pc = "resume_delete", !.d = j])
           ELSE Goto(w, [f EXCEPT !.pc = "delete_load"])
    /\ ReadOnly

DeleteLoad(w) ==
    /\ At(w, "delete_load")
    /\ IF graph.ver = 0 THEN Raise(w)
       ELSE Call(w, [Top(w) EXCEPT !.pc = "deleting"], Frame("resolve", NoKey, graph))
    /\ ReadOnly

DeletePlan(w) ==
    /\ At(w, "deleting")
    /\ LET f == Top(w)
           j == [ver |-> Next1, done |-> FALSE, expected |-> f.expected, fence |-> 0]
       IN  IF f.seen.ver = 0 \/ f.seen.ver # f.expected
           THEN Raise(w) /\ UNCHANGED <<dj, version>>
           ELSE IF dj[f.key].ver = 0
           THEN /\ Fresh
                /\ version' = Next1
                /\ dj' = [dj EXCEPT ![f.key] = j]
                /\ Goto(w, [f EXCEPT !.pc = "resume_delete", !.d = j])
           ELSE Goto(w, [f EXCEPT !.pc = "replan_delete"]) /\ UNCHANGED <<dj, version>>
    /\ UNCHANGED <<graph, cj, made, removed, answers>> /\ Untouched

DeleteReplan(w) ==
    /\ At(w, "replan_delete")
    /\ LET f == Top(w)
           j == dj[f.key]
       IN  IF j.ver # 0 /\ SameDelete(j, f)
           THEN Goto(w, [f EXCEPT !.pc = "resume_delete", !.d = j]) ELSE Raise(w)
    /\ ReadOnly

-----------------------------------------------------------------------------
(***************************************************************************)
(* _resolve_loaded_graph: what a reader does with a graph object.  The     *)
(* caller's frame gets the graph back in seen, or NoGraph.                 *)
(***************************************************************************)

Return(w, result) ==
    LET s == Popped(stack[w])
    IN  stack' = [stack EXCEPT ![w] = Replaced(s, [s[Len(s)] EXCEPT !.seen = result])]

\* A missing journal or one of another request is corruption.
Resolve(w) ==
    /\ At(w, "resolve")
    /\ LET f == Top(w)
           g == f.seen
       IN  IF g.fence # NoFence
           THEN IF dj[g.fence.key].ver = 0 THEN Raise(w)
                ELSE Call(w, [f EXCEPT !.pc = "resolved_gone"],
                          [Frame("resume_delete", g.fence.key, NoGraph) EXCEPT !.d = dj[g.fence.key]])
           ELSE LET j == cj[g.key]
                IN  IF j.ver = 0 \/ j.req # g.req THEN Raise(w)
                    ELSE IF j.done THEN Return(w, g)
                    ELSE Call(w, [f EXCEPT !.pc = "resolved"],
                              [Frame("resume_create", g.key, NoGraph) EXCEPT !.c = j])
    /\ ReadOnly

Resolved(w) == At(w, "resolved") /\ Return(w, Top(w).seen) /\ ReadOnly
ResolvedGone(w) == At(w, "resolved_gone") /\ Return(w, NoGraph) /\ ReadOnly

-----------------------------------------------------------------------------
(***************************************************************************)
(* _resume_create.                                                         *)
(***************************************************************************)

\* The outermost frame answers the client; an inner one only helped.
Finish(w, op, rev) ==
    IF Len(stack[w]) = 1
    THEN Raise(w) /\ Succeed(op, Top(w).key, rev, 0)
    ELSE stack' = [stack EXCEPT ![w] = Popped(@)] /\ UNCHANGED answers

ResumeCreate(w) ==
    /\ At(w, "resume_create")
    /\ LET f == Top(w)
       IN  IF f.c.done THEN Finish(w, "create", f.c.result)
           ELSE /\ Goto(w, [f EXCEPT !.pc = IF graph.ver = 0 THEN "rc_write" ELSE "rc_check",
                                     !.seen = graph])
                /\ UNCHANGED answers
    /\ NoEffect

\* The planned graph, if there is none.
CreateGraph(w) ==
    /\ At(w, "rc_write")
    /\ LET f == Top(w)
           planned == [ver |-> Next1, key |-> f.key, req |-> f.c.req, plan |-> f.c.plan,
                       edited |-> FALSE, fence |-> NoFence]
       IN  IF graph.ver = 0
           THEN /\ Fresh
                /\ version' = Next1
                /\ graph' = planned
                /\ made' = made \union {[op |-> "create", rev |-> Next1, plan |-> f.c.plan, from |-> 0]}
                /\ Goto(w, [f EXCEPT !.pc = "rc_check", !.seen = planned])
           ELSE /\ Goto(w, [f EXCEPT !.pc = "rc_reread"])
                /\ UNCHANGED <<graph, version, made>>
    /\ UNCHANGED <<cj, dj, removed, answers>> /\ Untouched

CreateReread(w) ==
    /\ At(w, "rc_reread")
    /\ IF graph.ver = 0 THEN Raise(w)
       ELSE Goto(w, [Top(w) EXCEPT !.pc = "rc_check", !.seen = graph])
    /\ ReadOnly

\* current == journal.planned_graph
IsPlanned(g, j) == g.plan = j.plan /\ ~g.edited /\ g.fence = NoFence

\* Mutant of JournalUnchanged: the last writer wins.
JournalOverwritten(f) == TRUE

\* The condition of the write that completes the journal.
JournalUnchanged(f) == cj[f.key].ver = f.c.ver

\* Somebody else's graph: the key is given back.  The planned one: complete the
\* journal.  The planned one as somebody changed it: the journal must be complete.
CreateCheck(w) ==
    /\ At(w, "rc_check")
    /\ LET f == Top(w)
           g == f.seen
       IN  IF g.key # f.key \/ g.req # f.c.req
           THEN /\ Raise(w)
                /\ cj' = IF cj[f.key].ver = f.c.ver THEN [cj EXCEPT ![f.key] = NoCreate] ELSE cj
                /\ UNCHANGED <<version, answers>>
           ELSE IF ~IsPlanned(g, f.c)
           THEN /\ IF cj[f.key].ver # 0 /\ cj[f.key].req = f.c.req /\ cj[f.key].done
                   THEN Goto(w, [f EXCEPT !.pc = "resume_create", !.c = cj[f.key]])
                   ELSE Raise(w)
                /\ UNCHANGED <<cj, version, answers>>
           ELSE IF JournalUnchanged(f)
           THEN /\ Fresh
                /\ version' = Next1
                /\ cj' = [cj EXCEPT ![f.key] =
                            [@ EXCEPT !.ver = Next1, !.done = TRUE, !.result = g.ver]]
                /\ Finish(w, "create", g.ver)
           ELSE /\ Goto(w, [f EXCEPT !.pc = "rc_reload"])
                /\ UNCHANGED <<cj, version, answers>>
    /\ UNCHANGED <<graph, dj, made, removed>> /\ Untouched

\* _reload_create_journal after a lost race.
CreateReload(w) ==
    /\ At(w, "rc_reload")
    /\ LET f == Top(w)
           j == cj[f.key]
       IN  IF j.ver # 0 /\ j.req = f.c.req
           THEN Goto(w, [f EXCEPT !.pc = "resume_create", !.c = j]) ELSE Raise(w)
    /\ ReadOnly

-----------------------------------------------------------------------------
(***************************************************************************)
(* _resume_delete.                                                         *)
(***************************************************************************)

\* _owns_fence
Owns(g, f) == g.fence = [key |-> f.key, expected |-> f.d.expected]

\* Mutant of DeleteStep: a graph of another revision is fenced too.
DeleteStepAnyRevision(g, f) ==
    IF f.d.fence # 0
    THEN IF g.ver = f.d.fence THEN "rd_erase" ELSE IF g.fence # NoFence THEN "help" ELSE "rd_finish"
    ELSE IF g.ver = 0 THEN "rd_drop"
    ELSE IF g.fence = NoFence THEN "rd_fence"
    ELSE IF Owns(g, f) THEN "rd_note" ELSE "help"

\* What _resume_delete does about the graph it has just read: with the fence
\* noted in the journal it erases that very version; otherwise it sets the fence
\* on the expected revision, or finds its own, or gives the key back.
DeleteStep(g, f) ==
    IF f.d.fence # 0
    THEN IF g.ver = f.d.fence THEN "rd_erase" ELSE IF g.fence # NoFence THEN "help" ELSE "rd_finish"
    ELSE IF g.ver = 0 THEN "rd_drop"
    ELSE IF g.fence = NoFence THEN (IF g.ver = f.d.expected THEN "rd_fence" ELSE "rd_drop")
    ELSE IF Owns(g, f) THEN "rd_note" ELSE "help"

ResumeDelete(w) ==
    /\ At(w, "resume_delete")
    /\ LET f == Top(w)
           step == DeleteStep(graph, f)
           next == IF f.d.fence # 0 THEN "rd_finish" ELSE "rd_drop"
       IN  IF f.d.done THEN Finish(w, "delete", f.d.expected)
           ELSE /\ IF step = "help"
                   THEN Call(w, [f EXCEPT !.pc = next], Frame("resolve", NoKey, graph))
                   ELSE Goto(w, [f EXCEPT !.pc = step, !.seen = graph])
                /\ UNCHANGED answers
    /\ NoEffect

DeleteErase(w) ==
    /\ At(w, "rd_erase")
    /\ LET f == Top(w)
       IN  IF graph.ver = f.seen.ver
           THEN graph' = NoGraph /\ Goto(w, [f EXCEPT !.pc = "rd_finish"])
           ELSE UNCHANGED graph /\ Goto(w, [f EXCEPT !.pc = "resume_delete"])
    /\ UNCHANGED <<cj, dj, version, made, removed, answers>> /\ Untouched

\* The fence makes the graph invisible: this is where it is gone.
DeleteFence(w) ==
    /\ At(w, "rd_fence")
    /\ LET f == Top(w)
           fenced == [f.seen EXCEPT !.ver = Next1,
                        !.fence = [key |-> f.key, expected |-> f.d.expected]]
       IN  IF graph.ver = f.seen.ver
           THEN /\ Fresh
                /\ version' = Next1
                /\ graph' = fenced
                /\ removed' = removed \union {f.seen.ver}
                /\ Goto(w, [f EXCEPT !.pc = "rd_note", !.seen = fenced])
           ELSE /\ Goto(w, [f EXCEPT !.pc = "resume_delete"])
                /\ UNCHANGED <<version, graph, removed>>
    /\ UNCHANGED <<cj, dj, made, answers>> /\ Untouched

\* The journal remembers which version carries the fence.
DeleteNote(w) ==
    /\ At(w, "rd_note")
    /\ LET f == Top(w)
           j == [f.d EXCEPT !.ver = Next1, !.fence = f.seen.ver]
       IN  IF dj[f.key].ver = f.d.ver
           THEN /\ Fresh
                /\ version' = Next1
                /\ dj' = [dj EXCEPT ![f.key] = j]
                /\ Goto(w, [f EXCEPT !.pc = "resume_delete", !.d = j])
           ELSE Goto(w, [f EXCEPT !.pc = "rd_reload"]) /\ UNCHANGED <<version, dj>>
    /\ UNCHANGED <<graph, cj, made, removed, answers>> /\ Untouched

\* The precondition failed: the key is given back and the request fails.
DeleteDrop(w) ==
    /\ At(w, "rd_drop")
    /\ LET f == Top(w)
       IN  IF dj[f.key].ver = f.d.ver
           THEN Raise(w) /\ dj' = [dj EXCEPT ![f.key] = NoDelete]
           ELSE Goto(w, [f EXCEPT !.pc = "rd_reload"]) /\ UNCHANGED dj
    /\ UNCHANGED <<graph, cj, version, made, removed, answers>> /\ Untouched

\* _complete_delete
DeleteFinish(w) ==
    /\ At(w, "rd_finish")
    /\ LET f == Top(w)
       IN  IF dj[f.key].ver = f.d.ver
           THEN /\ Fresh
                /\ version' = Next1
                /\ dj' = [dj EXCEPT ![f.key] = [@ EXCEPT !.ver = Next1, !.done = TRUE]]
                /\ Finish(w, "delete", f.d.expected)
           ELSE /\ Goto(w, [f EXCEPT !.pc = "rd_refinish"])
                /\ UNCHANGED <<version, dj, answers>>
    /\ UNCHANGED <<graph, cj, made, removed>> /\ Untouched

\* _reload_delete_journal, from the loop of either function.
DeleteReload(w) ==
    /\ At(w, "rd_reload") \/ At(w, "rd_refinish")
    /\ LET f == Top(w)
           j == dj[f.key]
           next == IF f.pc = "rd_reload" \/ j.done THEN "resume_delete" ELSE "rd_finish"
       IN  IF j.ver # 0 /\ j.expected = f.d.expected
           THEN Goto(w, [f EXCEPT !.pc = next, !.d = j]) ELSE Raise(w)
    /\ ReadOnly

-----------------------------------------------------------------------------

\* A worker dies, or its client gives up; the objects stay as they are.
Crash(w) ==
    /\ crashes < MaxCrashes /\ stack[w] # <<>>
    /\ crashes' = crashes + 1
    /\ Raise(w)
    /\ UNCHANGED <<graph, cj, dj, version, made, removed, answers, requests>>

Step(w) ==
    \/ CreateJournal(w) \/ CreateExisting(w) \/ CreateExisted(w) \/ CreatePlan(w)
    \/ CreateReplan(w) \/ Load(w) \/ Get(w) \/ Put(w)
    \/ DeleteJournal(w) \/ DeleteLoad(w) \/ DeletePlan(w) \/ DeleteReplan(w)
    \/ Resolve(w) \/ Resolved(w) \/ ResolvedGone(w)
    \/ ResumeCreate(w) \/ CreateGraph(w) \/ CreateReread(w) \/ CreateCheck(w) \/ CreateReload(w)
    \/ ResumeDelete(w) \/ DeleteErase(w) \/ DeleteFence(w) \/ DeleteNote(w) \/ DeleteDrop(w)
    \/ DeleteFinish(w) \/ DeleteReload(w)

Next == \E w \in Workers : Request(w) \/ Step(w) \/ Crash(w)

Spec == Init /\ [][Next]_storeVars

-----------------------------------------------------------------------------
(***************************************************************************)
(* Properties.                                                             *)
(***************************************************************************)

Visible == IF graph.fence = NoFence THEN graph.ver ELSE 0
By(op) == {m \in made : m.op = op}

Catalog == INSTANCE GraphCatalog WITH
    current <- Visible,
    created <- {m.rev : m \in By("create")},
    replaced <- {[rev |-> m.rev, from |-> m.from] : m \in By("put")},
    removed <- removed,
    answers <- {[op |-> a.op, rev |-> a.rev, from |-> a.from] : a \in answers}

\* Whatever workers race, help each other and die, the graph changes as
\* GraphCatalog says: no update is lost, a delete takes away the revision it was
\* asked to, and every successful answer is about a change that happened.
KeepsCatalog == [Catalog!Next]_(Catalog!catalogVars)

\* A key is good for one result: all the answers that requests with one key ever
\* get name the same revision, whoever completed the journal for them.
ReplayIsExact ==
    \A p, q \in answers : p.op = q.op /\ p.key = q.key /\ p.key # NoKey => p.rev = q.rev

-----------------------------------------------------------------------------
(***************************************************************************)
(* Proofs, for any workers, keys, documents, and any number of requests,   *)
(* crashes and nested calls.                                               *)
(*                                                                         *)
(* Every object a frame has read is a past value of the object: if its     *)
(* version is still the current one it is the current value, since a       *)
(* version is given out once.  A conditional write therefore acts on what  *)
(* its worker has seen, however long ago that was.                         *)
(***************************************************************************)

ResumingCreate == {"resume_create", "rc_write", "rc_reread", "rc_check", "rc_reload"}
ResumingDelete == {"resume_delete", "rd_erase", "rd_fence", "rd_note", "rd_drop", "rd_finish",
                   "rd_reload", "rd_refinish"}
CreatePcs == ResumingCreate \union {"create", "existing", "existed", "plan", "replan"}
DeletePcs == ResumingDelete \union {"delete", "delete_load", "deleting", "replan_delete"}
Pcs == CreatePcs \union DeletePcs \union {"put", "get", "putting", "got", "resolve", "resolved", "resolved_gone"}

FrameSet ==
    [pc : Pcs, key : CreateKeys \union DeleteKeys \union {NoKey}, req : Docs \union {NoKey},
     expected : Nat, seen : GraphSet, c : CreateSet, d : DeleteSet, err : {"none"}]

Created == {m.rev : m \in By("create")}

\* A graph object as some worker read it: an unfenced version is one that a
\* create or a put made, a fence stands for a removal.
SeenOK(g) ==
    /\ g \in GraphSet /\ g.ver <= version
    /\ g.ver = 0 => g = NoGraph
    /\ g.ver # 0 => g.key \in CreateKeys
    /\ g.ver # 0 /\ g.fence = NoFence => g.ver \in Revisions
    /\ g.ver # 0 /\ g.fence = NoFence /\ ~g.edited => g.ver \in Created
    /\ g.fence # NoFence => g.fence.key \in DeleteKeys /\ g.fence.expected \in removed
    /\ g.ver = graph.ver => g = graph

\* Journals as some worker read them: a completed one tells of what was done, and
\* the version a delete journal notes is a fence.
CreateOK(j) ==
    /\ j \in CreateSet /\ j.ver <= version
    /\ j.done => j.result \in Created

DeleteOK(j) ==
    /\ j \in DeleteSet /\ j.ver <= version
    /\ j.done => j.expected \in removed
    /\ j.fence # 0 => /\ j.expected \in removed /\ j.fence <= version
                      /\ graph.ver = j.fence => graph.fence # NoFence

\* Where a frame stands while a frame above it is at work.
Waiting == {"existed", "got", "putting", "deleting", "rd_finish", "rd_drop", "resolved", "resolved_gone"}

\* What a frame knows of the journal it follows.
CreateFrameOK(f) ==
    /\ f.pc \in CreatePcs => f.key \in CreateKeys
    /\ f.pc \in ResumingCreate => f.c.ver # 0 /\ (cj[f.key].ver = f.c.ver => cj[f.key] = f.c)
    /\ f.pc \in ResumingCreate /\ f.pc # "resume_create" => ~f.c.done
    /\ f.pc = "resume_create" /\ f.c.done => cj[f.key] = f.c

DeleteFrameOK(f) ==
    /\ f.pc \in DeletePcs => f.key \in DeleteKeys
    /\ f.pc \in ResumingDelete => f.d.ver # 0 /\ (dj[f.key].ver = f.d.ver => dj[f.key] = f.d)
    /\ f.pc \in ResumingDelete /\ f.pc # "resume_delete" => ~f.d.done
    /\ f.pc = "resume_delete" /\ f.d.done => dj[f.key] = f.d

\* What a frame knows of the graph it has read, where it is about to use it.
SeenFrameOK(f) ==
    /\ f.pc \in {"resolve", "rc_check"} => f.seen.ver # 0
    /\ f.pc \in {"put", "putting", "resolved"} => f.seen.fence = NoFence
    /\ f.pc = "rd_erase" => f.d.fence # 0 /\ f.seen.ver = f.d.fence
    /\ f.pc = "rd_fence" => f.seen.ver # 0 /\ f.seen.fence = NoFence /\ f.seen.ver = f.d.expected
    /\ f.pc = "rd_note" => f.seen.ver # 0 /\ f.seen.fence # NoFence /\ f.d.expected \in removed
    /\ f.pc \in {"rd_finish", "rd_refinish"} => f.d.expected \in removed

FrameOK(f) ==
    /\ f \in FrameSet
    /\ SeenOK(f.seen) /\ CreateOK(f.c) /\ DeleteOK(f.d)
    /\ CreateFrameOK(f) /\ DeleteFrameOK(f) /\ SeenFrameOK(f)

\* A worker's stack: its frames are right, and all but the innermost wait.
StackIsRight(s) ==
    /\ s \in Seq(FrameSet)
    /\ \A i \in 1 .. Len(s) : FrameOK(s[i])
    /\ \A i \in 1 .. Len(s) - 1 : s[i].pc \in Waiting

JournalsOK ==
    /\ cj \in [CreateKeys -> CreateSet] /\ dj \in [DeleteKeys -> DeleteSet]
    /\ \A k \in CreateKeys : \A j \in {cj[k]} : CreateOK(j) /\ (j.ver = 0 => j = NoCreate)
    /\ \A k \in DeleteKeys : \A j \in {dj[k]} : DeleteOK(j) /\ (j.ver = 0 => j = NoDelete)

GraphOK == \A g \in {graph} : SeenOK(g)

MadeOK ==
    /\ version \in Nat
    /\ \A m \in made : m.op \in {"create", "put"} /\ m.rev \in Nat \ {0} /\ m.rev <= version
    /\ removed \subseteq Revisions

\* Every answer is what the journal of its key says for good.
AnswersOK ==
    \A a \in answers :
      /\ a.op \in {"create", "put", "delete"}
      /\ a.op = "create" => a.key \in CreateKeys /\ cj[a.key].done /\ cj[a.key].result = a.rev
      /\ a.op = "delete" => a.key \in DeleteKeys /\ dj[a.key].done /\ dj[a.key].expected = a.rev
      /\ a.op = "put" => a.key = NoKey

StoreInv ==
    /\ MadeOK /\ GraphOK /\ JournalsOK /\ AnswersOK
    /\ stack \in [Workers -> Seq(FrameSet)]
    /\ \A w \in Workers : \A s \in {stack[w]} : StackIsRight(s)

-----------------------------------------------------------------------------
(* What a step may do to the objects, and what that leaves true. *)

Evolves ==
    /\ version' \in Nat /\ version <= version' /\ made \subseteq made' /\ removed \subseteq removed'
    /\ graph' \in {graph, NoGraph} \/ graph'.ver > version
    /\ \A k \in CreateKeys : cj'[k] = cj[k] \/ (~cj[k].done /\ (cj'[k] = NoCreate \/ cj'[k].ver > version))
    /\ \A k \in DeleteKeys : dj'[k] = dj[k] \/ (~dj[k].done /\ (dj'[k] = NoDelete \/ dj'[k].ver > version))

\* Revisions and creations only grow.
LEMMA RevisionsGrow ==
    ASSUME Evolves
    PROVE  Revisions \subseteq Revisions' /\ Created \subseteq Created'
BY DEF Evolves, Revisions, Created, By

\* A graph that was read stays one that was read.
LEMMA SeenStays ==
    ASSUME Evolves, version \in Nat, NEW g, SeenOK(g)
    PROVE  SeenOK(g)'
<1>1. g.ver \in Nat /\ g.ver <= version' /\ NoGraph.ver = 0
  BY DEF Evolves, SeenOK, GraphSet, NoGraph
<1>2. g.ver = graph'.ver => g = graph'
  BY <1>1 DEF Evolves, SeenOK
<1> QED BY <1>1, <1>2, RevisionsGrow DEF SeenOK, Evolves

\* The same for journals.
LEMMA CreateStays ==
    ASSUME Evolves, version \in Nat, NEW j, CreateOK(j)
    PROVE  CreateOK(j)'
<1>1. j.ver \in Nat
  BY DEF CreateOK, CreateSet
<1> QED BY <1>1, RevisionsGrow DEF CreateOK, Evolves

\* And for deletion journals.
LEMMA DeleteStays ==
    ASSUME Evolves, version \in Nat, NEW j, DeleteOK(j)
    PROVE  DeleteOK(j)'
<1>1. j.ver \in Nat /\ j.fence \in Nat /\ NoGraph.ver = 0
  BY DEF DeleteOK, DeleteSet, NoGraph
<1> QED BY <1>1 DEF DeleteOK, Evolves

\* A frame that a step of another worker, or of a frame above, leaves alone
\* stays right.
LEMMA FrameStays ==
    ASSUME Evolves, version \in Nat, NEW f, FrameOK(f)
    PROVE  FrameOK(f)'
<1>1. SeenOK(f.seen)' /\ CreateOK(f.c)' /\ DeleteOK(f.d)'
  BY SeenStays, CreateStays, DeleteStays DEF FrameOK
<1>2. f.c.ver \in Nat /\ f.d.ver \in Nat /\ f.c.ver <= version /\ f.d.ver <= version
  BY DEF FrameOK, CreateOK, DeleteOK, CreateSet, DeleteSet
<1>3. CreateFrameOK(f)'
  BY <1>2 DEF FrameOK, CreateFrameOK, Evolves, CreatePcs, ResumingCreate, NoCreate
<1>4. DeleteFrameOK(f)'
  BY <1>2 DEF FrameOK, DeleteFrameOK, Evolves, DeletePcs, ResumingDelete, NoDelete
<1>5. SeenFrameOK(f)'
  BY DEF FrameOK, SeenFrameOK, Evolves
<1> QED BY <1>1, <1>3, <1>4, <1>5 DEF FrameOK

\* A worker that takes no step keeps a right stack while the objects move forward.
LEMMA StackStays ==
    ASSUME Evolves, version \in Nat, NEW s, StackIsRight(s)
    PROVE  StackIsRight(s)'
BY FrameStays DEF StackIsRight

-----------------------------------------------------------------------------
(* The four things a step does to a stack. *)

\* Replacing the top frame by a right one keeps the stack right.
LEMMA ReplaceTop ==
    ASSUME NEW s, StackIsRight(s), NEW f, FrameOK(f), s # <<>>
    PROVE  StackIsRight(Replaced(s, f))
<1>1. Len(s) \in 1 .. Len(s) /\ f \in FrameSet /\ s \in Seq(FrameSet)
  BY DEF StackIsRight, FrameOK
<1>2. /\ Replaced(s, f) \in Seq(FrameSet) /\ Len(Replaced(s, f)) = Len(s)
      /\ \A i \in 1 .. Len(s) : Replaced(s, f)[i] = IF i = Len(s) THEN f ELSE s[i]
  BY <1>1, ExceptSeq DEF Replaced
<1> QED BY <1>1, <1>2 DEF StackIsRight

\* Calling another operation pushes a right frame above one that waits for it.
LEMMA PushFrame ==
    ASSUME NEW s, StackIsRight(s), NEW f, FrameOK(f), s # <<>> => s[Len(s)].pc \in Waiting
    PROVE  StackIsRight(Append(s, f))
<1>1. f \in FrameSet /\ s \in Seq(FrameSet) /\ Len(s) \in Nat
  BY DEF StackIsRight, FrameOK
<1>2. /\ Append(s, f) \in Seq(FrameSet) /\ Len(Append(s, f)) = Len(s) + 1
      /\ \A i \in 1 .. Len(s) : Append(s, f)[i] = s[i]
      /\ Append(s, f)[Len(s) + 1] = f
  BY <1>1, AppendProperties
<1>3. s = <<>> <=> Len(s) = 0
  BY <1>1
<1> QED BY <1>1, <1>2, <1>3 DEF StackIsRight

\* Returning pops the top frame: the one below was right while it waited.
LEMMA PopFrame ==
    ASSUME NEW s, StackIsRight(s), s # <<>>
    PROVE  /\ StackIsRight(Popped(s)) /\ Len(Popped(s)) = Len(s) - 1
           /\ \A i \in 1 .. Len(s) - 1 : Popped(s)[i] = s[i]
<1>1. s \in Seq(FrameSet) /\ Len(s) \in Nat \ {0}
  BY DEF StackIsRight
<1>2. /\ Popped(s) \in Seq(FrameSet) /\ Len(Popped(s)) = Len(s) - 1
      /\ \A i \in 1 .. Len(s) - 1 : Popped(s)[i] = s[i]
  <2>1. \A i \in 1 .. Len(s) - 1 : s[i] \in FrameSet
    BY <1>1
  <2> DEFINE n == Len(s) - 1
  <2>2. 1 \in Int /\ n \in Nat /\ n \in Int /\ n - 1 + 1 = n
    BY <1>1
  <2>3. /\ SubSeq(s, 1, n) \in Seq(FrameSet)
        /\ Len(SubSeq(s, 1, n)) = IF 1 <= n THEN n - 1 + 1 ELSE 0
        /\ \A i \in 1 .. n - 1 + 1 : SubSeq(s, 1, n)[i] = s[1 + i - 1]
    BY <2>1, <2>2, SubSeqProperties
  <2>4. \A i \in 1 .. n : 1 + i - 1 = i
    BY <2>2
  <2> QED BY <2>2, <2>3, <2>4 DEF Popped
<1> QED BY <1>1, <1>2 DEF StackIsRight

-----------------------------------------------------------------------------
(* The steps that only read: a request's frame moves on with what it read. *)

\* What a step leaves of the invariant when the objects evolve and stay right.
LEMMA EvolvingStep ==
    ASSUME StoreInv, Evolves, MadeOK', GraphOK', JournalsOK', AnswersOK',
           NEW w \in Workers, NEW s, StackIsRight(s)', stack' = [stack EXCEPT ![w] = s]
    PROVE  StoreInv'
<1>1. version \in Nat
  BY DEF StoreInv, MadeOK
<1>2. s \in Seq(FrameSet)
  BY DEF StackIsRight
<1>3. ASSUME NEW v \in Workers, NEW t \in {stack'[v]} PROVE StackIsRight(t)'
  <2>1. CASE v = w
    BY <2>1, <1>3 DEF StoreInv
  <2>2. CASE v # w
    <3>1. t = stack[v] /\ StackIsRight(t)
      BY <1>3, <2>2 DEF StoreInv
    <3> QED BY <1>1, <3>1, StackStays
  <2> QED BY <2>1, <2>2
<1>4. stack' \in [Workers -> Seq(FrameSet)]
  BY <1>2 DEF StoreInv
<1> QED BY <1>3, <1>4 DEF StoreInv

\* Nothing but the stack changes.
Still == UNCHANGED <<graph, cj, dj, version, made, removed, answers>>

\* A step that only reads the store leaves every fact but its own stack alone.
LEMMA ReadingStep ==
    ASSUME StoreInv, Still, NEW w \in Workers, NEW s, StackIsRight(s),
           stack' = [stack EXCEPT ![w] = s]
    PROVE  StoreInv'
<1>1. Evolves
  BY DEF StoreInv, MadeOK, Evolves, Still
<1>2. MadeOK' /\ AnswersOK'
  BY DEF StoreInv, MadeOK, AnswersOK, Still, Revisions
<1>3. version \in Nat
  BY DEF StoreInv, MadeOK
<1>4. JournalsOK'
  BY <1>1, <1>3, CreateStays, DeleteStays DEF StoreInv, JournalsOK, Still
<1>5. GraphOK'
  BY <1>1, <1>3, SeenStays DEF StoreInv, GraphOK, Still
<1>6. StackIsRight(s)'
  BY <1>1, <1>3, StackStays
<1> QED BY <1>1, <1>2, <1>4, <1>5, <1>6, EvolvingStep

\* The frame at work is right.
LEMMA TopFrame ==
    ASSUME StoreInv, NEW w \in Workers, stack[w] # <<>>
    PROVE  StackIsRight(stack[w]) /\ FrameOK(Top(w)) /\ Top(w) \in FrameSet
<1>1. StackIsRight(stack[w]) /\ Len(stack[w]) \in 1 .. Len(stack[w])
  BY DEF StoreInv, StackIsRight
<1> QED BY <1>1 DEF StackIsRight, Top, FrameOK

\* An idle worker's stack is right.
LEMMA EmptyStack == StackIsRight(<<>>)
BY DEF StackIsRight

\* A frame that is just made has read nothing yet.
LEMMA NewFrame ==
    ASSUME StoreInv
    PROVE  SeenOK(NoGraph) /\ CreateOK(NoCreate) /\ DeleteOK(NoDelete)
<1>1. NoGraph \in GraphSet /\ NoGraph.ver = 0 /\ NoGraph.fence = NoFence
  BY DEF NoGraph, NoFence, GraphSet
<1>2. NoCreate \in CreateSet /\ NoCreate.ver = 0 /\ ~NoCreate.done
  BY DEF NoCreate, CreateSet
<1>3. NoDelete \in DeleteSet /\ NoDelete.ver = 0 /\ ~NoDelete.done /\ NoDelete.fence = 0
  BY DEF NoDelete, DeleteSet
<1>4. version \in Nat /\ (graph.ver = 0 => graph = NoGraph)
  BY DEF StoreInv, MadeOK, GraphOK, SeenOK
<1> QED BY <1>1, <1>2, <1>3, <1>4 DEF SeenOK, CreateOK, DeleteOK

\* A reading frame moves on, fails, calls, or returns to the frame below.
LEMMA ReadGoto ==
    ASSUME StoreInv, Still, NEW w \in Workers, stack[w] # <<>>, NEW n, FrameOK(n), Goto(w, n)
    PROVE  StoreInv'
BY TopFrame, ReplaceTop, ReadingStep DEF Goto

\* An operation that raises after a read ends its worker's whole stack.
LEMMA ReadRaise ==
    ASSUME StoreInv, Still, NEW w \in Workers, Raise(w)
    PROVE  StoreInv'
BY EmptyStack, ReadingStep DEF Raise

\* The stack after a call is right when the called frame is.
LEMMA CalledStack ==
    ASSUME NEW s, StackIsRight(s), s # <<>>, NEW n, FrameOK(n), n.pc \in Waiting, NEW m, FrameOK(m)
    PROVE  StackIsRight(Append(Replaced(s, n), m))
<1>1. Len(s) \in 1 .. Len(s) /\ n \in FrameSet /\ s \in Seq(FrameSet)
  BY DEF StackIsRight, FrameOK
<1>2. Len(Replaced(s, n)) = Len(s) /\ Replaced(s, n)[Len(s)] = n
  BY <1>1, ExceptSeq DEF Replaced
<1> QED BY <1>2, ReplaceTop, PushFrame

\* A step that reads and calls another operation keeps the invariant.
LEMMA ReadCall ==
    ASSUME StoreInv, Still, NEW w \in Workers, stack[w] # <<>>,
           NEW n, FrameOK(n), n.pc \in Waiting, NEW m, FrameOK(m), Call(w, n, m)
    PROVE  StoreInv'
BY TopFrame, CalledStack, ReadingStep DEF Call

\* A waiting frame may be given any graph that was read and is not fenced.
LEMMA ReadReturn ==
    ASSUME StoreInv, Still, NEW w \in Workers, stack[w] # <<>>,
           NEW g, SeenOK(g), g.fence = NoFence, Return(w, g)
    PROVE  StoreInv'
<1> DEFINE s == Popped(stack[w])
           n == [s[Len(s)] EXCEPT !.seen = g]
<1>1. StackIsRight(s) /\ s \in Seq(FrameSet)
  BY TopFrame, PopFrame DEF StackIsRight
<1>2. CASE s = <<>>
  <2>1. Replaced(s, n) = s
    BY <1>2 DEF Replaced
  <2> QED BY <1>1, <2>1, ReadingStep DEF Return
<1>3. CASE s # <<>>
  <2>1. FrameOK(s[Len(s)]) /\ s[Len(s)].pc \in Waiting
    BY <1>1, <1>3, TopFrame, PopFrame DEF StackIsRight
  <2>2. PICK f : f = s[Len(s)]
    OBVIOUS
  <2>3. g \in GraphSet
    BY DEF SeenOK
  <2>4. FrameOK([f EXCEPT !.seen = g])
    BY <2>1, <2>2, <2>3 DEF FrameOK, FrameSet, Waiting, CreateFrameOK, DeleteFrameOK, SeenFrameOK,
       CreatePcs, DeletePcs, ResumingCreate, ResumingDelete
  <2> QED BY <1>1, <1>3, <2>2, <2>4, ReplaceTop, ReadingStep DEF Return
<1> QED BY <1>2, <1>3

-----------------------------------------------------------------------------

USE DEF CreatePcs, DeletePcs, ResumingCreate, ResumingDelete

\* What is left of a frame that moves on.
LEMMA MovedFields ==
    ASSUME NEW f \in FrameSet, NEW p \in Pcs,
           NEW n, n = [f EXCEPT !.pc = p]
    PROVE  n \in FrameSet /\ n.pc = p /\ n.key = f.key /\ n.seen = f.seen /\ n.c = f.c /\ n.d = f.d
BY DEF FrameSet

\* The frame that resolves the graph as it is now.
LEMMA ResolveFrame ==
    ASSUME StoreInv, graph.ver # 0
    PROVE  FrameOK(Frame("resolve", NoKey, graph))
<1>1. SeenOK(graph) /\ graph \in GraphSet
  BY DEF StoreInv, GraphOK, SeenOK
<1>2. NoCreate \in CreateSet /\ NoDelete \in DeleteSet
  BY DEF NoCreate, CreateSet, NoDelete, DeleteSet
<1>3. PICK n : n = Frame("resolve", NoKey, graph)
  OBVIOUS
<1>4. n \in FrameSet /\ n.pc = "resolve" /\ n.seen = graph /\ n.c = NoCreate /\ n.d = NoDelete
  BY <1>1, <1>2, <1>3 DEF Frame, FrameSet, Pcs
<1>5. FrameOK(n)
  BY <1>1, <1>4, NewFrame DEF FrameOK, CreateFrameOK, DeleteFrameOK, SeenFrameOK
<1> QED BY <1>3, <1>5

\* A frame that goes on to follow the journal it has just read or written.
LEMMA FollowCreate ==
    ASSUME StoreInv, NEW f, FrameOK(f), f.key \in CreateKeys, cj[f.key].ver # 0
    PROVE  FrameOK([f EXCEPT !.pc = "resume_create", !.c = cj[f.key]])
<1>1. PICK j : j = cj[f.key] /\ CreateOK(j) /\ j \in CreateSet
  BY DEF StoreInv, JournalsOK
<1>2. PICK n : n = [f EXCEPT !.pc = "resume_create", !.c = j]
  OBVIOUS
<1>3. n \in FrameSet /\ n.pc = "resume_create" /\ n.key = f.key /\ n.seen = f.seen /\ n.c = j /\ n.d = f.d
  BY <1>1, <1>2 DEF FrameOK, FrameSet, Pcs
<1>4. FrameOK(n)
  BY <1>1, <1>3 DEF FrameOK, CreateFrameOK, DeleteFrameOK, SeenFrameOK
<1> QED BY <1>1, <1>2, <1>4

\* A frame that goes on with the deletion journal it has just read.
LEMMA FollowDelete ==
    ASSUME StoreInv, NEW f, FrameOK(f), f.key \in DeleteKeys, dj[f.key].ver # 0,
           NEW p \in {"resume_delete", "rd_finish"},
           p = "rd_finish" => ~dj[f.key].done /\ dj[f.key].expected \in removed
    PROVE  FrameOK([f EXCEPT !.pc = p, !.d = dj[f.key]])
<1>1. PICK j : j = dj[f.key] /\ DeleteOK(j) /\ j \in DeleteSet
  BY DEF StoreInv, JournalsOK
<1>2. PICK n : n = [f EXCEPT !.pc = p, !.d = j]
  OBVIOUS
<1>3. n \in FrameSet /\ n.pc = p /\ n.key = f.key /\ n.seen = f.seen /\ n.c = f.c /\ n.d = j
  BY <1>1, <1>2 DEF FrameOK, FrameSet, Pcs
<1>4. FrameOK(n)
  BY <1>1, <1>3 DEF FrameOK, CreateFrameOK, DeleteFrameOK, SeenFrameOK
<1> QED BY <1>1, <1>2, <1>4

\* create, up to its journal.
LEMMA CreateReads ==
    ASSUME StoreInv, NEW w \in Workers,
           CreateJournal(w) \/ CreateExisting(w) \/ CreateExisted(w) \/ CreateReplan(w)
    PROVE  StoreInv'
<1>0. stack[w] # <<>> /\ Still
  BY DEF CreateJournal, CreateExisting, CreateExisted, CreateReplan, At, ReadOnly, NoEffect, Still
<1>1. PICK f : f = Top(w) /\ FrameOK(f) /\ f \in FrameSet
  BY <1>0, TopFrame
<1>2. ASSUME NEW p \in {"existing", "existed", "plan"}, f.key \in CreateKeys
      PROVE  FrameOK([f EXCEPT !.pc = p]) /\ [f EXCEPT !.pc = p].pc = p
  <2>1. PICK n : n = [f EXCEPT !.pc = p]
    OBVIOUS
  <2>2. FrameOK(n)
    BY <1>1, <1>2, <2>1, MovedFields DEF Pcs, FrameOK, CreateFrameOK, DeleteFrameOK, SeenFrameOK
  <2> QED BY <1>1, <2>1, <2>2, MovedFields DEF Pcs
<1>3. f.key \in CreateKeys /\ cj[f.key].ver # 0
      => FrameOK([f EXCEPT !.pc = "resume_create", !.c = cj[f.key]])
  BY <1>1, FollowCreate
<1>4. CASE CreateJournal(w)
  BY <1>0, <1>1, <1>2, <1>3, <1>4, ReadGoto, ReadRaise DEF CreateJournal, At, FrameOK, CreateFrameOK
<1>5. CASE CreateReplan(w)
  BY <1>0, <1>1, <1>2, <1>3, <1>5, ReadGoto, ReadRaise DEF CreateReplan, At, FrameOK, CreateFrameOK
<1>6. CASE CreateExisted(w)
  BY <1>0, <1>1, <1>2, <1>6, ReadGoto, ReadRaise DEF CreateExisted, At, FrameOK, CreateFrameOK
<1>7. CASE CreateExisting(w)
  <2>1. CASE graph.ver = 0
    BY <1>0, <1>1, <1>2, <1>7, <2>1, ReadGoto DEF CreateExisting, At, FrameOK, CreateFrameOK
  <2>2. CASE graph.ver # 0
    <3>1. FrameOK(Frame("resolve", NoKey, graph))
      BY <2>2, ResolveFrame
    <3> QED BY <1>0, <1>1, <1>2, <1>7, <2>2, <3>1, ReadCall DEF CreateExisting, At, FrameOK, CreateFrameOK, Waiting
  <2> QED BY <2>1, <2>2
<1> QED BY <1>4, <1>5, <1>6, <1>7

\* get, put and delete, up to their writes.
LEMMA RequestReads ==
    ASSUME StoreInv, NEW w \in Workers,
           Load(w) \/ Get(w) \/ DeleteJournal(w) \/ DeleteLoad(w) \/ DeleteReplan(w)
    PROVE  StoreInv'
<1>0. stack[w] # <<>> /\ Still
  BY DEF Load, Get, DeleteJournal, DeleteLoad, DeleteReplan, At, ReadOnly, NoEffect, Still
<1>1. PICK f : f = Top(w) /\ FrameOK(f) /\ f \in FrameSet
  BY <1>0, TopFrame
<1>3. f.key \in DeleteKeys /\ dj[f.key].ver # 0
      => FrameOK([f EXCEPT !.pc = "resume_delete", !.d = dj[f.key]])
  BY <1>1, FollowDelete
<1>4. f.pc \in DeletePcs => f.key \in DeleteKeys
  BY <1>1 DEF FrameOK, DeleteFrameOK
<1>5. CASE Load(w)
  <2>1. CASE graph.ver = 0
    BY <1>0, <1>5, <2>1, ReadRaise DEF Load
  <2>2. CASE graph.ver # 0
    <3>1. FrameOK(Frame("resolve", NoKey, graph))
      BY <2>2, ResolveFrame
    <3>2. PICK p \in {"got", "putting"} :
            /\ Call(w, [f EXCEPT !.pc = p], Frame("resolve", NoKey, graph))
            /\ p = "putting" => f.pc = "put"
      BY <1>1, <1>5, <2>2 DEF Load, At
    <3>3. PICK n : n = [f EXCEPT !.pc = p]
      OBVIOUS
    <3>4. n \in FrameSet /\ n.pc = p /\ n.key = f.key /\ n.seen = f.seen /\ n.c = f.c /\ n.d = f.d
      BY <1>1, <3>3 DEF FrameSet, Pcs
    <3>5. FrameOK(n) /\ n.pc \in Waiting
      BY <1>1, <3>2, <3>4 DEF Waiting, FrameOK, CreateFrameOK, DeleteFrameOK, SeenFrameOK
    <3>6. PICK m : m = Frame("resolve", NoKey, graph) /\ FrameOK(m)
      BY <3>1
    <3>7. Call(w, n, m)
      BY <3>2, <3>3, <3>6
    <3> QED BY <1>0, <3>5, <3>6, <3>7, ReadCall
  <2> QED BY <2>1, <2>2
<1>6. CASE Get(w)
  BY <1>0, <1>6, ReadRaise DEF Get
<1>7. CASE DeleteJournal(w)
  <2>1. f.key \in DeleteKeys
    BY <1>1, <1>4, <1>7 DEF DeleteJournal, At
  <2>2. PICK n : n = [f EXCEPT !.pc = "delete_load"]
    OBVIOUS
  <2>3. FrameOK(n)
    BY <1>1, <2>1, <2>2, MovedFields DEF Pcs, FrameOK, CreateFrameOK, DeleteFrameOK, SeenFrameOK
  <2> QED BY <1>0, <1>1, <1>3, <1>7, <2>1, <2>2, <2>3, ReadGoto, ReadRaise DEF DeleteJournal
<1>8. CASE DeleteLoad(w)
  <2>1. f.key \in DeleteKeys
    BY <1>1, <1>4, <1>8 DEF DeleteLoad, At
  <2>2. CASE graph.ver = 0
    BY <1>0, <1>8, <2>2, ReadRaise DEF DeleteLoad
  <2>3. CASE graph.ver # 0
    <3>1. FrameOK(Frame("resolve", NoKey, graph))
      BY <2>3, ResolveFrame
    <3>2. PICK n : n = [f EXCEPT !.pc = "deleting"]
      OBVIOUS
    <3>3. FrameOK(n) /\ n.pc \in Waiting
      BY <1>1, <2>1, <3>2, MovedFields DEF Pcs, Waiting, FrameOK, CreateFrameOK, DeleteFrameOK, SeenFrameOK
    <3> QED BY <1>0, <1>1, <1>8, <2>3, <3>1, <3>2, <3>3, ReadCall DEF DeleteLoad
  <2> QED BY <2>2, <2>3
<1>9. CASE DeleteReplan(w)
  <2>1. f.key \in DeleteKeys
    BY <1>1, <1>4, <1>9 DEF DeleteReplan, At
  <2> QED BY <1>0, <1>1, <1>3, <1>9, <2>1, ReadGoto, ReadRaise DEF DeleteReplan
<1> QED BY <1>5, <1>6, <1>7, <1>8, <1>9

\* _resolve_loaded_graph.
LEMMA ResolveReads ==
    ASSUME StoreInv, NEW w \in Workers, Resolve(w) \/ Resolved(w) \/ ResolvedGone(w)
    PROVE  StoreInv'
<1>0. stack[w] # <<>> /\ Still
  BY DEF Resolve, Resolved, ResolvedGone, At, ReadOnly, NoEffect, Still
<1>1. PICK f : f = Top(w) /\ FrameOK(f) /\ f \in FrameSet
  BY <1>0, TopFrame
<1>2. SeenOK(f.seen) /\ SeenOK(NoGraph) /\ NoGraph.fence = NoFence
  BY <1>1, NewFrame DEF FrameOK, NoGraph
<1>3. CASE Resolved(w)
  <2>1. f.seen.fence = NoFence
    BY <1>1, <1>3 DEF Resolved, At, FrameOK, SeenFrameOK
  <2> QED BY <1>0, <1>1, <1>2, <1>3, <2>1, ReadReturn DEF Resolved
<1>4. CASE ResolvedGone(w)
  BY <1>0, <1>2, <1>4, ReadReturn DEF ResolvedGone
<1>5. CASE Resolve(w)
  <2> DEFINE g == f.seen
  <2>1. g.ver # 0 /\ g.key \in CreateKeys /\ (g.fence # NoFence => g.fence.key \in DeleteKeys)
    BY <1>1, <1>2, <1>5 DEF Resolve, At, FrameOK, SeenFrameOK, SeenOK
  <2>2. CASE g.fence # NoFence /\ dj[g.fence.key].ver # 0
    <3> DEFINE k == g.fence.key
    <3>1. PICK b : b = Frame("resume_delete", k, NoGraph)
      OBVIOUS
    <3>2. PICK j : j = dj[k] /\ DeleteOK(j) /\ j \in DeleteSet /\ j.ver # 0
      BY <2>1, <2>2 DEF StoreInv, JournalsOK
    <3>3. PICK m : m = [b EXCEPT !.d = j]
      OBVIOUS
    <3>4. m \in FrameSet /\ m.pc = "resume_delete" /\ m.key = k /\ m.seen = NoGraph /\ m.c = NoCreate /\ m.d = j
      <4>1. NoGraph \in GraphSet /\ NoCreate \in CreateSet
        BY NewFrame DEF SeenOK, CreateOK
      <4> QED BY <2>1, <2>2, <3>1, <3>2, <3>3, <4>1 DEF Frame, FrameSet, Pcs
    <3>5. FrameOK(m)
      BY <2>1, <2>2, <3>2, <3>4, NewFrame DEF FrameOK, CreateFrameOK, DeleteFrameOK, SeenFrameOK
    <3>6. PICK n : n = [f EXCEPT !.pc = "resolved_gone"]
      OBVIOUS
    <3>7. FrameOK(n) /\ n.pc \in Waiting
      BY <1>1, <3>6, MovedFields DEF Pcs, Waiting, FrameOK, CreateFrameOK, DeleteFrameOK, SeenFrameOK
    <3>8. Call(w, n, m)
      BY <1>1, <1>5, <2>2, <3>1, <3>2, <3>3, <3>6 DEF Resolve
    <3> QED BY <1>0, <3>5, <3>7, <3>8, ReadCall
  <2>3. CASE g.fence = NoFence /\ cj[g.key].ver # 0 /\ ~cj[g.key].done
             /\ ~Raise(w)
    <3> DEFINE k == g.key
    <3>1. PICK b : b = Frame("resume_create", k, NoGraph)
      OBVIOUS
    <3>2. PICK j : j = cj[k] /\ CreateOK(j) /\ j \in CreateSet /\ j.ver # 0
      BY <2>1, <2>3 DEF StoreInv, JournalsOK
    <3>3. PICK m : m = [b EXCEPT !.c = j]
      OBVIOUS
    <3>4. m \in FrameSet /\ m.pc = "resume_create" /\ m.key = k /\ m.seen = NoGraph /\ m.c = j /\ m.d = NoDelete
      <4>1. NoGraph \in GraphSet /\ NoDelete \in DeleteSet
        BY NewFrame DEF SeenOK, DeleteOK
      <4> QED BY <2>1, <3>1, <3>2, <3>3, <4>1 DEF Frame, FrameSet, Pcs
    <3>5. FrameOK(m)
      BY <2>1, <3>2, <3>4, NewFrame DEF FrameOK, CreateFrameOK, DeleteFrameOK, SeenFrameOK
    <3>6. PICK n : n = [f EXCEPT !.pc = "resolved"]
      OBVIOUS
    <3>7. FrameOK(n) /\ n.pc \in Waiting
      BY <1>1, <2>3, <3>6, MovedFields DEF Pcs, Waiting, FrameOK, CreateFrameOK, DeleteFrameOK, SeenFrameOK
    <3>8. Call(w, n, m)
      BY <1>1, <1>5, <2>3, <3>1, <3>2, <3>3, <3>6 DEF Resolve
    <3> QED BY <1>0, <3>5, <3>7, <3>8, ReadCall
  <2>4. CASE g.fence = NoFence /\ Return(w, g)
    BY <1>0, <1>2, <2>4, ReadReturn
  <2>5. CASE Raise(w)
    BY <1>0, <2>5, ReadRaise
  <2> QED BY <1>1, <1>5, <2>2, <2>3, <2>4, <2>5 DEF Resolve
<1> QED BY <1>3, <1>4, <1>5

\* The readings of _resume_create and _resume_delete.
LEMMA ResumeReads ==
    ASSUME StoreInv, NEW w \in Workers, CreateReread(w) \/ CreateReload(w) \/ DeleteReload(w)
    PROVE  StoreInv'
<1>0. stack[w] # <<>> /\ Still
  BY DEF CreateReread, CreateReload, DeleteReload, At, ReadOnly, NoEffect, Still
<1>1. PICK f : f = Top(w) /\ FrameOK(f) /\ f \in FrameSet
  BY <1>0, TopFrame
<1>2. CASE CreateReread(w)
  <2>1. PICK g : g = graph /\ SeenOK(g) /\ g \in GraphSet
    BY DEF StoreInv, GraphOK, SeenOK
  <2>2. PICK n : n = [f EXCEPT !.pc = "rc_check", !.seen = g]
    OBVIOUS
  <2>3. n \in FrameSet /\ n.pc = "rc_check" /\ n.key = f.key /\ n.seen = g /\ n.c = f.c /\ n.d = f.d
    BY <1>1, <2>1, <2>2 DEF FrameSet, Pcs
  <2>4. f.pc = "rc_reread"
    BY <1>1, <1>2 DEF CreateReread, At
  <2>5. g.ver # 0 => FrameOK(n)
    BY <1>1, <2>1, <2>3, <2>4 DEF FrameOK, CreateFrameOK, DeleteFrameOK, SeenFrameOK
  <2> QED BY <1>0, <1>1, <1>2, <2>1, <2>2, <2>5, ReadGoto, ReadRaise DEF CreateReread
<1>3. CASE CreateReload(w)
  <2>1. f.key \in CreateKeys
    BY <1>1, <1>3 DEF CreateReload, At, FrameOK, CreateFrameOK
  <2> QED BY <1>0, <1>1, <1>3, <2>1, FollowCreate, ReadGoto, ReadRaise DEF CreateReload
<1>4. CASE DeleteReload(w)
  <2>1. f.key \in DeleteKeys /\ f.pc \in {"rd_reload", "rd_refinish"}
    BY <1>1, <1>4 DEF DeleteReload, At, FrameOK, DeleteFrameOK
  <2>2. f.pc = "rd_refinish" => f.d.expected \in removed
    BY <1>1 DEF FrameOK, SeenFrameOK
  <2>3. CASE dj[f.key].ver # 0 /\ dj[f.key].expected = f.d.expected
    <3>1. PICK p \in {"resume_delete", "rd_finish"} :
            /\ Goto(w, [f EXCEPT !.pc = p, !.d = dj[f.key]])
            /\ p = "rd_finish" => f.pc = "rd_refinish" /\ ~dj[f.key].done
      BY <1>1, <1>4, <2>1, <2>3 DEF DeleteReload
    <3>2. FrameOK([f EXCEPT !.pc = p, !.d = dj[f.key]])
      BY <1>1, <2>1, <2>2, <2>3, <3>1, FollowDelete
    <3> QED BY <1>0, <3>1, <3>2, ReadGoto
  <2>4. CASE Raise(w)
    BY <1>0, <2>4, ReadRaise
  <2> QED BY <1>1, <1>4, <2>3, <2>4 DEF DeleteReload
<1> QED BY <1>2, <1>3, <1>4

-----------------------------------------------------------------------------
(* The steps that write: the same, after the objects have evolved. *)

\* Objects that a step leaves alone stay right, and so do the answers.
LEMMA JournalsStay ==
    ASSUME StoreInv, Evolves, cj' \in [CreateKeys -> CreateSet], dj' \in [DeleteKeys -> DeleteSet],
           \A k \in CreateKeys : \A j \in {cj'[k]} :
             j = cj[k] \/ j = NoCreate \/ (CreateOK(j)' /\ j.ver # 0),
           \A k \in DeleteKeys : \A j \in {dj'[k]} :
             j = dj[k] \/ j = NoDelete \/ (DeleteOK(j)' /\ j.ver # 0)
    PROVE  JournalsOK'
<1>1. version \in Nat
  BY DEF StoreInv, MadeOK
<1>2. CreateOK(NoCreate)' /\ DeleteOK(NoDelete)'
  BY <1>1, NewFrame, CreateStays, DeleteStays
<1> QED BY <1>1, <1>2, CreateStays, DeleteStays DEF StoreInv, JournalsOK

\* Answers stay justified when each new one is a put's or has its finished journal.
LEMMA AnswersStay ==
    ASSUME StoreInv, Evolves,
           \A a \in answers' : \/ a \in answers
                               \/ a.op = "put" /\ a.key = NoKey
                               \/ a.op = "create" /\ a.key \in CreateKeys /\ cj'[a.key].done /\ cj'[a.key].result = a.rev
                               \/ a.op = "delete" /\ a.key \in DeleteKeys /\ dj'[a.key].done /\ dj'[a.key].expected = a.rev
    PROVE  AnswersOK'
BY DEF StoreInv, AnswersOK, Evolves

\* The graph object stays accounted for when it is kept or removed.
LEMMA GraphStays ==
    ASSUME StoreInv, Evolves, graph' \in {graph, NoGraph}
    PROVE  GraphOK'
<1>1. version \in Nat
  BY DEF StoreInv, MadeOK
<1> QED BY <1>1, NewFrame, SeenStays DEF StoreInv, GraphOK

\* The catalogue changes recorded so far stay well formed.
LEMMA MadeStays ==
    ASSUME StoreInv, Evolves, made' = made, removed' = removed
    PROVE  MadeOK'
BY DEF StoreInv, MadeOK, Evolves, Revisions

\* A step that writes one object and moves its own frame on.
LEMMA WriteGoto ==
    ASSUME StoreInv, Evolves, MadeOK', GraphOK', JournalsOK', AnswersOK',
           NEW w \in Workers, stack[w] # <<>>, NEW n, FrameOK(n)', Goto(w, n)
    PROVE  StoreInv'
<1>1. version \in Nat
  BY DEF StoreInv, MadeOK
<1>2. PICK s : s = stack[w] /\ StackIsRight(s) /\ s \in Seq(FrameSet)
  BY TopFrame DEF StackIsRight
<1>3. StackIsRight(s)' /\ n \in FrameSet
  BY <1>1, <1>2, StackStays DEF FrameOK
<1>4. PICK t : t = Replaced(s, n)
  OBVIOUS
<1>5. /\ t \in Seq(FrameSet) /\ Len(t) = Len(s)
      /\ \A i \in 1 .. Len(s) : t[i] = IF i = Len(s) THEN n ELSE s[i]
  <2>1. Len(s) \in 1 .. Len(s)
    BY <1>2
  <2> QED BY <1>2, <1>3, <1>4, <2>1, ExceptSeq DEF Replaced
<1>6. Len(s) \in Nat
  BY <1>2
<1>7. StackIsRight(t)'
  BY <1>3, <1>5, <1>6 DEF StackIsRight
<1> QED BY <1>2, <1>4, <1>7, EvolvingStep DEF Goto

\* A step that writes one object and raises.
LEMMA WriteRaise ==
    ASSUME StoreInv, Evolves, MadeOK', GraphOK', JournalsOK', AnswersOK', NEW w \in Workers, Raise(w)
    PROVE  StoreInv'
<1>1. StackIsRight(<<>>)'
  BY DEF StackIsRight
<1> QED BY <1>1, EvolvingStep DEF Raise

\* A step that writes one object and returns to the frame below.
LEMMA WritePop ==
    ASSUME StoreInv, Evolves, MadeOK', GraphOK', JournalsOK', AnswersOK',
           NEW w \in Workers, stack[w] # <<>>, stack' = [stack EXCEPT ![w] = Popped(@)]
    PROVE  StoreInv'
<1>1. version \in Nat
  BY DEF StoreInv, MadeOK
<1>2. PICK t : t = Popped(stack[w]) /\ StackIsRight(t)
  BY TopFrame, PopFrame
<1>3. StackIsRight(t)'
  BY <1>1, <1>2, StackStays
<1>4. stack' = [stack EXCEPT ![w] = t]
  BY <1>2 DEF StoreInv
<1> QED BY <1>3, <1>4, EvolvingStep

\* The next version is new to everyone.
LEMMA NextVersion ==
    ASSUME StoreInv
    PROVE  version \in Nat /\ Next1 \in Nat /\ Next1 > version /\ Next1 # 0 /\ Next1 \notin Revisions
BY DEF StoreInv, MadeOK, Next1, Revisions

\* A request arrives, or its worker dies.
LEMMA RequestStep ==
    ASSUME StoreInv, NEW w \in Workers, Request(w) \/ Crash(w)
    PROVE  StoreInv'
<1>1. CASE Crash(w)
  BY <1>1, ReadRaise DEF Crash, Still
<1>2. ASSUME NEW f, FrameOK(f), Begin(w, f) PROVE StoreInv'
  <2>1. StackIsRight(<<f>>)
    BY <1>2 DEF StackIsRight, FrameOK
  <2> QED BY <1>2, <2>1, ReadingStep DEF Begin, Still
<1>3. ASSUME NEW b, NEW p \in {"create", "put", "delete", "get"},
             NEW k \in CreateKeys \union DeleteKeys \union {NoKey},
             b = Frame(p, k, NoGraph), p = "create" => k \in CreateKeys, p = "delete" => k \in DeleteKeys
      PROVE  /\ FrameOK(b)
             /\ \A d \in Docs : FrameOK([b EXCEPT !.req = d])
             /\ \A r \in Nat : FrameOK([b EXCEPT !.expected = r])
  <2>1. NoGraph \in GraphSet /\ NoCreate \in CreateSet /\ NoDelete \in DeleteSet /\ NoGraph.fence = NoFence
    BY NewFrame DEF SeenOK, CreateOK, DeleteOK, NoGraph
  <2>2. b \in FrameSet /\ b.pc = p /\ b.key = k /\ b.seen = NoGraph /\ b.c = NoCreate /\ b.d = NoDelete
    BY <1>3, <2>1 DEF Frame, FrameSet, Pcs
  <2>3. ASSUME NEW n \in FrameSet, n.pc = p, n.key = k, n.seen = NoGraph, n.c = NoCreate, n.d = NoDelete
        PROVE  FrameOK(n)
    BY <1>3, <2>1, <2>3, NewFrame DEF FrameOK, CreateFrameOK, DeleteFrameOK, SeenFrameOK
  <2>4. ASSUME NEW d \in Docs PROVE FrameOK([b EXCEPT !.req = d])
    <3>1. PICK n : n = [b EXCEPT !.req = d]
      OBVIOUS
    <3>2. n \in FrameSet /\ n.pc = p /\ n.key = k /\ n.seen = NoGraph /\ n.c = NoCreate /\ n.d = NoDelete
      BY <2>2, <3>1 DEF FrameSet
    <3> QED BY <2>3, <3>1, <3>2
  <2>5. ASSUME NEW r \in Nat PROVE FrameOK([b EXCEPT !.expected = r])
    <3>1. PICK n : n = [b EXCEPT !.expected = r]
      OBVIOUS
    <3>2. n \in FrameSet /\ n.pc = p /\ n.key = k /\ n.seen = NoGraph /\ n.c = NoCreate /\ n.d = NoDelete
      BY <2>2, <3>1 DEF FrameSet
    <3> QED BY <2>3, <3>1, <3>2
  <2> QED BY <2>2, <2>3, <2>4, <2>5
<1>4. Revisions \subseteq Nat
  BY DEF StoreInv, MadeOK, Revisions
<1>5. ASSUME NEW k \in CreateKeys, NEW d \in Docs,
             Begin(w, [Frame("create", k, NoGraph) EXCEPT !.req = d])
      PROVE  StoreInv'
  BY <1>2, <1>3, <1>5
<1>6. ASSUME NEW r \in Revisions, Begin(w, [Frame("put", NoKey, NoGraph) EXCEPT !.expected = r])
      PROVE  StoreInv'
  BY <1>2, <1>3, <1>4, <1>6
<1>7. ASSUME NEW k \in DeleteKeys, NEW r \in Revisions,
             Begin(w, [Frame("delete", k, NoGraph) EXCEPT !.expected = r])
      PROVE  StoreInv'
  BY <1>2, <1>3, <1>4, <1>7
<1>8. CASE Begin(w, Frame("get", NoKey, NoGraph))
  BY <1>2, <1>3, <1>8
<1> QED BY <1>1, <1>5, <1>6, <1>7, <1>8 DEF Request

\* A request is answered, or an inner frame hands back, with its journal done.
LEMMA FinishStep ==
    ASSUME StoreInv, Evolves, MadeOK', GraphOK', JournalsOK', NEW w \in Workers, stack[w] # <<>>,
           NEW op \in {"create", "delete"}, NEW rev, NEW k, k = Top(w).key, Finish(w, op, rev),
           op = "create" => k \in CreateKeys /\ cj'[k].done /\ cj'[k].result = rev,
           op = "delete" => k \in DeleteKeys /\ dj'[k].done /\ dj'[k].expected = rev
    PROVE  StoreInv'
<1>1. CASE Raise(w) /\ Succeed(op, k, rev, 0)
  <2>1. AnswersOK'
    BY <1>1, AnswersStay DEF Succeed
  <2> QED BY <1>1, <2>1, WriteRaise
<1>2. CASE stack' = [stack EXCEPT ![w] = Popped(@)] /\ UNCHANGED answers
  <2>1. AnswersOK'
    BY <1>2, AnswersStay
  <2> QED BY <1>2, <2>1, WritePop
<1> QED BY <1>1, <1>2 DEF Finish

\* A step that changes no object.
LEMMA NothingEvolves ==
    ASSUME StoreInv, NoEffect
    PROVE  Evolves /\ MadeOK' /\ GraphOK' /\ JournalsOK'
<1>1. Evolves
  BY DEF StoreInv, MadeOK, Evolves, NoEffect
<1>2. JournalsOK'
  BY <1>1, JournalsStay DEF StoreInv, JournalsOK, NoEffect
<1> QED BY <1>1, <1>2, MadeStays, GraphStays DEF NoEffect

\* _resume_create: a completed journal is replayed, a pending one is followed.
LEMMA ResumeCreateStep ==
    ASSUME StoreInv, NEW w \in Workers, ResumeCreate(w)
    PROVE  StoreInv'
<1>0. stack[w] # <<>> /\ NoEffect /\ Evolves /\ MadeOK' /\ GraphOK' /\ JournalsOK'
  BY NothingEvolves DEF ResumeCreate, At
<1>1. PICK f : f = Top(w) /\ FrameOK(f) /\ f \in FrameSet
  BY <1>0, TopFrame
<1>2. f.pc = "resume_create" /\ f.key \in CreateKeys
  BY <1>1 DEF ResumeCreate, At, FrameOK, CreateFrameOK
<1>3. CASE f.c.done
  <2>1. cj[f.key] = f.c
    BY <1>1, <1>2, <1>3 DEF FrameOK, CreateFrameOK
  <2> QED BY <1>0, <1>1, <1>2, <1>3, <2>1, FinishStep DEF ResumeCreate, NoEffect
<1>4. CASE ~f.c.done
  <2>1. PICK g : g = graph /\ SeenOK(g) /\ g \in GraphSet
    BY DEF StoreInv, GraphOK, SeenOK
  <2>2. PICK p \in {"rc_write", "rc_check"} :
           Goto(w, [f EXCEPT !.pc = p, !.seen = g]) /\ (p = "rc_check" => g.ver # 0)
    BY <1>1, <1>4, <2>1 DEF ResumeCreate
  <2>3. PICK n : n = [f EXCEPT !.pc = p, !.seen = g]
    OBVIOUS
  <2>4. n \in FrameSet /\ n.pc = p /\ n.key = f.key /\ n.seen = g /\ n.c = f.c /\ n.d = f.d
    BY <1>1, <2>1, <2>3 DEF FrameSet, Pcs
  <2>5. FrameOK(n)
    BY <1>1, <1>2, <1>4, <2>1, <2>2, <2>4 DEF FrameOK, CreateFrameOK, DeleteFrameOK, SeenFrameOK
  <2>6. Still
    BY <1>0, <1>1, <1>4 DEF ResumeCreate, NoEffect, Still
  <2> QED BY <1>0, <2>2, <2>3, <2>5, <2>6, ReadGoto
<1> QED BY <1>3, <1>4

\* create writes its pending journal.
LEMMA CreatePlanStep ==
    ASSUME StoreInv, NEW w \in Workers, CreatePlan(w)
    PROVE  StoreInv'
<1>0. stack[w] # <<>> /\ UNCHANGED <<graph, dj, made, removed, answers>>
  BY DEF CreatePlan, At
<1>1. PICK f : f = Top(w) /\ FrameOK(f) /\ f \in FrameSet
  BY <1>0, TopFrame
<1>2. f.pc = "plan" /\ f.key \in CreateKeys
  BY <1>1 DEF CreatePlan, At, FrameOK, CreateFrameOK
<1>3. CASE cj[f.key].ver = 0
  <2>1. PICK j : j = [ver |-> Next1, done |-> FALSE, req |-> f.req, plan |-> Next1, result |-> 0]
    OBVIOUS
  <2>2. version' = Next1 /\ cj' = [cj EXCEPT ![f.key] = j]
        /\ Goto(w, [f EXCEPT !.pc = "resume_create", !.c = j])
    BY <1>1, <1>3, <2>1 DEF CreatePlan
  <2>3. j \in CreateSet /\ j.ver = Next1 /\ ~j.done
    BY <1>1, <2>1, NextVersion DEF CreateSet, FrameSet
  <2>4. ~cj[f.key].done
    BY <1>2, <1>3 DEF StoreInv, JournalsOK, NoCreate
  <2>5. cj' \in [CreateKeys -> CreateSet] /\ cj'[f.key] = j /\ \A k \in CreateKeys \ {f.key} : cj'[k] = cj[k]
    BY <1>2, <2>2, <2>3 DEF StoreInv, JournalsOK
  <2>6. Evolves
    BY <1>0, <1>2, <2>2, <2>3, <2>4, <2>5, NextVersion DEF Evolves
  <2>7. CreateOK(j)'
    BY <2>2, <2>3, NextVersion DEF CreateOK
  <2>8. JournalsOK'
    BY <1>0, <1>2, <2>3, <2>5, <2>6, <2>7, NextVersion, JournalsStay DEF StoreInv, JournalsOK
  <2>9. PICK n : n = [f EXCEPT !.pc = "resume_create", !.c = j]
    OBVIOUS
  <2>10. n \in FrameSet /\ n.pc = "resume_create" /\ n.key = f.key /\ n.seen = f.seen /\ n.c = j /\ n.d = f.d
    BY <1>1, <2>3, <2>9 DEF FrameSet, Pcs
  <2>11. FrameOK(f)'
    BY <1>1, <2>6, NextVersion, FrameStays
  <2>12. FrameOK(n)'
    BY <1>2, <2>3, <2>5, <2>7, <2>10, <2>11, NextVersion DEF FrameOK, CreateFrameOK, DeleteFrameOK, SeenFrameOK
  <2> QED BY <1>0, <2>2, <2>6, <2>8, <2>9, <2>12, MadeStays, GraphStays, AnswersStay, WriteGoto
<1>4. CASE cj[f.key].ver # 0
  <2>1. PICK n : n = [f EXCEPT !.pc = "replan"]
    OBVIOUS
  <2>2. FrameOK(n)
    BY <1>1, <1>2, <2>1, MovedFields DEF Pcs, FrameOK, CreateFrameOK, DeleteFrameOK, SeenFrameOK
  <2> QED BY <1>0, <1>1, <1>4, <2>1, <2>2, ReadGoto DEF CreatePlan, Still
<1> QED BY <1>3, <1>4

\* The planned graph is written where there is none.
LEMMA CreateGraphStep ==
    ASSUME StoreInv, NEW w \in Workers, CreateGraph(w)
    PROVE  StoreInv'
<1>0. stack[w] # <<>> /\ UNCHANGED <<cj, dj, removed, answers>>
  BY DEF CreateGraph, At
<1>1. PICK f : f = Top(w) /\ FrameOK(f) /\ f \in FrameSet
  BY <1>0, TopFrame
<1>2. f.pc = "rc_write" /\ f.key \in CreateKeys
  BY <1>1 DEF CreateGraph, At, FrameOK, CreateFrameOK
<1>3. CASE graph.ver = 0
  <2>1. PICK g : g = [ver |-> Next1, key |-> f.key, req |-> f.c.req, plan |-> f.c.plan,
                      edited |-> FALSE, fence |-> NoFence]
    OBVIOUS
  <2>2. /\ version' = Next1 /\ graph' = g
        /\ made' = made \union {[op |-> "create", rev |-> Next1, plan |-> f.c.plan, from |-> 0]}
        /\ Goto(w, [f EXCEPT !.pc = "rc_check", !.seen = g])
    BY <1>1, <1>3, <2>1 DEF CreateGraph
  <2>3. g \in GraphSet /\ g.ver = Next1 /\ g.key = f.key /\ g.fence = NoFence
    BY <1>1, <1>2, <2>1, NextVersion DEF GraphSet, FrameSet, CreateSet, NoFence
  <2>4. Evolves
    BY <1>0, <2>2, <2>3, NextVersion DEF Evolves
  <2>5. Next1 \in Revisions' /\ Next1 \in Created'
    <3>1. PICK m : m = [op |-> "create", rev |-> Next1, plan |-> f.c.plan, from |-> 0]
      OBVIOUS
    <3>2. m \in made' /\ m.op = "create" /\ m.rev = Next1
      BY <2>2, <3>1
    <3> QED BY <3>2 DEF Revisions, Created, By
  <2>6. SeenOK(g)'
    BY <1>2, <2>2, <2>3, <2>5, NextVersion DEF SeenOK
  <2>7. GraphOK'
    BY <2>2, <2>6 DEF GraphOK
  <2>8. MadeOK'
    BY <1>0, <2>2, <2>4, NextVersion, RevisionsGrow DEF StoreInv, MadeOK
  <2>9. JournalsOK'
    BY <1>0, <2>4, JournalsStay DEF StoreInv, JournalsOK
  <2>10. PICK n : n = [f EXCEPT !.pc = "rc_check", !.seen = g]
    OBVIOUS
  <2>11. n \in FrameSet /\ n.pc = "rc_check" /\ n.key = f.key /\ n.seen = g /\ n.c = f.c /\ n.d = f.d
    BY <1>1, <2>3, <2>10 DEF FrameSet, Pcs
  <2>12. FrameOK(f)'
    BY <1>1, <2>4, NextVersion, FrameStays
  <2>13. FrameOK(n)'
    BY <1>2, <2>3, <2>6, <2>11, <2>12, NextVersion DEF FrameOK, CreateFrameOK, DeleteFrameOK, SeenFrameOK
  <2> QED BY <1>0, <2>2, <2>4, <2>7, <2>8, <2>9, <2>10, <2>13, AnswersStay, WriteGoto
<1>4. CASE graph.ver # 0
  <2>1. PICK n : n = [f EXCEPT !.pc = "rc_reread"]
    OBVIOUS
  <2>2. FrameOK(n)
    BY <1>1, <1>2, <2>1, MovedFields DEF Pcs, FrameOK, CreateFrameOK, DeleteFrameOK, SeenFrameOK
  <2> QED BY <1>0, <1>1, <1>4, <2>1, <2>2, ReadGoto DEF CreateGraph, Still
<1> QED BY <1>3, <1>4

\* The create is checked against the graph that was read: given back, followed
\* as somebody completed it, or completed.
LEMMA CreateCheckStep ==
    ASSUME StoreInv, NEW w \in Workers, CreateCheck(w)
    PROVE  StoreInv'
<1>0. stack[w] # <<>> /\ UNCHANGED <<graph, dj, made, removed>>
  BY DEF CreateCheck, At
<1>1. PICK f : f = Top(w) /\ FrameOK(f) /\ f \in FrameSet
  BY <1>0, TopFrame
<1>2. f.pc = "rc_check" /\ f.key \in CreateKeys
  BY <1>1 DEF CreateCheck, At, FrameOK, CreateFrameOK
<1>3. f.c.ver # 0 /\ ~f.c.done /\ (cj[f.key].ver = f.c.ver => cj[f.key] = f.c)
  BY <1>1, <1>2 DEF FrameOK, CreateFrameOK
<1>4. CASE /\ Raise(w) /\ UNCHANGED <<version, answers>>
           /\ cj' = IF cj[f.key].ver = f.c.ver THEN [cj EXCEPT ![f.key] = NoCreate] ELSE cj
  <2>1. NoCreate \in CreateSet /\ version \in Nat
    BY NewFrame, NextVersion DEF CreateOK
  <2>2. /\ cj' \in [CreateKeys -> CreateSet]
        /\ \A k \in CreateKeys : cj'[k] = cj[k] \/ (cj'[k] = NoCreate /\ ~cj[k].done)
    BY <1>2, <1>3, <1>4, <2>1 DEF StoreInv, JournalsOK
  <2>3. Evolves
    BY <1>0, <1>4, <2>1, <2>2 DEF Evolves
  <2>4. JournalsOK'
    BY <1>0, <2>2, <2>3, JournalsStay DEF StoreInv, JournalsOK
  <2> QED BY <1>0, <1>4, <2>3, <2>4, MadeStays, GraphStays, AnswersStay, WriteRaise
<1>5. CASE UNCHANGED <<cj, version, answers>>
  <2>1. Still
    BY <1>0, <1>5 DEF Still
  <2>2. PICK n : n = [f EXCEPT !.pc = "rc_reload"]
    OBVIOUS
  <2>3. FrameOK(n)
    BY <1>1, <1>2, <2>2, MovedFields DEF Pcs, FrameOK, CreateFrameOK, DeleteFrameOK, SeenFrameOK
  <2>4. CASE Raise(w)
    BY <2>1, <2>4, ReadRaise
  <2>5. CASE Goto(w, n)
    BY <1>0, <2>1, <2>3, <2>5, ReadGoto
  <2>6. CASE cj[f.key].ver # 0 /\ Goto(w, [f EXCEPT !.pc = "resume_create", !.c = cj[f.key]])
    BY <1>0, <1>1, <1>2, <2>1, <2>6, FollowCreate, ReadGoto
  <2>7. Next1 # version
    BY NextVersion
  <2> QED BY <1>1, <1>5, <2>2, <2>4, <2>5, <2>6, <2>7 DEF CreateCheck
<1>6. CASE /\ IsPlanned(f.seen, f.c) /\ cj[f.key].ver = f.c.ver /\ version' = Next1
           /\ cj' = [cj EXCEPT ![f.key] = [@ EXCEPT !.ver = Next1, !.done = TRUE, !.result = f.seen.ver]]
           /\ Finish(w, "create", f.seen.ver)
  <2>1. f.seen.ver \in Created /\ f.seen.ver \in Nat
    BY <1>1, <1>2, <1>6 DEF FrameOK, SeenFrameOK, SeenOK, IsPlanned, GraphSet
  <2>2. PICK j : j = [cj[f.key] EXCEPT !.ver = Next1, !.done = TRUE, !.result = f.seen.ver]
    OBVIOUS
  <2>3. j \in CreateSet /\ j.ver = Next1 /\ j.done /\ j.result = f.seen.ver
    <3>1. cj[f.key] \in CreateSet
      BY <1>2 DEF StoreInv, JournalsOK
    <3> QED BY <2>1, <2>2, <3>1, NextVersion DEF CreateSet
  <2>4. cj' \in [CreateKeys -> CreateSet] /\ cj'[f.key] = j /\ \A k \in CreateKeys \ {f.key} : cj'[k] = cj[k]
    BY <1>2, <1>6, <2>2, <2>3 DEF StoreInv, JournalsOK
  <2>5. Evolves
    BY <1>0, <1>2, <1>3, <1>6, <2>3, <2>4, NextVersion DEF Evolves
  <2>6. CreateOK(j)'
    BY <1>6, <2>1, <2>3, <2>5, NextVersion, RevisionsGrow DEF CreateOK
  <2>7. JournalsOK'
    BY <1>0, <1>2, <2>3, <2>4, <2>5, <2>6, NextVersion, JournalsStay DEF StoreInv, JournalsOK
  <2>8. cj'[f.key].done /\ cj'[f.key].result = f.seen.ver
    BY <2>3, <2>4
  <2> QED BY <1>0, <1>1, <1>2, <1>6, <2>5, <2>7, <2>8, MadeStays, GraphStays, FinishStep
<1> QED BY <1>1, <1>4, <1>5, <1>6 DEF CreateCheck, JournalUnchanged

\* put replaces the very graph its worker has read.
LEMMA PutStep ==
    ASSUME StoreInv, NEW w \in Workers, Put(w)
    PROVE  StoreInv'
<1>0. stack[w] # <<>> /\ UNCHANGED <<cj, dj, removed>> /\ Raise(w)
  BY DEF Put, At
<1>1. PICK f : f = Top(w) /\ FrameOK(f) /\ f \in FrameSet
  BY <1>0, TopFrame
<1>2. CASE PutWrites(f)
  <2>1. f.seen = graph /\ graph.ver # 0 /\ graph.fence = NoFence /\ graph \in GraphSet /\ graph.key \in CreateKeys
    BY <1>1, <1>2 DEF Put, At, PutWrites, FrameOK, SeenFrameOK, SeenOK
  <2>2. PICK g : g = [graph EXCEPT !.ver = Next1, !.edited = TRUE]
    OBVIOUS
  <2>3. PICK m : m = [op |-> "put", rev |-> Next1, plan |-> graph.plan, from |-> graph.ver]
    OBVIOUS
  <2>4. version' = Next1 /\ graph' = g /\ made' = made \union {m} /\ Succeed("put", NoKey, Next1, f.expected)
    BY <1>1, <1>2, <2>1, <2>2, <2>3 DEF Put
  <2>5. g \in GraphSet /\ g.ver = Next1 /\ g.edited /\ g.fence = NoFence /\ g.key \in CreateKeys
    BY <2>1, <2>2, NextVersion DEF GraphSet
  <2>6. Evolves
    BY <1>0, <2>4, <2>5, NextVersion DEF Evolves
  <2>7. Next1 \in Revisions' /\ m.op = "put" /\ m.rev = Next1
    BY <2>3, <2>4 DEF Revisions
  <2>8. SeenOK(g)'
    BY <2>4, <2>5, <2>7, NextVersion DEF SeenOK
  <2>9. GraphOK'
    BY <2>4, <2>8 DEF GraphOK
  <2>10. MadeOK'
    BY <1>0, <2>4, <2>6, <2>7, NextVersion, RevisionsGrow DEF StoreInv, MadeOK
  <2>11. JournalsOK'
    BY <1>0, <2>6, JournalsStay DEF StoreInv, JournalsOK
  <2>12. AnswersOK'
    BY <2>4, <2>6, AnswersStay DEF Succeed
  <2> QED BY <1>0, <2>6, <2>9, <2>10, <2>11, <2>12, WriteRaise
<1>3. CASE ~PutWrites(f)
  BY <1>0, <1>1, <1>3, ReadRaise DEF Put, Still
<1> QED BY <1>2, <1>3

\* delete writes its pending journal.
LEMMA DeletePlanStep ==
    ASSUME StoreInv, NEW w \in Workers, DeletePlan(w)
    PROVE  StoreInv'
<1>0. stack[w] # <<>> /\ UNCHANGED <<graph, cj, made, removed, answers>>
  BY DEF DeletePlan, At
<1>1. PICK f : f = Top(w) /\ FrameOK(f) /\ f \in FrameSet
  BY <1>0, TopFrame
<1>2. f.pc = "deleting" /\ f.key \in DeleteKeys
  BY <1>1 DEF DeletePlan, At, FrameOK, DeleteFrameOK
<1>3. PICK j : j = [ver |-> Next1, done |-> FALSE, expected |-> f.expected, fence |-> 0]
  OBVIOUS
<1>4. CASE /\ dj[f.key].ver = 0 /\ version' = Next1 /\ dj' = [dj EXCEPT ![f.key] = j]
           /\ Goto(w, [f EXCEPT !.pc = "resume_delete", !.d = j])
  <2>1. j \in DeleteSet /\ j.ver = Next1 /\ ~j.done /\ j.fence = 0
    BY <1>1, <1>3, NextVersion DEF DeleteSet, FrameSet
  <2>2. ~dj[f.key].done
    BY <1>2, <1>4 DEF StoreInv, JournalsOK, NoDelete
  <2>3. dj' \in [DeleteKeys -> DeleteSet] /\ dj'[f.key] = j /\ \A k \in DeleteKeys \ {f.key} : dj'[k] = dj[k]
    BY <1>2, <1>4, <2>1 DEF StoreInv, JournalsOK
  <2>4. Evolves
    BY <1>0, <1>2, <1>4, <2>1, <2>2, <2>3, NextVersion DEF Evolves
  <2>5. DeleteOK(j)'
    BY <1>4, <2>1, NextVersion DEF DeleteOK
  <2>6. JournalsOK'
    BY <1>0, <1>2, <2>1, <2>3, <2>4, <2>5, NextVersion, JournalsStay DEF StoreInv, JournalsOK
  <2>7. PICK n : n = [f EXCEPT !.pc = "resume_delete", !.d = j]
    OBVIOUS
  <2>8. n \in FrameSet /\ n.pc = "resume_delete" /\ n.key = f.key /\ n.seen = f.seen /\ n.c = f.c /\ n.d = j
    BY <1>1, <2>1, <2>7 DEF FrameSet, Pcs
  <2>9. FrameOK(f)'
    BY <1>1, <2>4, NextVersion, FrameStays
  <2>10. FrameOK(n)'
    BY <1>2, <2>1, <2>3, <2>5, <2>8, <2>9, NextVersion DEF FrameOK, CreateFrameOK, DeleteFrameOK, SeenFrameOK
  <2> QED BY <1>0, <1>4, <2>4, <2>6, <2>7, <2>10, MadeStays, GraphStays, AnswersStay, WriteGoto
<1>5. CASE UNCHANGED <<dj, version>>
  <2>1. PICK n : n = [f EXCEPT !.pc = "replan_delete"]
    OBVIOUS
  <2>2. FrameOK(n)
    BY <1>1, <1>2, <2>1, MovedFields DEF Pcs, FrameOK, CreateFrameOK, DeleteFrameOK, SeenFrameOK
  <2>3. Next1 # version /\ Still
    BY <1>0, <1>5, NextVersion DEF Still
  <2> QED BY <1>0, <1>1, <1>5, <2>1, <2>2, <2>3, ReadGoto, ReadRaise DEF DeletePlan
<1> QED BY <1>1, <1>3, <1>4, <1>5 DEF DeletePlan

\* _resume_delete decides what to do about the graph as it is now.
LEMMA ResumeDeleteStep ==
    ASSUME StoreInv, NEW w \in Workers, ResumeDelete(w)
    PROVE  StoreInv'
<1>0. stack[w] # <<>> /\ NoEffect /\ Evolves /\ MadeOK' /\ GraphOK' /\ JournalsOK'
  BY NothingEvolves DEF ResumeDelete, At
<1>1. PICK f : f = Top(w) /\ FrameOK(f) /\ f \in FrameSet
  BY <1>0, TopFrame
<1>2. f.pc = "resume_delete" /\ f.key \in DeleteKeys
  BY <1>1 DEF ResumeDelete, At, FrameOK, DeleteFrameOK
<1>3. CASE f.d.done
  <2>1. dj[f.key] = f.d
    BY <1>1, <1>2, <1>3 DEF FrameOK, DeleteFrameOK
  <2> QED BY <1>0, <1>1, <1>2, <1>3, <2>1, FinishStep DEF ResumeDelete, NoEffect
<1>4. CASE ~f.d.done
  <2>0. Still
    BY <1>0, <1>1, <1>4 DEF ResumeDelete, NoEffect, Still
  <2>1. PICK g : g = graph /\ SeenOK(g) /\ g \in GraphSet
    BY DEF StoreInv, GraphOK, SeenOK
  <2>2. PICK step : step = DeleteStep(g, f)
    OBVIOUS
  <2>3. f.d.fence # 0 => f.d.expected \in removed
    BY <1>1 DEF FrameOK, DeleteOK
  <2>4. g.fence # NoFence => g.ver # 0 /\ g.fence.expected \in removed
    BY <2>1 DEF SeenOK, NoGraph
  <2>5. CASE step = "help"
    <3>1. g.ver # 0
      BY <2>2, <2>4, <2>5 DEF DeleteStep
    <3>2. PICK m : m = Frame("resolve", NoKey, g) /\ FrameOK(m)
      BY <2>1, <3>1, ResolveFrame
    <3>3. PICK p \in {"rd_finish", "rd_drop"} :
            Call(w, [f EXCEPT !.pc = p], m) /\ (p = "rd_finish" => f.d.fence # 0)
      BY <1>1, <1>4, <2>1, <2>2, <2>5, <3>2 DEF ResumeDelete
    <3>4. PICK n : n = [f EXCEPT !.pc = p]
      OBVIOUS
    <3>5. n \in FrameSet /\ n.pc = p /\ n.key = f.key /\ n.seen = f.seen /\ n.c = f.c /\ n.d = f.d
      BY <1>1, <3>4 DEF FrameSet, Pcs
    <3>6. FrameOK(n) /\ n.pc \in Waiting
      BY <1>1, <1>2, <1>4, <2>3, <3>3, <3>5 DEF Waiting, FrameOK, CreateFrameOK, DeleteFrameOK, SeenFrameOK
    <3> QED BY <1>0, <2>0, <3>2, <3>3, <3>4, <3>6, ReadCall
  <2>6. CASE step # "help"
    <3>1. Goto(w, [f EXCEPT !.pc = step, !.seen = g])
      BY <1>1, <1>4, <2>1, <2>2, <2>6 DEF ResumeDelete
    <3>2. /\ step \in {"rd_erase", "rd_finish", "rd_drop", "rd_fence", "rd_note"}
          /\ step \in {"rd_erase", "rd_finish"} => f.d.fence # 0
          /\ step = "rd_erase" => g.ver = f.d.fence
          /\ step = "rd_fence" => g.ver # 0 /\ g.fence = NoFence /\ g.ver = f.d.expected
          /\ step = "rd_note" => g.fence # NoFence /\ g.fence = [key |-> f.key, expected |-> f.d.expected]
      BY <2>2, <2>6 DEF DeleteStep, Owns
    <3>3. step = "rd_note" => f.d.expected \in removed /\ g.ver # 0
      BY <2>4, <3>2
    <3>4. PICK n : n = [f EXCEPT !.pc = step, !.seen = g]
      OBVIOUS
    <3>5. n \in FrameSet /\ n.pc = step /\ n.key = f.key /\ n.seen = g /\ n.c = f.c /\ n.d = f.d
      <4>1. step \in Pcs
        BY <3>2 DEF Pcs
      <4> QED BY <1>1, <2>1, <3>4, <4>1 DEF FrameSet
    <3>6. FrameOK(n)
      BY <1>1, <1>2, <1>4, <2>1, <2>3, <3>2, <3>3, <3>5 DEF FrameOK, CreateFrameOK, DeleteFrameOK, SeenFrameOK
    <3> QED BY <1>0, <2>0, <3>1, <3>4, <3>6, ReadGoto
  <2> QED BY <2>5, <2>6
<1> QED BY <1>3, <1>4

\* The fenced graph is erased, or has changed.
LEMMA DeleteEraseStep ==
    ASSUME StoreInv, NEW w \in Workers, DeleteErase(w)
    PROVE  StoreInv'
<1>0. stack[w] # <<>> /\ UNCHANGED <<cj, dj, version, made, removed, answers>> /\ graph' \in {graph, NoGraph}
  BY DEF DeleteErase, At
<1>1. PICK f : f = Top(w) /\ FrameOK(f) /\ f \in FrameSet
  BY <1>0, TopFrame
<1>2. f.pc = "rd_erase" /\ f.key \in DeleteKeys /\ f.d.fence # 0 /\ f.d.expected \in removed
  BY <1>1 DEF DeleteErase, At, FrameOK, DeleteFrameOK, SeenFrameOK, DeleteOK
<1>3. Evolves
  BY <1>0, NextVersion DEF Evolves
<1>4. PICK p \in {"rd_finish", "resume_delete"} : Goto(w, [f EXCEPT !.pc = p])
  BY <1>1 DEF DeleteErase
<1>5. PICK n : n = [f EXCEPT !.pc = p]
  OBVIOUS
<1>6. n \in FrameSet /\ n.pc = p /\ n.key = f.key /\ n.seen = f.seen /\ n.c = f.c /\ n.d = f.d
  BY <1>1, <1>4, <1>5 DEF FrameSet, Pcs
<1>7. FrameOK(f)'
  BY <1>1, <1>3, NextVersion, FrameStays
<1>8. FrameOK(n)'
  BY <1>0, <1>2, <1>6, <1>7 DEF FrameOK, CreateFrameOK, DeleteFrameOK, SeenFrameOK
<1>9. JournalsOK'
  BY <1>0, <1>3, JournalsStay DEF StoreInv, JournalsOK
<1> QED BY <1>0, <1>3, <1>4, <1>5, <1>8, <1>9, MadeStays, GraphStays, AnswersStay, WriteGoto

\* The fence is set on the very graph that was read, which is the expected one.
LEMMA DeleteFenceStep ==
    ASSUME StoreInv, NEW w \in Workers, DeleteFence(w)
    PROVE  StoreInv'
<1>0. stack[w] # <<>> /\ UNCHANGED <<cj, dj, made, answers>>
  BY DEF DeleteFence, At
<1>1. PICK f : f = Top(w) /\ FrameOK(f) /\ f \in FrameSet
  BY <1>0, TopFrame
<1>2. f.pc = "rd_fence" /\ f.key \in DeleteKeys /\ f.seen.ver # 0 /\ f.seen.fence = NoFence /\ f.seen.ver = f.d.expected
  BY <1>1 DEF DeleteFence, At, FrameOK, DeleteFrameOK, SeenFrameOK
<1>3. CASE graph.ver = f.seen.ver
  <2>1. graph = f.seen /\ graph \in GraphSet /\ graph.key \in CreateKeys /\ graph.ver \in Revisions
    BY <1>1, <1>2, <1>3 DEF FrameOK, SeenOK
  <2>2. PICK fence : fence = [key |-> f.key, expected |-> f.d.expected]
    OBVIOUS
  <2>3. fence \in [key : DeleteKeys \union {NoKey}, expected : Nat] /\ fence # NoFence
        /\ fence.key \in DeleteKeys /\ fence.expected = f.d.expected
    <3>1. f.d.expected \in Nat
      BY <1>1 DEF FrameSet, DeleteSet
    <3> QED BY <1>2, <2>2, <3>1 DEF NoFence
  <2>4. PICK g : g = [f.seen EXCEPT !.ver = Next1, !.fence = fence]
    OBVIOUS
  <2>5. /\ version' = Next1 /\ graph' = g /\ removed' = removed \union {f.seen.ver}
        /\ Goto(w, [f EXCEPT !.pc = "rd_note", !.seen = g])
    BY <1>1, <1>3, <2>2, <2>4 DEF DeleteFence
  <2>6. g \in GraphSet /\ g.ver = Next1 /\ g.fence = fence /\ g.key \in CreateKeys
    BY <2>1, <2>3, <2>4, NextVersion DEF GraphSet
  <2>7. Evolves
    BY <1>0, <2>5, <2>6, NextVersion DEF Evolves
  <2>8. SeenOK(g)'
    BY <1>2, <2>3, <2>5, <2>6, NextVersion DEF SeenOK
  <2>9. GraphOK'
    BY <2>5, <2>8 DEF GraphOK
  <2>10. MadeOK'
    BY <1>0, <2>1, <2>5, <2>7, NextVersion, RevisionsGrow DEF StoreInv, MadeOK
  <2>11. JournalsOK'
    BY <1>0, <2>7, JournalsStay DEF StoreInv, JournalsOK
  <2>12. PICK n : n = [f EXCEPT !.pc = "rd_note", !.seen = g]
    OBVIOUS
  <2>13. n \in FrameSet /\ n.pc = "rd_note" /\ n.key = f.key /\ n.seen = g /\ n.c = f.c /\ n.d = f.d
    BY <1>1, <2>6, <2>12 DEF FrameSet, Pcs
  <2>14. FrameOK(f)'
    BY <1>1, <2>7, NextVersion, FrameStays
  <2>15. FrameOK(n)'
    BY <1>2, <2>3, <2>5, <2>6, <2>8, <2>13, <2>14, NextVersion
    DEF FrameOK, CreateFrameOK, DeleteFrameOK, SeenFrameOK
  <2> QED BY <1>0, <2>5, <2>7, <2>9, <2>10, <2>11, <2>12, <2>15, AnswersStay, WriteGoto
<1>4. CASE graph.ver # f.seen.ver
  <2>1. PICK n : n = [f EXCEPT !.pc = "resume_delete"]
    OBVIOUS
  <2>2. FrameOK(n)
    BY <1>1, <1>2, <2>1, MovedFields DEF Pcs, FrameOK, CreateFrameOK, DeleteFrameOK, SeenFrameOK
  <2> QED BY <1>0, <1>1, <1>4, <2>1, <2>2, ReadGoto DEF DeleteFence, Still
<1> QED BY <1>3, <1>4

\* The journal remembers the fence, is given back, or is completed.
LEMMA DeleteWriteStep ==
    ASSUME StoreInv, NEW w \in Workers, DeleteNote(w) \/ DeleteDrop(w) \/ DeleteFinish(w)
    PROVE  StoreInv'
<1>0. stack[w] # <<>> /\ UNCHANGED <<graph, cj, made, removed>>
  BY DEF DeleteNote, DeleteDrop, DeleteFinish, At
<1>1. PICK f : f = Top(w) /\ FrameOK(f) /\ f \in FrameSet
  BY <1>0, TopFrame
<1>2. /\ f.pc \in {"rd_note", "rd_drop", "rd_finish"} /\ f.key \in DeleteKeys
      /\ f.d.ver # 0 /\ ~f.d.done /\ (dj[f.key].ver = f.d.ver => dj[f.key] = f.d)
  BY <1>1 DEF DeleteNote, DeleteDrop, DeleteFinish, At, FrameOK, DeleteFrameOK
<1>3. f.d \in DeleteSet /\ DeleteOK(f.d) /\ NoDelete \in DeleteSet
  BY <1>1, NewFrame DEF FrameOK, FrameSet, DeleteOK
<1>4. ASSUME NEW p \in {"rd_reload", "rd_refinish"}, p = "rd_refinish" => f.pc = "rd_finish",
             Goto(w, [f EXCEPT !.pc = p]), UNCHANGED <<version, dj, answers>>
      PROVE  StoreInv'
  <2>1. PICK n : n = [f EXCEPT !.pc = p]
    OBVIOUS
  <2>2. p \in Pcs
    BY DEF Pcs
  <2>3. FrameOK(n)
    BY <1>1, <1>2, <1>4, <2>1, <2>2, MovedFields DEF FrameOK, CreateFrameOK, DeleteFrameOK, SeenFrameOK
  <2> QED BY <1>0, <1>4, <2>1, <2>3, ReadGoto DEF Still
<1>5. ASSUME NEW j \in DeleteSet, dj[f.key].ver = f.d.ver, dj' = [dj EXCEPT ![f.key] = j],
             (j = NoDelete /\ version' = version) \/ (j.ver = Next1 /\ version' = Next1)
      PROVE  /\ Evolves /\ dj'[f.key] = j
             /\ (j # NoDelete => DeleteOK(j)') => JournalsOK'
  <2>1. dj' \in [DeleteKeys -> DeleteSet] /\ dj'[f.key] = j /\ \A k \in DeleteKeys \ {f.key} : dj'[k] = dj[k]
    BY <1>2, <1>5 DEF StoreInv, JournalsOK
  <2>2. Evolves
    BY <1>0, <1>2, <1>5, <2>1, NextVersion DEF Evolves
  <2> QED BY <1>0, <1>2, <1>5, <2>1, <2>2, NextVersion, JournalsStay DEF StoreInv, JournalsOK
<1>6. CASE DeleteNote(w)
  <2>0. f.pc = "rd_note" /\ f.seen.ver # 0 /\ f.seen.fence # NoFence /\ f.d.expected \in removed
    BY <1>1, <1>6 DEF DeleteNote, At, FrameOK, SeenFrameOK
  <2>1. CASE dj[f.key].ver = f.d.ver
    <3>1. PICK j : j = [f.d EXCEPT !.ver = Next1, !.fence = f.seen.ver]
      OBVIOUS
    <3>2. version' = Next1 /\ dj' = [dj EXCEPT ![f.key] = j] /\ UNCHANGED answers
          /\ Goto(w, [f EXCEPT !.pc = "resume_delete", !.d = j])
      BY <1>1, <1>6, <2>1, <3>1 DEF DeleteNote
    <3>3. SeenOK(f.seen) /\ f.seen.ver \in Nat
      BY <1>1 DEF FrameOK, SeenOK, GraphSet
    <3>4. j \in DeleteSet /\ j.ver = Next1 /\ ~j.done /\ j.fence = f.seen.ver /\ j.expected = f.d.expected
      BY <1>2, <1>3, <3>1, <3>3, NextVersion DEF DeleteSet
    <3>5. Evolves /\ dj'[f.key] = j /\ ((j # NoDelete => DeleteOK(j)') => JournalsOK')
      BY <1>5, <2>1, <3>2, <3>4
    <3>6. DeleteOK(j)'
      BY <1>0, <2>0, <3>2, <3>3, <3>4, NextVersion DEF DeleteOK, SeenOK
    <3>7. PICK n : n = [f EXCEPT !.pc = "resume_delete", !.d = j]
      OBVIOUS
    <3>8. n \in FrameSet /\ n.pc = "resume_delete" /\ n.key = f.key /\ n.seen = f.seen /\ n.c = f.c /\ n.d = j
      BY <1>1, <3>4, <3>7 DEF FrameSet, Pcs
    <3>9. FrameOK(f)'
      BY <1>1, <3>5, NextVersion, FrameStays
    <3>10. FrameOK(n)'
      BY <1>2, <3>4, <3>5, <3>6, <3>8, <3>9, NextVersion DEF FrameOK, CreateFrameOK, DeleteFrameOK, SeenFrameOK
    <3> QED BY <1>0, <3>2, <3>5, <3>6, <3>7, <3>10, MadeStays, GraphStays, AnswersStay, WriteGoto
  <2>2. CASE dj[f.key].ver # f.d.ver
    BY <1>1, <1>4, <1>6, <2>2 DEF DeleteNote
  <2> QED BY <2>1, <2>2
<1>7. CASE DeleteDrop(w)
  <2>1. CASE dj[f.key].ver = f.d.ver
    <3>1. dj' = [dj EXCEPT ![f.key] = NoDelete] /\ version' = version /\ Raise(w) /\ UNCHANGED answers
      BY <1>1, <1>7, <2>1 DEF DeleteDrop
    <3>2. Evolves /\ JournalsOK'
      BY <1>3, <1>5, <2>1, <3>1
    <3> QED BY <1>0, <3>1, <3>2, MadeStays, GraphStays, AnswersStay, WriteRaise
  <2>2. CASE dj[f.key].ver # f.d.ver
    BY <1>1, <1>4, <1>7, <2>2 DEF DeleteDrop
  <2> QED BY <2>1, <2>2
<1>8. CASE DeleteFinish(w)
  <2>0. f.pc = "rd_finish" /\ f.d.expected \in removed
    BY <1>1, <1>8 DEF DeleteFinish, At, FrameOK, SeenFrameOK
  <2>1. CASE dj[f.key].ver = f.d.ver
    <3>1. PICK j : j = [f.d EXCEPT !.ver = Next1, !.done = TRUE]
      OBVIOUS
    <3>2. version' = Next1 /\ dj' = [dj EXCEPT ![f.key] = j] /\ Finish(w, "delete", f.d.expected)
      BY <1>1, <1>2, <1>8, <2>1, <3>1 DEF DeleteFinish
    <3>3. j \in DeleteSet /\ j.ver = Next1 /\ j.done /\ j.expected = f.d.expected /\ j.fence = f.d.fence
      BY <1>3, <3>1, NextVersion DEF DeleteSet
    <3>4. Evolves /\ dj'[f.key] = j /\ ((j # NoDelete => DeleteOK(j)') => JournalsOK')
      BY <1>5, <2>1, <3>2, <3>3
    <3>5. DeleteOK(j)'
      BY <1>0, <1>3, <2>0, <3>2, <3>3, NextVersion DEF DeleteOK, DeleteSet
    <3> QED BY <1>0, <1>1, <1>2, <3>2, <3>3, <3>4, <3>5, MadeStays, GraphStays, FinishStep
  <2>2. CASE dj[f.key].ver # f.d.ver
    BY <1>1, <1>4, <1>8, <2>0, <2>2 DEF DeleteFinish
  <2> QED BY <2>1, <2>2
<1> QED BY <1>6, <1>7, <1>8

\* Before the first request the invariant holds.
LEMMA StoreInitial ==
    ASSUME Init
    PROVE  StoreInv
<1>1. NoGraph \in GraphSet /\ NoGraph.ver = 0 /\ NoGraph.fence = NoFence
  BY DEF NoGraph, NoFence, GraphSet
<1>2. NoCreate \in CreateSet /\ ~NoCreate.done /\ NoCreate.ver = 0
  BY DEF NoCreate, CreateSet
<1>3. NoDelete \in DeleteSet /\ ~NoDelete.done /\ NoDelete.ver = 0 /\ NoDelete.fence = 0
  BY DEF NoDelete, DeleteSet
<1>4. MadeOK /\ AnswersOK
  BY DEF Init, MadeOK, AnswersOK, Revisions
<1>5. GraphOK
  BY <1>1 DEF Init, GraphOK, SeenOK
<1>6. JournalsOK
  BY <1>2, <1>3 DEF Init, JournalsOK, CreateOK, DeleteOK
<1>7. stack \in [Workers -> Seq(FrameSet)] /\ \A w \in Workers : \A s \in {stack[w]} : StackIsRight(s)
  BY EmptyStack DEF Init
<1> QED BY <1>4, <1>5, <1>6, <1>7 DEF StoreInv

\* Every step of every worker keeps the invariant.
LEMMA StoreStep ==
    ASSUME StoreInv, [Next]_storeVars
    PROVE  StoreInv'
<1>1. CASE UNCHANGED storeVars
  <2>1. NoEffect /\ UNCHANGED <<answers, stack>>
    BY <1>1 DEF storeVars, NoEffect, Untouched
  <2>2. Evolves /\ MadeOK' /\ GraphOK' /\ JournalsOK' /\ AnswersOK'
    BY <2>1, NothingEvolves, AnswersStay
  <2> QED BY <2>1, <2>2, NextVersion, StackStays DEF StoreInv
<1>2. ASSUME NEW w \in Workers, Request(w) \/ Step(w) \/ Crash(w) PROVE StoreInv'
  BY <1>2, RequestStep, CreateReads, RequestReads, ResolveReads, ResumeReads, ResumeCreateStep,
     CreatePlanStep, CreateGraphStep, CreateCheckStep, PutStep, DeletePlanStep, ResumeDeleteStep,
     DeleteEraseStep, DeleteFenceStep, DeleteWriteStep
  DEF Step
<1> QED BY <1>1, <1>2 DEF Next

\* The counters stay within their bounds.
Bounded == version \in 0 .. MaxVersion /\ crashes \in 0 .. MaxCrashes /\ requests \in 0 .. MaxRequests

\* At the start they do.
LEMMA BoundedInit ==
    ASSUME JournaledAssumption, Init
    PROVE  Bounded
BY DEF JournaledAssumption, Init, Bounded

\* And after every step.
LEMMA BoundedStep ==
    ASSUME JournaledAssumption, Bounded, [Next]_storeVars
    PROVE  Bounded'
<1> USE DEF Bounded, JournaledAssumption
<1>1. CASE UNCHANGED storeVars
  BY <1>1 DEF storeVars
<1>2. ASSUME NEW w \in Workers, Request(w) \/ Crash(w) PROVE Bounded'
  BY <1>2 DEF Request, Begin, Crash
<1>3. ASSUME NEW w \in Workers, Step(w) PROVE Bounded'
  <2>1. Untouched /\ (UNCHANGED version \/ (Fresh /\ version' = Next1))
    BY <1>3 DEF Step, CreateJournal, CreateExisting, CreateExisted, CreatePlan, CreateReplan, Load, Get, Put,
       DeleteJournal, DeleteLoad, DeletePlan, DeleteReplan, Resolve, Resolved, ResolvedGone, ResumeCreate,
       CreateGraph, CreateReread, CreateCheck, CreateReload, ResumeDelete, DeleteErase, DeleteFence,
       DeleteNote, DeleteDrop, DeleteFinish, DeleteReload, ReadOnly, NoEffect
  <2> QED BY <2>1 DEF Untouched, Fresh, Next1
<1> QED BY <1>1, <1>2, <1>3 DEF Next

\* What the invariant says of the objects and of the answers.
LEMMA StoreMeaning ==
    ASSUME StoreInv, Bounded
    PROVE  TypeOK /\ ReplayIsExact
<1>1. removed \subseteq 1 .. version
  BY DEF StoreInv, MadeOK, Revisions
<1>2. graph \in GraphSet
  BY DEF StoreInv, GraphOK, SeenOK
<1>3. TypeOK
  BY <1>1, <1>2 DEF StoreInv, JournalsOK, Bounded, TypeOK
<1>4. ReplayIsExact
  BY DEF StoreInv, AnswersOK, ReplayIsExact
<1> QED BY <1>3, <1>4

\* A key is good for one result, whoever completed its journal and however often
\* the request was repeated: _validate_create_replay answers from the journal, and
\* a completed journal is never written again.
THEOREM ReplaysAreExact ==
    ASSUME JournaledAssumption
    PROVE  Spec => [](TypeOK /\ ReplayIsExact)
<1>1. Init => StoreInv /\ Bounded
  BY StoreInitial, BoundedInit
<1>2. StoreInv /\ Bounded /\ [Next]_storeVars => (StoreInv /\ Bounded)'
  BY StoreStep, BoundedStep
<1>3. StoreInv /\ Bounded => TypeOK /\ ReplayIsExact
  BY StoreMeaning
<1> QED BY <1>1, <1>2, <1>3, PTL DEF Spec

-----------------------------------------------------------------------------
(* The refinement of GraphCatalog. *)

\* What the catalog's history looks like here.
LEMMA CatalogMade ==
    ASSUME StoreInv
    PROVE  /\ Catalog!Made = Revisions
           /\ Catalog!Fresh(Next1)
<1>1. Catalog!Made = Revisions
  <2> DEFINE P == {[rev |-> m.rev, from |-> m.from] : m \in By("put")}
  <2>1. {p.rev : p \in P} = {m.rev : m \in By("put")}
    <3>1. \A p \in P : \E m \in By("put") : p.rev = m.rev
      OBVIOUS
    <3>2. \A m \in By("put") : \E p \in P : p.rev = m.rev
      <4> SUFFICES ASSUME NEW m \in By("put") PROVE \E p \in P : p.rev = m.rev
        OBVIOUS
      <4>1. PICK p : p = [rev |-> m.rev, from |-> m.from]
        OBVIOUS
      <4>2. p \in P /\ p.rev = m.rev
        BY <4>1
      <4> QED BY <4>2
    <3> HIDE DEF P
    <3> QED BY <3>1, <3>2
  <2>2. made = By("create") \union By("put")
    BY DEF StoreInv, MadeOK, By
  <2> QED BY <2>1, <2>2 DEF Catalog!Made, Revisions
<1> QED BY <1>1, NextVersion DEF Catalog!Fresh

\* An answer that is heard is an answer of the catalog.
LEMMA CatalogTold ==
    ASSUME NEW op, NEW key, NEW rev, NEW from, Succeed(op, key, rev, from)
    PROVE  {[op |-> a.op, rev |-> a.rev, from |-> a.from] : a \in answers}' = Catalog!Told(op, rev, from)
<1> DEFINE f(a) == [op |-> a.op, rev |-> a.rev, from |-> a.from]
           heard == [op |-> op, key |-> key, rev |-> rev, from |-> from]
<1>1. f(heard) = [op |-> op, rev |-> rev, from |-> from]
  OBVIOUS
<1>2. {f(a) : a \in answers}' = {f(a) : a \in answers} \union {f(heard)}
  <2> HIDE DEF heard
  <2>1. answers' = answers \union {heard}
    BY DEF heard, Succeed
  <2> HIDE DEF f
  <2>2. {f(a) : a \in answers'} = {f(a) : a \in answers} \union {f(heard)}
    BY <2>1
  <2> QED BY <2>2 DEF f
<1> QED BY <1>1, <1>2 DEF Catalog!Told

\* A step that changes neither the graph nor its history is hidden, or answers.
LEMMA CatalogFinish ==
    ASSUME StoreInv, UNCHANGED <<graph, made, removed>>, NEW w \in Workers,
           NEW op \in {"create", "delete"}, NEW rev, Finish(w, op, rev),
           op = "create" => rev \in Created, op = "delete" => rev \in removed
    PROVE  KeepsCatalog
<1>1. UNCHANGED <<Visible, By("create"), By("put")>>
  BY DEF Visible, By
<1>2. CASE UNCHANGED answers
  BY <1>1, <1>2 DEF KeepsCatalog, Catalog!catalogVars
<1>3. ASSUME NEW k, Succeed(op, k, rev, 0) PROVE KeepsCatalog
  <2>1. rev \in Revisions
    BY DEF StoreInv, MadeOK, Created, Revisions, By
  <2>2. Catalog!Answer(op, rev, 0)
    BY <1>1, <1>3, CatalogTold DEF Catalog!Answer, Created
  <2> QED BY <2>1, <2>2, CatalogMade DEF KeepsCatalog, Catalog!Next
<1> QED BY <1>2, <1>3 DEF Finish

\* A step of the object stores is a step of the catalog, or hidden from it.
LEMMA CatalogStep ==
    ASSUME StoreInv, [Next]_storeVars
    PROVE  KeepsCatalog
<1>1. ASSUME UNCHANGED <<graph, made, removed, answers>> PROVE KeepsCatalog
  BY <1>1 DEF KeepsCatalog, Catalog!catalogVars, Visible, By
<1>2. ASSUME NEW w \in Workers, Request(w) \/ Step(w) \/ Crash(w) PROVE KeepsCatalog
  <2>0. PICK f : f = Top(w) /\ (stack[w] # <<>> => FrameOK(f))
    BY TopFrame
  <2>1. CASE Request(w) \/ Crash(w)
    BY <1>1, <2>1 DEF Request, Begin, Crash
  <2>2. CASE \/ CreateJournal(w) \/ CreateExisting(w) \/ CreateExisted(w) \/ CreateReplan(w) \/ Load(w)
             \/ Get(w) \/ DeleteJournal(w) \/ DeleteLoad(w) \/ DeleteReplan(w)
             \/ Resolve(w) \/ Resolved(w) \/ ResolvedGone(w)
             \/ CreateReread(w) \/ CreateReload(w) \/ DeleteReload(w)
    <3>1. ReadOnly
      BY <2>2 DEF CreateJournal, CreateExisting, CreateExisted, CreateReplan, Load, Get, DeleteJournal,
                  DeleteLoad, DeleteReplan, Resolve, Resolved, ResolvedGone, CreateReread, CreateReload,
                  DeleteReload
    <3> QED BY <1>1, <3>1 DEF ReadOnly, NoEffect
  <2>3. CASE CreatePlan(w) \/ DeletePlan(w) \/ DeleteNote(w) \/ DeleteDrop(w)
    BY <1>1, <2>3 DEF CreatePlan, DeletePlan, DeleteNote, DeleteDrop
  <2>4. CASE ResumeCreate(w)
    <3>1. FrameOK(f)
      BY <2>0, <2>4 DEF ResumeCreate, At
    <3>2. CASE f.c.done
      <4>1. f.c.result \in Created
        BY <3>1, <3>2 DEF FrameOK, CreateOK
      <4> QED BY <2>0, <2>4, <3>2, <4>1, CatalogFinish DEF ResumeCreate, NoEffect
    <3>3. CASE ~f.c.done
      BY <1>1, <2>0, <2>4, <3>3 DEF ResumeCreate, NoEffect
    <3> QED BY <3>2, <3>3
  <2>5. CASE CreateCheck(w)
    <3>1. FrameOK(f) /\ f.pc = "rc_check"
      BY <2>0, <2>5 DEF CreateCheck, At
    <3>2. CASE IsPlanned(f.seen, f.c) /\ Finish(w, "create", f.seen.ver)
      <4>1. f.seen.ver \in Created
        BY <3>1, <3>2 DEF FrameOK, SeenFrameOK, SeenOK, IsPlanned
      <4> QED BY <2>5, <3>2, <4>1, CatalogFinish DEF CreateCheck
    <3>3. CASE UNCHANGED answers
      BY <1>1, <2>5, <3>3 DEF CreateCheck
    <3> QED BY <2>0, <2>5, <3>2, <3>3 DEF CreateCheck
  <2>6. CASE ResumeDelete(w)
    <3>1. FrameOK(f)
      BY <2>0, <2>6 DEF ResumeDelete, At
    <3>2. CASE f.d.done
      <4>1. f.d.expected \in removed
        BY <3>1, <3>2 DEF FrameOK, DeleteOK
      <4> QED BY <2>0, <2>6, <3>2, <4>1, CatalogFinish DEF ResumeDelete, NoEffect
    <3>3. CASE ~f.d.done
      BY <1>1, <2>0, <2>6, <3>3 DEF ResumeDelete, NoEffect
    <3> QED BY <3>2, <3>3
  <2>7. CASE DeleteFinish(w)
    <3>1. FrameOK(f) /\ f.pc = "rd_finish"
      BY <2>0, <2>7 DEF DeleteFinish, At
    <3>2. f.d.expected \in removed
      BY <3>1 DEF FrameOK, SeenFrameOK
    <3>3. CASE Finish(w, "delete", f.d.expected)
      BY <2>7, <3>2, <3>3, CatalogFinish DEF DeleteFinish
    <3>4. CASE UNCHANGED answers
      BY <1>1, <2>7, <3>4 DEF DeleteFinish
    <3> QED BY <2>0, <2>7, <3>3, <3>4 DEF DeleteFinish
  <2>8. CASE CreateGraph(w)
    <3>1. CASE graph.ver = 0
      <4>1. PICK m : m = [op |-> "create", rev |-> Next1, plan |-> f.c.plan, from |-> 0]
        OBVIOUS
      <4>2. made' = made \union {m} /\ graph'.ver = Next1 /\ graph'.fence = NoFence /\ UNCHANGED <<removed, answers>>
        BY <2>0, <2>8, <3>1, <4>1 DEF CreateGraph
      <4>3. By("create")' = By("create") \union {m} /\ By("put")' = By("put") /\ m.rev = Next1
        BY <4>1, <4>2 DEF By
      <4>4. {x.rev : x \in By("create")}' = {x.rev : x \in By("create")} \union {Next1}
        BY <4>3
      <4>5. Visible = 0 /\ Visible' = Next1
        <5>1. graph = NoGraph /\ NoGraph.ver = 0
          BY <3>1 DEF StoreInv, GraphOK, SeenOK, NoGraph
        <5> QED BY <4>2, <5>1 DEF Visible
      <4>6. PICK rev : rev = Next1
        OBVIOUS
      <4>7. Catalog!Create(rev)
        BY <4>6, <4>2, <4>3, <4>4, <4>5, CatalogMade DEF Catalog!Create, Catalog!Fresh
      <4> QED BY <4>5, <4>6, <4>7 DEF KeepsCatalog, Catalog!Next
    <3>2. CASE graph.ver # 0
      BY <1>1, <2>8, <3>2 DEF CreateGraph
    <3> QED BY <3>1, <3>2
  <2>9. CASE Put(w)
    <3>0. FrameOK(f) /\ f.pc = "putting"
      BY <2>0, <2>9 DEF Put, At
    <3>1. CASE PutWrites(f)
      <4>0. graph = f.seen /\ graph.ver # 0 /\ graph.fence = NoFence /\ f.expected = graph.ver
        BY <3>0, <3>1 DEF PutWrites, FrameOK, SeenFrameOK, SeenOK
      <4>1. PICK m : m = [op |-> "put", rev |-> Next1, plan |-> graph.plan, from |-> graph.ver]
        OBVIOUS
      <4>2. /\ made' = made \union {m} /\ graph' = [graph EXCEPT !.ver = Next1, !.edited = TRUE]
            /\ UNCHANGED removed /\ Succeed("put", NoKey, Next1, graph.ver)
        BY <2>0, <2>9, <3>1, <4>0, <4>1 DEF Put
      <4>3. By("put")' = By("put") \union {m} /\ By("create")' = By("create")
            /\ m.rev = Next1 /\ m.from = graph.ver
        BY <4>1, <4>2 DEF By
      <4>4. {[rev |-> x.rev, from |-> x.from] : x \in By("put")}'
              = {[rev |-> x.rev, from |-> x.from] : x \in By("put")} \union {[rev |-> Next1, from |-> graph.ver]}
        BY <4>3
      <4>5. Visible = graph.ver /\ Visible' = Next1
        <5>1. graph \in GraphSet
          BY DEF StoreInv, GraphOK, SeenOK
        <5> QED BY <4>0, <4>2, <5>1 DEF Visible, GraphSet
      <4>6. PICK rev : rev = Next1
        OBVIOUS
      <4>7. Catalog!ReplaceAndAnswer(rev)
        BY <4>6, <4>0, <4>2, <4>3, <4>4, <4>5, CatalogMade, CatalogTold DEF Catalog!ReplaceAndAnswer, Catalog!Fresh
      <4> QED BY <4>5, <4>6, <4>7 DEF KeepsCatalog, Catalog!Next
    <3>2. CASE ~PutWrites(f)
      BY <1>1, <2>0, <2>9, <3>2 DEF Put
    <3> QED BY <3>1, <3>2
  <2>10. CASE DeleteFence(w)
    <3>0. FrameOK(f) /\ f.pc = "rd_fence"
      BY <2>0, <2>10 DEF DeleteFence, At
    <3>1. CASE graph.ver = f.seen.ver
      <4>0. graph = f.seen /\ graph.ver # 0 /\ graph.fence = NoFence /\ f.d.expected # 0 /\ graph \in GraphSet
        BY <3>0, <3>1 DEF FrameOK, SeenFrameOK, SeenOK
      <4>1. PICK fence : fence = [key |-> f.key, expected |-> f.d.expected]
        OBVIOUS
      <4>2. /\ graph' = [graph EXCEPT !.ver = Next1, !.fence = fence] /\ removed' = removed \union {graph.ver}
            /\ UNCHANGED <<made, answers>>
        BY <2>0, <2>10, <3>1, <4>0, <4>1 DEF DeleteFence
      <4>3. fence # NoFence /\ graph'.fence = fence
        BY <4>0, <4>1, <4>2 DEF NoFence, GraphSet
      <4>4. Visible = graph.ver /\ Visible' = 0
        BY <4>0, <4>3 DEF Visible
      <4>5. Catalog!Remove
        BY <4>0, <4>2, <4>4 DEF Catalog!Remove, By
      <4> QED BY <4>5 DEF KeepsCatalog, Catalog!Next
    <3>2. CASE graph.ver # f.seen.ver
      BY <1>1, <2>0, <2>10, <3>2 DEF DeleteFence
    <3> QED BY <3>1, <3>2
  <2>11. CASE DeleteErase(w)
    <3>0. FrameOK(f) /\ f.pc = "rd_erase"
      BY <2>0, <2>11 DEF DeleteErase, At
    <3>1. CASE graph.ver = f.seen.ver
      <4>1. graph.fence # NoFence
        BY <3>0, <3>1 DEF FrameOK, SeenFrameOK, DeleteOK
      <4>2. Visible = 0 /\ Visible' = 0
        BY <2>0, <2>11, <3>1, <4>1 DEF DeleteErase, Visible, NoGraph
      <4> QED BY <2>11, <4>2 DEF DeleteErase, KeepsCatalog, Catalog!catalogVars, By
    <3>2. CASE graph.ver # f.seen.ver
      BY <1>1, <2>0, <2>11, <3>2 DEF DeleteErase
    <3> QED BY <3>1, <3>2
  <2> QED BY <1>2, <2>1, <2>2, <2>3, <2>4, <2>5, <2>6, <2>7, <2>8, <2>9, <2>10, <2>11 DEF Step
<1>3. CASE UNCHANGED storeVars
  BY <1>1, <1>3 DEF storeVars
<1> QED BY <1>2, <1>3 DEF Next

\* The empty store is the empty catalog.
LEMMA CatalogInitial ==
    ASSUME Init
    PROVE  Catalog!Init
BY DEF Init, Catalog!Init, Visible, By, NoGraph

\* The S3, Azure Blob, OCI and GCS stores implement the graph catalog, whatever
\* workers race, help each other and die: no update is lost, a fence removes the
\* revision that the delete named, and every answer is about a change that was made.
THEOREM JournaledImplementsCatalog == Spec => Catalog!Spec
<1>1. Init => Catalog!Init
  BY CatalogInitial
<1>2. StoreInv /\ [Next]_storeVars => [Catalog!Next]_(Catalog!catalogVars)
  BY CatalogStep DEF KeepsCatalog
<1> QED BY <1>1, <1>2, StoreInitial, StoreStep, PTL DEF Spec, Catalog!Spec
=============================================================================

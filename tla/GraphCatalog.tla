---------------------------- MODULE GraphCatalog ----------------------------
(***************************************************************************)
(* What a graph store promises about one graph, with its journals, fences, *)
(* retries and crashes hidden: revisions are never used twice, a change    *)
(* applies to the revision that is current, and a request that is told it  *)
(* succeeded is told of a revision that such a change really made, or      *)
(* really removed.                                                         *)
(***************************************************************************)
EXTENDS Naturals

VARIABLES
    current,        \* the visible revision, 0 when there is no graph
    created,        \* revisions that a create made
    replaced,       \* revisions that a put made: [rev, from]
    removed,        \* revisions that were current when a delete removed them
    answers         \* successful answers: [op, rev, from], from being what a put expected

catalogVars == <<current, created, replaced, removed, answers>>

Init ==
    /\ current = 0
    /\ created = {} /\ replaced = {} /\ removed = {}
    /\ answers = {}

Made == created \union {p.rev : p \in replaced}
Fresh(rev) == rev \in Nat \ ({0} \union Made)

Create(rev) ==
    /\ current = 0 /\ Fresh(rev)
    /\ current' = rev
    /\ created' = created \union {rev}
    /\ UNCHANGED <<replaced, removed, answers>>

Replace(rev) ==
    /\ current # 0 /\ Fresh(rev)
    /\ current' = rev
    /\ replaced' = replaced \union {[rev |-> rev, from |-> current]}
    /\ UNCHANGED <<created, removed, answers>>

Remove ==
    /\ current # 0
    /\ current' = 0
    /\ removed' = removed \union {current}
    /\ UNCHANGED <<created, replaced, answers>>

Told(op, rev, from) == answers \union {[op |-> op, rev |-> rev, from |-> from]}

\* A successful answer tells the truth.
Answer(op, rev, from) ==
    /\ \/ op = "create" /\ from = 0 /\ rev \in created
       \/ op = "put" /\ [rev |-> rev, from |-> from] \in replaced
       \/ op = "delete" /\ from = 0 /\ rev \in removed
    /\ answers' = Told(op, rev, from)
    /\ UNCHANGED <<current, created, replaced, removed>>

\* A put that takes effect and answers in one step, as the object stores do.
ReplaceAndAnswer(rev) ==
    /\ current # 0 /\ Fresh(rev)
    /\ current' = rev
    /\ replaced' = replaced \union {[rev |-> rev, from |-> current]}
    /\ answers' = Told("put", rev, current)
    /\ UNCHANGED <<created, removed>>

\* The same for stores whose create and delete are one transaction.
CreateAndAnswer(rev) ==
    /\ current = 0 /\ Fresh(rev)
    /\ current' = rev
    /\ created' = created \union {rev}
    /\ answers' = Told("create", rev, 0)
    /\ UNCHANGED <<replaced, removed>>

RemoveAndAnswer ==
    /\ current # 0
    /\ current' = 0
    /\ removed' = removed \union {current}
    /\ answers' = Told("delete", current, 0)
    /\ UNCHANGED <<created, replaced>>

Next ==
    \/ Remove \/ RemoveAndAnswer
    \/ \E rev \in {current'} :
         Create(rev) \/ Replace(rev) \/ ReplaceAndAnswer(rev) \/ CreateAndAnswer(rev)
    \/ \E op \in {"create", "put", "delete"} :
         \E rev \in Made, from \in Made \union {0} : Answer(op, rev, from)

Spec == Init /\ [][Next]_catalogVars
=============================================================================

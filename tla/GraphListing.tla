---------------------------- MODULE GraphListing ----------------------------
(***************************************************************************)
(* A client pages through the graphs of a project while others create,     *)
(* replace and delete them.  Every store pages by name: a cursor is the    *)
(* name of the last graph shown.  The object stores find the names with    *)
(* provider pages of their own, leave out graphs that are being deleted,   *)
(* and differ in where a provider page begins and in how it ends.  A page  *)
(* is a set here, its order is that of the names.                          *)
(***************************************************************************)
EXTENDS Naturals, Sequences, FiniteSets, FiniteSetsExt

CONSTANTS
    Store,          \* "memory", "local", "postgresql", "s3", "gcs", "azure" or "oci"
    MaxGraph,       \* graph names are numbers, in the order of their object names
    Limit,          \* limit
    MaxRounds,      \* MAX_GRAPH_PAGE_SIZE + 2: provider pages of one page (Azure, OCI)
    MaxWrites       \* bound: changes while the client pages

ListingAssumption ==
    /\ Store \in {"memory", "local", "postgresql", "s3", "gcs", "azure", "oci"}
    /\ MaxGraph \in Nat /\ Limit \in Nat \ {0} /\ MaxRounds \in Nat \ {0} /\ MaxWrites \in Nat

Graphs == 1 .. MaxGraph

VARIABLES
    objects,        \* objects[g]: [ver, fenced]; ver = 0 when there is no object
    writes,
    pc,             \* "page", "list", "entry", "read", "complete" or "failed"
    pos,            \* where the next provider page begins: [at, inclusive]
    skip,           \* the name that an inclusive page begins with, or 0
    entries,        \* what is left of the provider page: [name, ver, fenced]
    more,           \* the provider has more
    rounds, tries,
    items,          \* summaries for the page: [name, rev]
    listed,         \* the pages that the client has been shown
    stable,         \* history: graphs visible ever since the client began
    visible         \* history: [name, rev] visible at some time since then

listVars == <<objects, writes, pc, pos, skip, entries, more, rounds, tries,
              items, listed, stable, visible>>

Absent == [ver |-> 0, fenced |-> FALSE]
Shown(o) == o.ver # 0 /\ ~o.fenced
Now(objs) == {[name |-> g, rev |-> objs[g].ver] : g \in {n \in Graphs : Shown(objs[n])}}

Locked == Store \in {"memory", "local", "postgresql"}

Beginning == [at |-> 0, inclusive |-> FALSE]

Init ==
    /\ objects \in [Graphs -> {Absent, [ver |-> 1, fenced |-> FALSE], [ver |-> 1, fenced |-> TRUE]}]
    /\ Locked => \A g \in Graphs : ~objects[g].fenced
    /\ writes = 0
    /\ pc = "page" /\ pos = Beginning /\ skip = 0
    /\ entries = {} /\ more = FALSE /\ rounds = 0 /\ tries = 0
    /\ items = {} /\ listed = <<>>
    /\ stable = {g \in Graphs : Shown(objects[g])}
    /\ visible = Now(objects)

-----------------------------------------------------------------------------
(***************************************************************************)
(* The others.  A deleted graph of an object store is fenced first.        *)
(***************************************************************************)

Becomes(g, o) ==
    /\ objects' = [objects EXCEPT ![g] = o]
    /\ stable' = IF Shown(o) THEN stable ELSE stable \ {g}
    /\ visible' = visible \union Now(objects')

Change(g) ==
    /\ writes < MaxWrites
    /\ writes' = writes + 1
    /\ Becomes(g, IF objects[g].fenced THEN Absent ELSE [ver |-> writes + 2, fenced |-> FALSE])
    /\ UNCHANGED <<pc, pos, skip, entries, more, rounds, tries, items, listed>>

Delete(g) ==
    /\ writes < MaxWrites /\ Shown(objects[g])
    /\ writes' = writes + 1
    /\ Becomes(g, IF Locked THEN Absent ELSE [ver |-> writes + 2, fenced |-> TRUE])
    /\ UNCHANGED <<pc, pos, skip, entries, more, rounds, tries, items, listed>>

others == <<objects, writes, stable, visible>>

-----------------------------------------------------------------------------
(***************************************************************************)
(* Pages.                                                                  *)
(***************************************************************************)

\* The first k of a set of names, in order.
First(names, k) == {g \in names : Cardinality({h \in names : h < g}) < k}

NamesOf(page) == {e.name : e \in page}

\* The page goes to the client, who asks for the next one if it has a cursor.
Reply(all) ==
    LET selected == {e \in all : e.name \in First(NamesOf(all), Limit)}
    IN  /\ listed' = Append(listed, selected)
        /\ IF Cardinality(all) > Limit
           THEN pc' = "page" /\ pos' = [at |-> Max(NamesOf(selected)), inclusive |-> FALSE]
           ELSE pc' = "complete" /\ pos' = Beginning

\* bisect_right over the sorted names, or graph > %s.
After(g, cursor) == g > cursor

\* list of the stores that see all graphs at once, under a lock or in one query.
LockedPage ==
    /\ Locked /\ pc = "page"
    /\ LET names == {g \in Graphs : Shown(objects[g]) /\ After(g, pos.at)}
       IN  Reply({[name |-> g, rev |-> objects[g].ver] : g \in First(names, Limit + 1)})
    /\ UNCHANGED <<skip, entries, more, rounds, tries, items>> /\ UNCHANGED others

\* _decode_cursor: S3 and OCI start after the name, GCS and Azure at it.
BeginPage ==
    /\ ~Locked /\ pc = "page"
    /\ pc' = "list"
    /\ LET inclusive == Store \in {"gcs", "azure"} /\ pos.at # 0
       IN  /\ pos' = [pos EXCEPT !.inclusive = inclusive]
           /\ skip' = IF inclusive THEN pos.at ELSE 0
    /\ items' = {} /\ rounds' = 0
    /\ UNCHANGED <<entries, more, tries, listed>> /\ UNCHANGED others

MaxKeys == Limit + 2

\* Where the next provider page begins.
Ahead(g) == IF pos.inclusive THEN g >= pos.at ELSE g > pos.at

\* What the provider may answer: the names in order from pos; S3, Azure and OCI
\* may cut a page short and say that there is more (external).
Pages ==
    LET names == {g \in Graphs : objects[g].ver # 0 /\ Ahead(g)}
        sizes == IF names = {} THEN {0}
                 ELSE IF Store = "gcs" THEN {MaxKeys} ELSE 1 .. MaxKeys
    IN  {[names |-> First(names, k), rest |-> names \ First(names, k)] : k \in sizes}

\* Mutant of HasMore: one provider page is all there is.
HasMoreNever(page) == FALSE

\* IsTruncated, a continuation token or next_start_with; GCS counts.
HasMore(page) == IF Store = "gcs" THEN Cardinality(page.names) >= MaxKeys ELSE page.rest # {}

\* GCS begins the next provider page at the last name, OCI at the one that came
\* after it, S3 and Azure after it.
NextStart(page) ==
    IF Store = "oci" /\ page.rest # {} THEN [at |-> Min(page.rest), inclusive |-> TRUE]
    ELSE [at |-> Max(page.names), inclusive |-> Store = "gcs"]

\* _list_entries and the loop around it.
ListPage ==
    /\ pc = "list"
    /\ \E page \in Pages :
         IF page.names = {}
         THEN /\ Reply(items)
              /\ UNCHANGED <<entries, more, rounds>>
         ELSE /\ entries' = {[name |-> g, ver |-> objects[g].ver, fenced |-> objects[g].fenced] :
                                g \in page.names}
              /\ more' = HasMore(page)
              /\ rounds' = IF Store \in {"azure", "oci"} THEN rounds + 1 ELSE rounds
              /\ pos' = NextStart(page)
              /\ pc' = "entry"
              /\ UNCHANGED listed
    /\ tries' = 2
    /\ UNCHANGED <<skip, items>> /\ UNCHANGED others

\* for _ in range(MAX_GRAPH_PAGE_SIZE + 2): Azure and OCI give up after that.
NextPage ==
    /\ pc' = IF Store \in {"azure", "oci"} /\ rounds = MaxRounds THEN "failed" ELSE "list"
    /\ skip' = IF Store = "gcs" THEN pos.at ELSE skip
    /\ UNCHANGED <<pos, listed>>

\* On to the next entry, with the summaries found so far.
Continue(found, rest) ==
    /\ items' = found /\ entries' = rest
    /\ tries' = 2
    /\ IF Cardinality(found) > Limit \/ (rest = {} /\ ~more) THEN Reply(found) /\ UNCHANGED skip
       ELSE IF rest = {} THEN NextPage
       ELSE pc' = "entry" /\ UNCHANGED <<pos, skip, listed>>

\* The first look uses the properties that came with the page, where there are
\* any; a second look, or a first one of S3 and OCI, asks for them.
Properties(entry) ==
    IF Store \in {"s3", "oci"} \/ tries = 1 THEN objects[entry.name]
    ELSE [ver |-> entry.ver, fenced |-> entry.fenced]

\* metadata.summary of a graph that is not fenced.
Summary(entry, head) == IF Shown(head) THEN {[name |-> entry.name, rev |-> head.ver]} ELSE {}

FirstEntry == CHOOSE e \in entries : e.name = Min(NamesOf(entries))

\* _summary_from_key, _summary_from_entry, _summary_from_blob: the graph is
\* shown, gone, or fenced and to be looked into.
Entry ==
    /\ pc = "entry"
    /\ LET entry == FirstEntry
           head == Properties(entry)
       IN  IF entry.name # skip /\ head.ver # 0 /\ Summary(entry, head) = {}
           THEN /\ pc' = "read"
                /\ entries' = (entries \ {entry})
                                \union {[name |-> entry.name, ver |-> head.ver, fenced |-> TRUE]}
                /\ UNCHANGED <<items, tries, pos, skip, listed>>
           ELSE Continue(IF entry.name = skip THEN items ELSE items \union Summary(entry, head), entries \ {entry})
    /\ UNCHANGED <<more, rounds>> /\ UNCHANGED others

\* A fenced graph is read; if it is still the same its delete is completed
\* (_resolve_loaded_graph, in JournaledGraphStore), if it is another one it is
\* looked at once more.
Read ==
    /\ pc = "read"
    /\ LET entry == FirstEntry
           now == objects[entry.name]
       IN  IF now.ver = 0
           THEN Continue(items, entries \ {entry}) /\ UNCHANGED others
           ELSE IF now.ver = entry.ver
           THEN /\ Continue(items, entries \ {entry})
                /\ Becomes(entry.name, Absent) /\ UNCHANGED writes
           ELSE /\ tries' = tries - 1
                /\ pc' = IF tries = 1 THEN "failed" ELSE "entry"
                /\ UNCHANGED <<entries, items, pos, skip, listed>> /\ UNCHANGED others
    /\ UNCHANGED <<more, rounds>>

\* A provider call fails, and so does the request.
Fail ==
    /\ pc \in {"list", "entry", "read"}
    /\ pc' = "failed"
    /\ UNCHANGED <<pos, skip, entries, more, rounds, tries, items, listed>> /\ UNCHANGED others

Next ==
    \/ LockedPage \/ BeginPage \/ ListPage \/ Entry \/ Read \/ Fail
    \/ \E g \in Graphs : Change(g) \/ Delete(g)

Spec == Init /\ [][Next]_listVars

-----------------------------------------------------------------------------

\* When the client has the last page, it has seen every graph that was there
\* all the time, whatever happened to its neighbours and wherever the pages of
\* the provider ended.
ListsWhatStays ==
    pc = "complete" => \A g \in stable : \E i \in 1 .. Len(listed) : g \in NamesOf(listed[i])

\* No graph is shown twice, names ascend, and every summary was true at some
\* time while the client paged: no graph appears that was being deleted all along.
ShowsWhatWas ==
    \A i \in 1 .. Len(listed) :
        /\ listed[i] \subseteq visible
        /\ \A e, f \in listed[i] : e.name = f.name => e = f
        /\ \A j \in 1 .. i - 1 : \A e \in listed[i], f \in listed[j] : f.name < e.name

-----------------------------------------------------------------------------
(***************************************************************************)
(* The inductive invariant.  A page in the making divides the names: those *)
(* that were shown or found come first, then what is left of the provider  *)
(* page, then what lies beyond it.  A graph that stays is in one of the    *)
(* three; the name that an inclusive page repeats is in the first.         *)
(***************************************************************************)

ObjectsOK ==
    /\ objects \in [Graphs -> [ver : Nat, fenced : BOOLEAN]] /\ writes \in Nat
    /\ stable \subseteq {g \in Graphs : Shown(objects[g])}
    /\ Now(objects) \subseteq visible

Summaries == [name : Graphs, rev : Nat]

TypeOK ==
    /\ pc \in {"page", "list", "entry", "read", "complete", "failed"}
    /\ pos \in [at : Nat, inclusive : BOOLEAN] /\ skip \in Nat
    /\ entries \subseteq [name : Graphs, ver : Nat, fenced : BOOLEAN] /\ more \in BOOLEAN
    /\ items \subseteq Summaries /\ listed \in Seq(SUBSET Summaries)

OneOfEach(page) == \A e, f \in page : e.name = f.name => e = f

\* The next provider page does not come back to this name, except where it
\* begins with the last one again.
Behind(n) == IF Store = "oci" /\ pos.inclusive THEN n < pos.at ELSE n <= pos.at

WasListed(n) == \E i \in 1 .. Len(listed) : n \in NamesOf(listed[i])

\* Names shown or found before.
Past(n) == WasListed(n) \/ n \in NamesOf(items)

PageOK ==
    /\ \A e \in items : Behind(e.name) /\ \A n \in Graphs : WasListed(n) => n < e.name
    /\ items \subseteq visible /\ OneOfEach(items)
    /\ skip <= pos.at /\ (Store = "oci" => skip = 0)

EntriesOK ==
    /\ entries # {} /\ OneOfEach(entries)
    /\ \A e \in entries :
         /\ Behind(e.name)
         /\ e.name # skip => \A n \in Graphs : Past(n) => n < e.name
         /\ Shown(e) => [name |-> e.name, rev |-> e.ver] \in visible
         /\ e.name \in stable => Shown(e)
    /\ pos.inclusive => Store \in {"gcs", "oci"}

Left(g) == g # skip /\ g \in NamesOf(entries)

ListInv ==
    /\ ObjectsOK /\ TypeOK /\ ShowsWhatWas
    /\ pc \in {"page", "list", "entry", "read"} => \A n \in Graphs : WasListed(n) => Behind(n)
    /\ pc = "page" => ~pos.inclusive /\ \A g \in stable : WasListed(g) \/ g > pos.at
    /\ pc \in {"list", "entry", "read"} => PageOK
    /\ pc = "list" => /\ pos.inclusive /\ Store # "oci" => skip = pos.at
                      /\ \A g \in stable : Past(g) \/ (Ahead(g) /\ g # skip)
    /\ pc \in {"entry", "read"} =>
         EntriesOK /\ \A g \in stable : Past(g) \/ Left(g) \/ (more /\ ~Behind(g))
    /\ pc = "read" => \A e \in entries : (\A f \in entries : e.name <= f.name) => e.name \notin stable
    /\ ListsWhatStays
=============================================================================

-------------------------- MODULE ControlRequests --------------------------
(* Requests to the hosted Control API: the transport (control/http.py), the       *)
(* authorization of a route (control/auth.py) and the application behind it        *)
(* (control/application.py), over one graph and the runs started from it.          *)
(*                                                                             *)
(* A request passes the middleware, the route's dependency, the reading of its     *)
(* body, which awaits, and the handler in a worker thread; requests of several     *)
(* clients interleave between these steps.  A client keeps the ETag it heard       *)
(* last; an answer may be lost.  The graph store's and the lifecycle's operations  *)
(* are atomic here.                                                              *)
EXTENDS Integers, FiniteSets

CONSTANTS
    Clients,
    Principals,     \* the identities access tokens are issued to
    RolesOf,        \* principal -> the roles claim of its access tokens
    Allowlist,      \* config.subject_allowlist
    Hosted,         \* whether OIDC is configured
    Wired,          \* "preview", "lifecycle", "repairs": the ports of the profile
    Used,           \* the routes clients call
    Flaws,          \* what may be wrong with a request; "none" for nothing
    Keys, Docs,     \* idempotency keys and documents
    MaxRevision, MaxLost    \* bounds: revisions and lost answers

PortsAssumption == "repairs" \in Wired => "lifecycle" \in Wired

VARIABLES
    graph,          \* the current revision, 0 when there is no graph
    revision,       \* the last revision given out
    created, deleted,   \* idempotency records of the store: key -> request and result
    runs,           \* idempotency key -> the revision a run was started from, 0 for none
    req, phase, status,     \* client -> its request, how far it is, the answer
    pinned,         \* client -> the revision start_run has checked
    etag,           \* client -> the revision of the ETag it holds
    listed,         \* principal -> the operations it was told it has, {} before
    shown, lost     \* history: the revisions a client was shown; lost answers

store == <<graph, revision, created, deleted, runs>>
told == <<etag, listed, shown, lost>>
vars == <<store, told, req, phase, status, pinned>>

NoRequest == [route |-> "none", who |-> "none", key |-> 0, doc |-> 0, flaw |-> "none", match |-> 0]

NoRecord == [rev |-> 0, what |-> 0]

------------------------------------------------------------------------------
(* Routes, the capability each requires and the operation a client knows it by.     *)
Mutations == {"create", "put", "delete", "start", "repair", "cancel", "replay"}
Previews == {"validate", "changes", "deployment", "repair-preview"}
RunReads == {"run", "explanation", "logs"}
Routes == Mutations \cup Previews \cup RunReads \cup {"capabilities", "get"}

(* auth_dependencies(...) of each route.                                          *)
Capability(route) ==
    CASE route \in {"create", "put"} -> "edit"
      [] route = "delete" -> "admin"
      [] route \in Previews -> "validate_preview"
      [] route \in {"start", "repair", "cancel", "replay"} -> "run"
      [] OTHER -> "read"

Operation(route) ==
    CASE route = "get" -> "graph.read"
      [] route \in {"create", "put"} -> "graph.edit"
      [] route = "delete" -> "graph.delete"
      [] route = "validate" -> "graph.validate"
      [] route = "changes" -> "graph.change-preview"
      [] route = "deployment" -> "deployment.preview"
      [] route = "repair-preview" -> "graph.repair-preview"
      [] route = "start" -> "run.start"
      [] route = "repair" -> "run.repair"
      [] route = "cancel" -> "run.cancel"
      [] route = "replay" -> "run.replay"
      [] route = "run" -> "run.read"
      [] route = "explanation" -> "run.explain"
      [] route = "logs" -> "run.logs"
      [] OTHER -> "none"

(* _operation_capability                                                          *)
OperationCapability(op) ==
    CASE op = "graph.edit" -> "edit"
      [] op \in {"graph.validate", "graph.change-preview", "graph.repair-preview",
                 "deployment.preview"} -> "validate_preview"
      [] op \in {"run.start", "run.repair", "run.cancel", "run.replay"} -> "run"
      [] op = "graph.delete" -> "admin"
      [] OTHER -> "read"

(* _ROLE_CAPABILITIES                                                             *)
RoleCapabilities ==
    [viewer |-> {"read"},
     editor |-> {"read", "edit", "validate_preview"},
     operator |-> {"read", "edit", "validate_preview", "run"},
     admin |-> {"read", "edit", "validate_preview", "run", "admin"}]

Accepted(roles) == roles # {} /\ roles \subseteq DOMAIN RoleCapabilities

(* capabilities_for_roles                                                         *)
CapabilitiesFor(roles) == UNION {RoleCapabilities[r] : r \in roles}

(* ControlApplication.capabilities: what the profile's ports allow.                  *)
Available ==
    {"graph.read", "graph.edit", "graph.delete", "graph.validate", "graph.change-preview"}
    \cup (IF "preview" \in Wired THEN {"deployment.preview"} ELSE {})
    \cup (IF "lifecycle" \in Wired
          THEN {"run.start", "run.read", "run.explain", "run.logs", "run.cancel", "run.replay"} ELSE {})
    \cup (IF "repairs" \in Wired THEN {"graph.repair-preview", "run.repair"} ELSE {})

(* The capabilities route filters them by the principal's capabilities.               *)
ListedFor(p) ==
    IF ~ Hosted THEN Available
    ELSE {op \in Available : OperationCapability(op) \in CapabilitiesFor(RolesOf[p])}

------------------------------------------------------------------------------
Init ==
    /\ graph = 0 /\ revision = 0
    /\ created = [k \in Keys |-> NoRecord] /\ deleted = [k \in Keys |-> NoRecord]
    /\ runs = [k \in Keys |-> 0]
    /\ req = [c \in Clients |-> NoRequest]
    /\ phase = [c \in Clients |-> "idle"] /\ status = [c \in Clients |-> 0]
    /\ pinned = [c \in Clients |-> 0]
    /\ etag = [c \in Clients |-> 0] /\ listed = [p \in Principals |-> {}]
    /\ shown = [c \in Clients |-> {}] /\ lost = 0

(* A client sends a request with the ETag it holds, and with at most one flaw.        *)
Send(c) ==
    /\ phase[c] = "idle"
    /\ \E route \in Used, p \in Principals, k \in Keys, d \in Docs, f \in Flaws :
         req' = [req EXCEPT ![c] = [route |-> route, who |-> p, key |-> k, doc |-> d, flaw |-> f,
                                    match |-> etag[c]]]
    /\ phase' = [phase EXCEPT ![c] = "sent"]
    /\ status' = [status EXCEPT ![c] = 0]
    /\ UNCHANGED <<store, told, pinned>>

Goto(c, label) == phase' = [phase EXCEPT ![c] = label]

(* The middleware replaces an answer that is too large.                             *)
Final(c, code) == IF req[c].flaw = "oversized" THEN 500 ELSE code

(* The answer leaves; the client hears it, with the ETag rev and the operations ops     *)
(* if it carries them, or never does.                                               *)
AnswerWith(c, code, rev, ops) ==
    /\ Goto(c, "idle") /\ req' = [req EXCEPT ![c] = NoRequest]
    /\ pinned' = [pinned EXCEPT ![c] = 0]
    /\ status' = [status EXCEPT ![c] = Final(c, code)]
    /\ \/ /\ lost < MaxLost /\ lost' = lost + 1
          /\ UNCHANGED <<etag, listed, shown>>
       \/ /\ UNCHANGED lost
          /\ IF Final(c, code) # code
             THEN UNCHANGED <<etag, listed, shown>>
             ELSE /\ etag' = [etag EXCEPT ![c] = IF rev = 0 THEN @ ELSE rev]
                  /\ shown' = [shown EXCEPT ![c] = @ \cup ({rev} \ {0})]
                  /\ listed' = [listed EXCEPT ![req[c].who] = IF ops = {} THEN @ ELSE ops]

Answer(c, code) == AnswerWith(c, code, 0, {})

(* _error_response: nothing has been changed.                                       *)
Refuse(c, code) == Answer(c, code) /\ UNCHANGED store

(* The middleware: no tokens in URLs, no foreign origins.                             *)
Admit(c) ==
    /\ phase[c] = "sent"
    /\ CASE Hosted /\ req[c].flaw = "token_in_url" -> Refuse(c, 400)
         [] Hosted /\ req[c].flaw = "origin" -> Refuse(c, 403)
         [] OTHER -> /\ Goto(c, "auth")
                     /\ UNCHANGED <<store, told, req, status, pinned>>

(* HostedOIDCAuthorizer.require: the token, the roles, the allowlist, the capability.    *)
Authenticate(c) ==
    /\ phase[c] = "auth"
    /\ CASE Hosted /\ req[c].flaw = "expired" -> Refuse(c, 401)
         [] Hosted /\ req[c].flaw # "expired"
            /\ \/ ~ Accepted(RolesOf[req[c].who])
               \/ Allowlist # {} /\ req[c].who \notin Allowlist
               \/ Capability(req[c].route) \notin CapabilitiesFor(RolesOf[req[c].who]) -> Refuse(c, 403)
         [] OTHER -> /\ Goto(c, "body")
                     /\ UNCHANGED <<store, told, req, status, pinned>>

HasBody == {"create", "put", "changes", "repair", "repair-preview"}
MatchRoutes == {"put", "delete", "start", "repair"} \cup Previews
KeyRoutes == {"create", "delete", "start", "repair", "cancel", "replay"}

(* The headers are validated, then the body is read to its bound or found empty.        *)
ReadRequest(c) ==
    LET r == req[c] IN
    /\ phase[c] = "body"
    /\ CASE r.flaw = "no_header" /\ r.route \in MatchRoutes \cup KeyRoutes -> Refuse(c, 422)
         [] r.flaw = "media_type" /\ r.route \in HasBody -> Refuse(c, 415)
         [] r.flaw = "large_body" /\ r.route \in HasBody -> Refuse(c, 413)
         [] r.flaw = "bad_body" /\ r.route \in (HasBody \cup Mutations) -> Refuse(c, 422)
         [] OTHER -> /\ Goto(c, "handler")
                     /\ UNCHANGED <<store, told, req, status, pinned>>

------------------------------------------------------------------------------
(* The handlers.                                                                   *)
At(c, routes) == phase[c] = "handler" /\ req[c].route \in routes

(* decode_revision_etag: one strong ETag in the form that encode_revision_etag gives.      *)
Decodes(c) == req[c].flaw # "bad_etag"

MutMatched(c) == graph # 0

(* The store's comparison of the revision.                                           *)
Matched(c) == graph # 0 /\ graph = req[c].match

Same(record, what) == record.rev # 0 /\ record.what = what

GetGraph(c) ==
    /\ At(c, {"get"})
    /\ IF graph = 0 \/ req[c].flaw = "project" THEN Refuse(c, 404)
       ELSE AnswerWith(c, 200, graph, {}) /\ UNCHANGED store

Capabilities(c) ==
    /\ At(c, {"capabilities"})
    /\ AnswerWith(c, 200, 0, ListedFor(req[c].who)) /\ UNCHANGED store

CreateGraph(c) ==
    LET record == created[req[c].key] IN
    /\ At(c, {"create"})
    /\ CASE req[c].flaw = "project" -> Refuse(c, 404)
         [] req[c].flaw # "project" /\ Same(record, req[c].doc) ->
              AnswerWith(c, 201, record.rev, {}) /\ UNCHANGED store
         [] req[c].flaw # "project" /\ ~ Same(record, req[c].doc)
              /\ (record # NoRecord \/ graph # 0) -> Refuse(c, 409)
         [] OTHER ->
              /\ revision < MaxRevision
              /\ revision' = revision + 1 /\ graph' = revision + 1
              /\ created' = [created EXCEPT ![req[c].key] = [rev |-> revision + 1, what |-> req[c].doc]]
              /\ AnswerWith(c, 201, revision + 1, {})
              /\ UNCHANGED <<deleted, runs>>

PutGraph(c) ==
    /\ At(c, {"put"})
    /\ CASE req[c].flaw = "project" -> Refuse(c, 404)
         [] req[c].flaw # "project" /\ ~ Decodes(c) -> Refuse(c, 400)
         [] req[c].flaw # "project" /\ Decodes(c) /\ ~ Matched(c) -> Refuse(c, IF graph = 0 THEN 404 ELSE 409)
         [] OTHER ->
              /\ revision < MaxRevision
              /\ revision' = revision + 1 /\ graph' = revision + 1
              /\ AnswerWith(c, 200, revision + 1, {})
              /\ UNCHANGED <<created, deleted, runs>>

DeleteGraph(c) ==
    LET record == deleted[req[c].key] IN
    /\ At(c, {"delete"})
    /\ CASE req[c].flaw = "project" -> Refuse(c, 404)
         [] req[c].flaw # "project" /\ ~ Decodes(c) -> Refuse(c, 400)
         [] req[c].flaw # "project" /\ Decodes(c) /\ record # NoRecord ->
              Refuse(c, IF Same(record, req[c].match) THEN 204 ELSE 409)
         [] req[c].flaw # "project" /\ Decodes(c) /\ record = NoRecord /\ ~ Matched(c) ->
              Refuse(c, IF graph = 0 THEN 404 ELSE 409)
         [] OTHER ->
              /\ graph' = 0
              /\ deleted' = [deleted EXCEPT ![req[c].key] = [rev |-> graph, what |-> req[c].match]]
              /\ Answer(c, 204)
              /\ UNCHANGED <<revision, created, runs>>

(* require_graph_revision: why a conditional operation on the saved graph is refused,    *)
(* 0 when it is not.                                                                *)
Objection(c, port) ==
    CASE ~ Decodes(c) -> 400
      [] Decodes(c) /\ port \notin Wired \cup {"none"} -> 501
      [] port \in Wired \cup {"none"} /\ Decodes(c) /\ (graph = 0 \/ req[c].flaw = "project") -> 404
      [] port \in Wired \cup {"none"} /\ Decodes(c) /\ graph # 0 /\ req[c].flaw # "project"
           /\ graph # req[c].match -> 412
      [] OTHER -> 0

PreviewPort(route) ==
    CASE route = "deployment" -> "preview" [] OTHER -> "none"

(* What a wired profile may still answer: no plan is registered for the graph, none      *)
(* matches its revision, fits the size or the budget, or has its backend (PlanSelection     *)
(* says when), and for a repair also that no output of the graph can be repaired.          *)
PlanRefusals == {409, 501}
RepairRefusals == PlanRefusals \cup {422}

(* The routes that ask for a plan or a backend.                                         *)
PlanRoutes == {"start", "repair", "repair-preview", "logs", "cancel", "replay"}

(* preview_repair asks for the resolver after it has checked the revision, then for the     *)
(* environments of the graph's plans, then for the targets of the graph.                  *)
Preview(c) ==
    LET why == Objection(c, PreviewPort(req[c].route)) IN
    /\ At(c, Previews)
    /\ \/ why # 0 /\ Refuse(c, why)
       \/ why = 0 /\ req[c].route = "repair-preview" /\ "repairs" \notin Wired /\ Refuse(c, 501)
       \/ /\ why = 0 /\ req[c].route = "repair-preview" /\ "repairs" \in Wired
          /\ \E code \in RepairRefusals : Refuse(c, code)
       \/ /\ why = 0 /\ (req[c].route = "repair-preview" => "repairs" \in Wired)
          /\ Refuse(c, 200)

(* start_run up to the lock: the revision is checked and the record kept; a repair is       *)
(* previewed, and its environment is one that the preview names.                          *)
StartRun(c) ==
    LET why == Objection(c, "lifecycle") IN
    /\ At(c, {"start", "repair"})
    /\ \/ why # 0 /\ Refuse(c, why)
       \/ why = 0 /\ req[c].route = "repair" /\ "repairs" \notin Wired /\ Refuse(c, 501)
       \/ /\ why = 0 /\ req[c].route = "repair" /\ "repairs" \in Wired
          /\ \E code \in RepairRefusals : Refuse(c, code)
       \/ /\ why = 0 /\ (req[c].route = "repair" => "repairs" \in Wired)
          /\ pinned' = [pinned EXCEPT ![c] = graph] /\ Goto(c, "start")
          /\ UNCHANGED <<store, told, req, status>>

(* The run of the key is started from the record.                                       *)
Started(c) == [runs EXCEPT ![req[c].key] = pinned[c]]

(* Under _run_start_lock: the run the key stands for, a refusal of resolve or of the        *)
(* registries, or a new run from the record.  A closed lifecycle or a failing store or       *)
(* backend is answered with 503, before or after the key was claimed.                     *)
Submit(c) ==
    LET known == runs[req[c].key] IN
    /\ phase[c] = "start"
    /\ UNCHANGED <<graph, revision, created, deleted>>
    /\ \/ known # 0 /\ known = pinned[c] /\ Answer(c, 202) /\ UNCHANGED runs
       \/ known # 0 /\ known # pinned[c] /\ Answer(c, 409) /\ UNCHANGED runs
       \/ \E code \in PlanRefusals : Answer(c, code) /\ UNCHANGED runs
       \/ known = 0 /\ Answer(c, 202) /\ runs' = Started(c)
       \/ Answer(c, 503) /\ UNCHANGED runs
       \/ known = 0 /\ Answer(c, 503) /\ runs' = Started(c)

(* Routes of a run: without a lifecycle they are unavailable; logs, cancel and replay ask    *)
(* for the run's plan and its backend.  What cancel and replay do to a run is in ControlRuns. *)
RunRoute(c) ==
    /\ At(c, RunReads \cup {"cancel", "replay"})
    /\ \/ "lifecycle" \notin Wired /\ Refuse(c, 501)
       \/ "lifecycle" \in Wired /\ (\A k \in Keys : runs[k] = 0) /\ Refuse(c, 404)
       \/ /\ "lifecycle" \in Wired /\ (\E k \in Keys : runs[k] # 0)
          /\ \E code \in {200, 503} \cup (IF req[c].route \in PlanRoutes THEN PlanRefusals ELSE {}) :
               Refuse(c, code)

Handler(c) ==
    \/ GetGraph(c) \/ Capabilities(c) \/ CreateGraph(c) \/ PutGraph(c) \/ DeleteGraph(c)
    \/ Preview(c) \/ StartRun(c) \/ Submit(c) \/ RunRoute(c)

Next ==
    \E c \in Clients :
        \/ Send(c) \/ Admit(c) \/ Authenticate(c) \/ ReadRequest(c) \/ Handler(c)

Spec == Init /\ [][Next]_vars

------------------------------------------------------------------------------
TypeOK ==
    /\ revision \in Nat /\ graph \in 0..revision
    /\ DOMAIN created = Keys /\ DOMAIN deleted = Keys /\ DOMAIN runs = Keys /\ DOMAIN listed = Principals
    /\ DOMAIN req = Clients /\ DOMAIN phase = Clients /\ DOMAIN status = Clients
    /\ DOMAIN pinned = Clients /\ DOMAIN etag = Clients /\ DOMAIN shown = Clients
    /\ \A c \in Clients :
         /\ phase[c] \in {"idle", "sent", "auth", "body", "handler", "start"}
         /\ phase[c] # "idle" => req[c].who \in Principals /\ req[c].key \in Keys

(* The request of c is answered in this step.                                            *)
Answers(c) == phase[c] # "idle" /\ phase'[c] = "idle"

(* No edit is lost: a graph is replaced or deleted only by a client that was shown the       *)
(* revision it destroys, however requests of several editors interleave.                   *)
EditsWereSeen ==
    \A c \in Clients :
         (graph # 0 /\ graph' # graph /\ Answers(c)) => graph \in shown[c]

(* The rights the documentation gives to the roles, stated by themselves.                    *)
MayChange(c) ==
    CASE req[c].route \in {"create", "put"} -> {"editor", "operator", "admin"}
      [] req[c].route \in {"start", "repair"} -> {"operator", "admin"}
      [] req[c].route = "delete" -> {"admin"}
      [] OTHER -> {}

(* What changes the graph or starts a run was asked for by a client whose roles allow it,     *)
(* with a token that had not expired.                            *)
OnlyCapable ==
    \A c \in Clients :
         (Hosted /\ store' # store /\ Answers(c)) =>
            /\ RolesOf[req[c].who] \cap MayChange(c) # {}
            /\ Allowlist = {} \/ req[c].who \in Allowlist
            /\ req[c].flaw # "expired"

(* A client-error answer, or that an operation is unavailable, means that the request has      *)
(* changed nothing, and a success that its change is there; only the other server errors       *)
(* leave the client in doubt.                                                               *)
AnswersAreHonest ==
    \A c \in Clients :
         Answers(c) =>
            /\ status'[c] \in (400..499) \cup {501} => store' = store
            /\ (status'[c] = 200 /\ req[c].route = "put") => graph' # graph
            /\ (status'[c] = 202) => runs'[req[c].key] = req[c].match
            /\ (status'[c] = 201) => created'[req[c].key].what = req[c].doc

(* An operation the capabilities route lists for a client is never refused to it as           *)
(* forbidden, and as unavailable only when it needs a plan and the graph or the run has none;    *)
(* one it leaves out is refused, as such or for the graph it names: the table of the routes      *)
(* and the table of the operations agree.                                                  *)
ListedIsHonoured ==
    \A c \in Clients :
         LET op == Operation(req[c].route) IN
         (Answers(c) /\ listed[req[c].who] # {} /\ op # "none" /\ req[c].flaw = "none") =>
            IF op \in listed[req[c].who]
            THEN status'[c] # 403 /\ (status'[c] = 501 => req[c].route \in PlanRoutes)
            ELSE status'[c] \in {401, 403, 404, 412, 501}

(* A run is started from the revision its request named, also when the graph is edited          *)
(* between the check and the start.                                                        *)
RunsAreWhatWasAsked ==
    \A c \in Clients :
         (runs' # runs /\ Answers(c)) => runs'[req[c].key] = req[c].match

------------------------------------------------------------------------------
(* The invariant of the action properties, which ControlWorkProofs shows to be             *)
(* inductive for every set of clients, principals, roles, routes and ports.                *)

(* Whom the authorizer lets in.                                                          *)
MayEnter(p) == Accepted(RolesOf[p]) /\ (Allowlist = {} \/ p \in Allowlist)

(* A request that has passed the authorizer.                                              *)
Authorized(r) ==
    Hosted => /\ r.flaw # "expired" /\ MayEnter(r.who)
              /\ Capability(r.route) \in CapabilitiesFor(RolesOf[r.who])

(* A client holds ETags it was shown, the handlers see authorized requests, and a start       *)
(* is pinned to the revision it named, on a profile that can run it.                        *)
ClientOK(c) ==
    /\ etag[c] \in shown[c] \cup {0}
    /\ phase[c] # "idle" => req[c].match \in shown[c] \cup {0}
    /\ phase[c] \in {"body", "handler", "start"} => Authorized(req[c])
    /\ phase[c] = "start" => /\ req[c].route \in {"start", "repair"} /\ pinned[c] = req[c].match
                             /\ "lifecycle" \in Wired
                             /\ req[c].route = "repair" => "repairs" \in Wired

(* Who was told its operations was told all of them, and may enter.                         *)
ListedOK ==
    \A p \in Principals : listed[p] # {} => listed[p] = ListedFor(p) /\ (Hosted => MayEnter(p))

RequestInv == TypeOK /\ ListedOK /\ \A c \in Clients : ClientOK(c)
=============================================================================

------------------------ MODULE UnderwritingVersions ------------------------
(***************************************************************************)
(* The underwriting tools that write: internal/tools/underwriting.go over  *)
(* internal/reisearch/underwriting.go, and submit_property_renovation      *)
(* (internal/{tools,reisearch}/renovation.go), which writes to the same    *)
(* versions.                                                               *)
(*                                                                         *)
(* Agents of one user call the tools at the same time, each with one       *)
(* intention, and call again when a call failed and its error allows it.   *)
(* A call validates its input, sends one request to the backend and waits  *)
(* at most 15 s for the reply; rename first lists the versions.  A request *)
(* can be applied and its reply lost, or be applied after the call has     *)
(* given up.                                                               *)
(*                                                                         *)
(* The versions of one property are modelled: for each its strategy, its   *)
(* name and the cells (sections, rooms, deal score) it holds.  What a cell *)
(* contains is left out.                                                   *)
(***************************************************************************)
EXTENDS Naturals

CONSTANTS
    Agents,
    Inputs,        \* tool inputs an agent may be given
    Strategies,    \* coLiving and fixFlip
    Names,         \* version names
    None,          \* an input field that is not set
    Initial,       \* the versions at the beginning, a sequence
    MaxVersions    \* bound on the version ids

Attempts == {1, 2}          \* an agent retries once
Calls == Agents \X Attempts
Ids == 1..MaxVersions
Cells == {"section", "room", "dealScore"}

Tools == {"create_section", "update_section", "upsert_room", "submit_renovation",
          "delete_room", "clone", "rename", "deal_score", "delete_version"}

(* The tools that have create_new among their inputs.                      *)
Starters == {"create_section", "update_section", "upsert_room", "submit_renovation"}

(* `complete`: the fields not modelled (propertyID, section, path, data,   *)
(* room, score, ...) pass their checks.                                    *)
Input == [tool : Tools, complete : BOOLEAN, strategy : Strategies,
          version : Ids \cup {None}, createNew : BOOLEAN,
          name : Names \cup {None}]

(* A backend request: `route` names the endpoint, `cell` what it touches.  *)
Request == [route : {"create", "write", "remove", "clone", "rename", "delete"},
            strategy : Strategies, version : Ids \cup {None},
            createNew : BOOLEAN, name : Names \cup {None},
            cell : Cells \cup {None}]

Version == [strategy : Strategies, name : Names \cup {None}, cells : SUBSET Cells]

(* Answers of the API that say why nothing was done.                       *)
Refusals == {"conflict", "version_not_found", "room_not_found", "name_unchanged"}

(* What a tool call returns: besides success, an API error; "server_error",*)
(* any other status; "failed", an error that is not an API error; and      *)
(* "warned", the same with the hint to list before retrying.               *)
Results == {"ok", "skipped", "invalid", "server_error", "failed", "warned"}
              \cup Refusals

VARIABLES
    input,      \* what each agent intends
    pc,         \* where each call is
    request,    \* the request each call has sent, or None
    wire,       \* that request, as the backend sees it
    result,     \* what each call returned, or None
    listed,     \* the name a rename's list showed, or "nothing"
    checked,    \* what an agent's list before its retry showed
    versions,   \* the versions of the property, at the backend
    issued,     \* number of ids the backend has issued
    applied,    \* calls whose request changed the versions
    late        \* those whose call had returned before

vars == <<input, pc, request, wire, result, listed, checked, versions, issued,
          applied, late>>

ASSUME InputsAssumption ==
    /\ Inputs \subseteq Input
    /\ \A in \in Inputs : /\ in.createNew => in.tool \in Starters
                          /\ in.tool = "update_section" => in.name = None
ASSUME InitialAssumption ==
    MaxVersions \in Nat /\ \E n \in 0..MaxVersions : Initial \in [1..n -> Version]
ASSUME NoneAssumption ==
    /\ None \notin Ids /\ None \notin Names /\ None \notin Cells
    /\ None \notin Request /\ None \notin Version
    /\ None \notin Results \cup {"nothing"} /\ "nothing" \notin Names

TypeOK ==
    /\ input \in [Agents -> Inputs]
    /\ pc \in [Calls -> {"idle", "listing", "waiting", "returned"}]
    /\ request \in [Calls -> Request \cup {None}]
    /\ wire \in [Calls -> {"none", "sent", "done"} \cup Refusals]
    /\ result \in [Calls -> Results \cup {None}]
    /\ listed \in [Calls -> Names \cup {None, "nothing"}]
    /\ checked \in [Agents -> {"no", "present", "absent"}]
    /\ versions \in [Ids -> Version \cup {None}]
    /\ issued \in 0..MaxVersions
    /\ applied \in SUBSET Calls
    /\ late \in SUBSET applied

Init ==
    /\ input \in [Agents -> Inputs]
    /\ pc = [c \in Calls |-> "idle"]
    /\ request = [c \in Calls |-> None]
    /\ wire = [c \in Calls |-> "none"]
    /\ result = [c \in Calls |-> None]
    /\ listed = [c \in Calls |-> "nothing"]
    /\ checked = [i \in Agents |-> "no"]
    /\ versions = [v \in Ids |-> IF v \in DOMAIN Initial THEN Initial[v] ELSE None]
    /\ issued = CHOOSE n \in 0..MaxVersions : DOMAIN Initial = 1..n
    /\ applied = {}
    /\ late = {}

-----------------------------------------------------------------------------
(* The agents, from the hints they are given. *)

In(c) == input[c[1]]

(* A call that starts a new version, and is not idempotent.                *)
Creates(in) == in.createNew \/ in.tool = "clone"

(* The hint of nonIdempotentError asks to list before a retry;             *)
(* submit_property_renovation asks for it in its description.              *)
MustList(c) ==
    \/ result[c] = "warned"
    \/ result[c] = "failed" /\ In(c).tool = "submit_renovation" /\ In(c).createNew

(* An agent calls with ids it has seen.  It calls again after an error     *)
(* that does not say why nothing was done, and having listed where it must.*)
MayCall(c) ==
    /\ pc[c] = "idle"
    /\ In(c).version \in Ids => In(c).version <= issued
    /\ c[2] = 2 =>
          LET first == <<c[1], 1>> IN
          /\ result[first] \in {"server_error", "failed", "warned"}
          /\ MustList(first) => checked[c[1]] = "absent"

-----------------------------------------------------------------------------
(* The requests of the client. *)

Req(route, in, createNew, name, cell) ==
    [route |-> route, strategy |-> in.strategy, version |-> in.version,
     createNew |-> createNew, name |-> name, cell |-> cell]

(* The selector of a write that may start a version.                       *)
Select(route, in, name, cell) == Req(route, in, in.createNew, name, cell)

(* The handlers pass a name on with create_new only.                       *)
NewName(in) == IF in.createNew THEN in.name ELSE None

CreateRequest(in) == Select("create", in, NewName(in), "section")

(* The route ignores a name: a new version gets a default one.             *)
UpdateRequest(in) == Select("write", in, None, "section")

UpsertRoomRequest(in) == Select("write", in, NewName(in), "room")

SubmitRequest(in) == Select("write", in, in.name, "room")

(* Faulty variant: the version is not passed on.                           *)
DeleteRoomRequestUnpinned(in) ==
    [Req("remove", in, FALSE, None, "room") EXCEPT !.version = None]

(* Without a version, the backend takes the newest.                        *)
DeleteRoomRequest(in) == Req("remove", in, FALSE, None, "room")

CloneRequest(in) == Req("clone", in, FALSE, in.name, None)

RenameRequest(in) == Req("rename", in, FALSE, in.name, None)

DealScoreRequest(in) == Req("write", in, FALSE, None, "dealScore")

DeleteRequest(in) == Req("delete", in, FALSE, None, None)

-----------------------------------------------------------------------------
(* The tool handlers. *)

(* validateVersionSelection: exactly one of the two, and a name with       *)
(* create_new where it is required.                                        *)
ValidSelection(in, nameRequired) ==
    /\ in.createNew <=> in.version = None
    /\ in.createNew /\ nameRequired => in.name # None

Return(c, r) ==
    /\ pc' = [pc EXCEPT ![c] = "returned"]
    /\ result' = [result EXCEPT ![c] = r]

Send(c, q) ==
    /\ pc' = [pc EXCEPT ![c] = "waiting"]
    /\ request' = [request EXCEPT ![c] = q]
    /\ wire' = [wire EXCEPT ![c] = "sent"]

(* A tool called with an input it accepts sends its request, otherwise it  *)
(* returns at once.                                                        *)
Call(c, tool, valid, q) ==
    /\ MayCall(c)
    /\ In(c).tool = tool
    /\ IF In(c).complete /\ valid
       THEN Send(c, q) /\ UNCHANGED result
       ELSE Return(c, "invalid") /\ UNCHANGED <<request, wire>>
    /\ UNCHANGED <<input, listed, checked, versions, issued, applied, late>>

CreateUnderwritingSection(c) ==
    Call(c, "create_section", ValidSelection(In(c), FALSE), CreateRequest(In(c)))

UpdateUnderwritingSection(c) ==
    Call(c, "update_section", ValidSelection(In(c), FALSE), UpdateRequest(In(c)))

UpsertUnderwritingRoom(c) ==
    Call(c, "upsert_room", ValidSelection(In(c), TRUE), UpsertRoomRequest(In(c)))

SubmitPropertyRenovation(c) ==
    Call(c, "submit_renovation", ValidSelection(In(c), TRUE), SubmitRequest(In(c)))

DeleteUnderwritingRoom(c) ==
    Call(c, "delete_room", TRUE, DeleteRoomRequest(In(c)))

CloneUnderwritingVersion(c) ==
    Call(c, "clone", In(c).version # None, CloneRequest(In(c)))

SetUnderwritingDealScore(c) ==
    Call(c, "deal_score", In(c).version # None, DealScoreRequest(In(c)))

DeleteUnderwritingVersion(c) ==
    Call(c, "delete_version", In(c).version # None, DeleteRequest(In(c)))

(* Rename, first half: a valid call lists the versions.                    *)
RenameUnderwritingVersion(c) ==
    /\ MayCall(c)
    /\ In(c).tool = "rename"
    /\ IF In(c).complete /\ In(c).version # None /\ In(c).name # None
       THEN pc' = [pc EXCEPT ![c] = "listing"] /\ UNCHANGED result
       ELSE Return(c, "invalid")
    /\ UNCHANGED <<input, request, wire, listed, checked, versions, issued,
                   applied, late>>

-----------------------------------------------------------------------------
(* The backend, from how the client uses it. *)

Live(strategy) == {v \in Ids : versions[v] # None /\ versions[v].strategy = strategy}

(* The version a request without create_new means, if there is one.        *)
Targets(q) ==
    {v \in Live(q.strategy) : IF q.version = None
                              THEN \A w \in Live(q.strategy) : w <= v
                              ELSE v = q.version}

Refused(q) ==
    IF q.createNew THEN {}
    ELSE IF Targets(q) = {} THEN {"version_not_found"}
    ELSE {why \in Refusals : \E v \in Targets(q) :
             \/ /\ why = "conflict"
                /\ q.route = "create" /\ q.cell \in versions[v].cells
             \/ /\ why = "room_not_found"
                /\ q.route = "remove" /\ q.cell \notin versions[v].cells
             \/ /\ why = "name_unchanged"
                /\ q.route = "rename" /\ q.name = versions[v].name}

Refuse(c) ==
    /\ wire[c] = "sent"
    /\ \E why \in Refused(request[c]) : wire' = [wire EXCEPT ![c] = why]
    /\ UNCHANGED <<input, pc, request, result, listed, checked, versions,
                   issued, applied, late>>

Changed(q, v) ==
    IF q.route \in {"create", "write"} THEN [versions[v] EXCEPT !.cells = @ \cup {q.cell}]
    ELSE IF q.route = "remove" THEN [versions[v] EXCEPT !.cells = @ \ {q.cell}]
    ELSE IF q.route = "rename" THEN [versions[v] EXCEPT !.name = q.name]
    ELSE None    \* delete

(* A new version: a copy of the target, or only the cell written.          *)
Started(q) ==
    {[strategy |-> q.strategy, name |-> q.name, cells |-> cells] :
        cells \in IF q.createNew THEN {{q.cell}}
                  ELSE {versions[v].cells : v \in Targets(q)}}

Apply(c) ==
    LET q == request[c] IN
    /\ wire[c] = "sent"
    /\ Refused(q) = {}
    /\ IF q.createNew \/ q.route = "clone"
       THEN /\ issued < MaxVersions
            /\ issued' = issued + 1
            /\ \E new \in Started(q) : versions' = [versions EXCEPT ![issued + 1] = new]
       ELSE /\ \E v \in Targets(q) : versions' = [versions EXCEPT ![v] = Changed(q, v)]
            /\ UNCHANGED issued
    /\ wire' = [wire EXCEPT ![c] = "done"]
    /\ applied' = applied \cup {c}
    /\ late' = IF pc[c] = "returned" THEN late \cup {c} ELSE late
    /\ UNCHANGED <<input, pc, request, result, listed, checked>>

-----------------------------------------------------------------------------
(* How a call ends: apiDo and the errors of the tools; renoDo, of          *)
(* submit_property_renovation, returns no API errors.                      *)

ApiError(c, r) == IF In(c).tool = "submit_renovation" THEN "failed" ELSE r

(* Faulty variant: no hint.                                                *)
PlainErrorUnwarned(c) == "failed"

(* nonIdempotentError for an error that is not an API error.               *)
PlainError(c) ==
    IF Creates(In(c)) /\ In(c).tool # "submit_renovation"
    THEN "warned" ELSE "failed"

(* Faulty variants: the status is not looked at; what the backend did is   *)
(* returned as it is.                                                      *)
AnswerUnchecked(c) ==
    /\ pc[c] = "waiting"
    /\ wire[c] # "sent"
    /\ Return(c, "ok")
    /\ UNCHANGED <<input, request, wire, listed, checked, versions, issued,
                   applied, late>>

AnswerRaw(c) ==
    /\ pc[c] = "waiting"
    /\ wire[c] # "sent"
    /\ Return(c, wire[c])
    /\ UNCHANGED <<input, request, wire, listed, checked, versions, issued,
                   applied, late>>

(* The reply arrived: a 2xx or a refusal.                                  *)
Answer(c) ==
    /\ pc[c] = "waiting"
    /\ wire[c] # "sent"
    /\ Return(c, IF wire[c] = "done" THEN "ok" ELSE ApiError(c, wire[c]))
    /\ UNCHANGED <<input, request, wire, listed, checked, versions, issued,
                   applied, late>>

(* A 500 of the API, or a 502 or 504 of what is in front of it; whether    *)
(* the request is applied is not known.                                    *)
ServerError(c) ==
    /\ pc[c] = "waiting"
    /\ Return(c, ApiError(c, "server_error"))
    /\ UNCHANGED <<input, request, wire, listed, checked, versions, issued,
                   applied, late>>

(* The 15 s are over, the transport failed or a 2xx could not be read.     *)
NoAnswer(c) ==
    /\ pc[c] = "waiting"
    /\ Return(c, PlainError(c))
    /\ UNCHANGED <<input, request, wire, listed, checked, versions, issued,
                   applied, late>>

(* Faulty variant: the names are not compared.                             *)
RenameListedUncompared(c) ==
    /\ pc[c] = "listing"
    /\ \E v \in Live(In(c).strategy) :
          v = In(c).version /\ listed' = [listed EXCEPT ![c] = versions[v].name]
    /\ Send(c, RenameRequest(In(c)))
    /\ UNCHANGED <<input, result, checked, versions, issued, applied, late>>

(* Rename, second half: the version has the name already, or the request   *)
(* is sent.                                                                *)
RenameListed(c) ==
    LET named == {v \in Live(In(c).strategy) : v = In(c).version} IN
    /\ pc[c] = "listing"
    /\ \/ /\ \E v \in named : versions[v].name = In(c).name
          /\ Return(c, "skipped")
          /\ UNCHANGED <<request, wire, listed>>
       \/ /\ \A v \in named : versions[v].name # In(c).name
          /\ \/ \E v \in named : listed' = [listed EXCEPT ![c] = versions[v].name]
             \/ named = {} /\ UNCHANGED listed
          /\ Send(c, RenameRequest(In(c)))
          /\ UNCHANGED result
    /\ UNCHANGED <<input, checked, versions, issued, applied, late>>

(* An error of the list is ignored.                                        *)
RenameUnlisted(c) ==
    /\ pc[c] = "listing"
    /\ Send(c, RenameRequest(In(c)))
    /\ UNCHANGED <<input, result, listed, checked, versions, issued, applied, late>>

(* list_underwriting_versions, called by an agent before its retry: is     *)
(* there a version with the name it asked for?                             *)
ListUnderwritingVersions(i) ==
    /\ pc[<<i, 1>>] = "returned"
    /\ MustList(<<i, 1>>)
    /\ checked[i] = "no"
    /\ checked' = [checked EXCEPT ![i] =
          IF \E v \in Live(input[i].strategy) : versions[v].name = input[i].name
          THEN "present" ELSE "absent"]
    /\ UNCHANGED <<input, pc, request, wire, result, listed, versions, issued,
                   applied, late>>

-----------------------------------------------------------------------------

Tool(c) ==
    \/ CreateUnderwritingSection(c)
    \/ UpdateUnderwritingSection(c)
    \/ UpsertUnderwritingRoom(c)
    \/ SubmitPropertyRenovation(c)
    \/ DeleteUnderwritingRoom(c)
    \/ CloneUnderwritingVersion(c)
    \/ SetUnderwritingDealScore(c)
    \/ DeleteUnderwritingVersion(c)
    \/ RenameUnderwritingVersion(c)

Ends(c) ==
    \/ RenameListed(c)
    \/ RenameUnlisted(c)
    \/ Answer(c)
    \/ NoAnswer(c)

Next ==
    \/ \E c \in Calls :
          \/ Tool(c)
          \/ Ends(c)
          \/ ServerError(c)
          \/ Refuse(c)
          \/ Apply(c)
    \/ \E i \in Agents : ListUnderwritingVersions(i)

Spec == Init /\ [][Next]_vars

-----------------------------------------------------------------------------
(* Properties *)

(* An agent that follows the hints makes one version of each intention,    *)
(* unless it could not know better: its first request was applied after    *)
(* its call had given up, or ended in a 5xx, which carries no hint, or     *)
(* another call renamed or deleted the version before the list             *)
(* (tools/underwriting.go:102-110).                                        *)
DuplicateOnlyIfUnknowable ==
    \A i \in Agents :
        (Creates(input[i]) /\ \A a \in Attempts : <<i, a>> \in applied) =>
            \/ <<i, 1>> \in late
            \/ result[<<i, 1>>] = "server_error"
            \/ \E c \in applied : request[c].route \in {"rename", "delete"}

(* What a call says is true, and stays true however late its request is    *)
(* applied: a success was applied, and one that says why nothing was done  *)
(* did nothing and never will.                                             *)
AnswerIsTruthful ==
    \A c \in Calls :
        /\ result[c] = "ok" => c \in applied
        /\ result[c] \in Refusals \cup {"skipped", "invalid"} =>
              c \notin applied /\ wire[c] # "sent"

(* "name unchanged" reaches the caller only if the list failed, or if      *)
(* another call - the first attempt of the same agent, maybe - gave the    *)
(* version this name after it was listed (tools/underwriting.go:440-456).  *)
UnchangedOnlyByRace ==
    \A c \in Calls : result[c] = "name_unchanged" =>
        \/ listed[c] = "nothing"
        \/ \E d \in applied \ {c} :
              /\ In(d).tool = "rename"
              /\ In(d).version = In(c).version /\ In(d).name = In(c).name

(* A version only changes by a call for its strategy that named it, or by  *)
(* delete_underwriting_room without a version while it is the newest.      *)
WritesWhereAsked ==
    [][\A v \in Ids : versions[v] \notin {None, versions'[v]} =>
          \E c \in applied' \ applied :
              /\ In(c).strategy = versions[v].strategy
              /\ \/ In(c).version = v /\ In(c).tool # "clone"
                 \/ /\ In(c).version = None /\ In(c).tool = "delete_room"
                    /\ \A w \in Live(In(c).strategy) : w <= v]_vars

(* "warns against blind retries when a create-type call failed without a   *)
(* definite API answer": a create-type call that fails without the warning *)
(* has created nothing.                                                    *)
UnwarnedFailureCreatedNothing ==
    \A c \in Calls :
        (Creates(In(c)) /\ result[c] \notin {None, "ok"} /\ ~MustList(c))
            => c \notin applied

=============================================================================

---------------------- MODULE UnderwritingVersionsProofs ----------------------
(***************************************************************************)
(* Proofs about UnderwritingVersions, for any agents, inputs, strategies,  *)
(* names and initial versions.                                             *)
(***************************************************************************)
EXTENDS UnderwritingVersions, TLAPS

(* What a request carries over from the input of its tool.                 *)
Right(c, q) ==
    /\ q.strategy = In(c).strategy
    /\ q.version = In(c).version
    /\ q.createNew = In(c).createNew
    /\ q.route = "clone" <=> In(c).tool = "clone"
    /\ q.route = "rename" <=> In(c).tool = "rename"
    /\ q.route = "rename" \/ Creates(In(c)) => q.name = In(c).name
    /\ q.createNew \/ q.route \in {"create", "write"} => q.cell \in Cells
    /\ q.version = None /\ ~q.createNew => In(c).tool = "delete_room"

RequestInv == \A c \in Calls : request[c] # None => Right(c, request[c])

(* A result says something of what the backend has done.                   *)
Fits(c, r) ==
    /\ r = "ok" => wire[c] = "done"
    /\ r \in Refusals => wire[c] = r
    /\ r \in {"skipped", "invalid"} => wire[c] = "none"
    /\ r = "failed" /\ Creates(In(c)) =>
          In(c).tool = "submit_renovation" /\ In(c).createNew

CallInv == \A c \in Calls :
    /\ pc[c] \in {"idle", "listing"} => wire[c] = "none" /\ request[c] = None
    /\ pc[c] = "listing" => In(c).tool = "rename" /\ In(c).version # None
    /\ pc[c] = "waiting" => wire[c] # "none"
    /\ pc[c] = "returned" <=> result[c] # None
    /\ wire[c] # "none" => request[c] # None
    /\ wire[c] = "done" <=> c \in applied
    /\ result[c] # None => Fits(c, result[c])

(* Ids are issued in order.                                                *)
IdsInv == \A v \in Ids : v > issued => versions[v] = None

(* A version listed under another name than the one a call wants to give   *)
(* it has that name only once another call has renamed it.                 *)
OtherRenamed(c) ==
    \E d \in applied \ {c} :
        /\ In(d).tool = "rename"
        /\ In(d).version = In(c).version /\ In(d).name = In(c).name

ListedInv == \A c \in Calls : listed[c] # "nothing" =>
    /\ In(c).version \in Ids /\ In(c).version <= issued
    /\ (/\ versions[In(c).version] # None
        /\ versions[In(c).version].name = In(c).name
        /\ c \notin applied) => OtherRenamed(c)

RaceInv == \A c \in Calls :
    wire[c] = "name_unchanged" => listed[c] = "nothing" \/ OtherRenamed(c)

(* What a list is looked at for: a version of an agent's intention.  Only  *)
(* a rename or a deletion hides it.                                        *)
Hidden == \E c \in applied : request[c].route \in {"rename", "delete"}

Made(i) == \E v \in Ids : /\ versions[v] # None
                          /\ versions[v].strategy = input[i].strategy
                          /\ versions[v].name = input[i].name

MadeInv == \A i \in Agents :
    Creates(input[i]) /\ <<i, 1>> \in applied => Hidden \/ Made(i)

(* An agent that found no version had its first request applied later, if  *)
(* at all.                                                                 *)
CheckedInv == \A i \in Agents :
    Creates(input[i]) /\ checked[i] = "absent" =>
        /\ pc[<<i, 1>>] = "returned"
        /\ <<i, 1>> \in applied => <<i, 1>> \in late \/ Hidden

RetryInv == \A i \in Agents :
    pc[<<i, 2>>] # "idle" =>
        /\ result[<<i, 1>>] \in {"server_error", "failed", "warned"}
        /\ MustList(<<i, 1>>) => checked[i] = "absent"

IInv == /\ TypeOK /\ RequestInv /\ CallInv /\ IdsInv /\ ListedInv /\ RaceInv
        /\ MadeInv /\ CheckedInv /\ RetryInv

-----------------------------------------------------------------------------

(* The fields of an input have their types, and what the tools ask of them.*)
LEMMA InputFacts ==
    ASSUME TypeOK, NEW c \in Calls
    PROVE  /\ In(c) \in Inputs
           /\ In(c).tool \in Tools /\ In(c).complete \in BOOLEAN
           /\ In(c).strategy \in Strategies
           /\ In(c).version \in Ids \cup {None}
           /\ In(c).createNew \in BOOLEAN
           /\ In(c).name \in Names \cup {None}
           /\ In(c).createNew => In(c).tool \in Starters
           /\ In(c).tool = "update_section" => In(c).name = None
<1>1. c[1] \in Agents
  BY DEF Calls
<1>2. In(c) \in Inputs
  BY <1>1 DEF TypeOK, In
<1>3. In(c) \in Input
  BY <1>2, InputsAssumption
<1> QED
  BY <1>2, <1>3, InputsAssumption DEF Input

LEMMA InitIInv == Init => IInv
<1> SUFFICES ASSUME Init PROVE IInv
  OBVIOUS
<1>1. PICK n \in 0..MaxVersions : Initial \in [1..n -> Version]
  BY InitialAssumption
<1>2. issued \in 0..MaxVersions /\ DOMAIN Initial = 1..issued
  <2>1. DOMAIN Initial = 1..n
    BY <1>1
  <2> QED
    BY <2>1 DEF Init
<1>3. \A v \in Ids : versions[v] = IF v \in 1..issued THEN Initial[v] ELSE None
  BY <1>2 DEF Init
<1>4. \A v \in 1..issued : Initial[v] \in Version
  BY <1>1, <1>2
<1>5. versions \in [Ids -> Version \cup {None}]
  BY <1>3, <1>4 DEF Init
<1>6. TypeOK
  BY <1>2, <1>5 DEF Init, TypeOK
<1>7. IdsInv
  BY <1>2, <1>3, InitialAssumption DEF IdsInv, Ids
<1>8. RequestInv /\ CallInv
  BY DEF Init, RequestInv, CallInv
<1>9. ListedInv /\ RaceInv
  BY DEF Init, ListedInv, RaceInv
<1>10. MadeInv /\ CheckedInv /\ RetryInv
  BY DEF Init, MadeInv, CheckedInv, RetryInv, Calls, Attempts
<1> QED
  BY <1>6, <1>7, <1>8, <1>9, <1>10 DEF IInv

-----------------------------------------------------------------------------
(* What the steps of a call amount to: it sends a request, returns, or     *)
(* begins to list.                                                         *)

Sends(c, q) ==
    /\ Right(c, q)
    /\ (pc[c] = "idle" /\ MayCall(c)) \/ pc[c] = "listing"
    /\ Send(c, q)
    /\ \/ UNCHANGED listed
       \/ \E v \in Live(In(c).strategy) :
             /\ v = In(c).version /\ versions[v].name # In(c).name
             /\ listed' = [listed EXCEPT ![c] = versions[v].name]
    /\ UNCHANGED <<input, result, checked, versions, issued, applied, late>>

Returns(c, r) ==
    /\ Fits(c, r)
    /\ (pc[c] = "idle" /\ MayCall(c)) \/ pc[c] \in {"listing", "waiting"}
    /\ Return(c, r)
    /\ UNCHANGED <<input, request, wire, listed, checked, versions, issued,
                   applied, late>>

Lists(c) ==
    /\ pc[c] = "idle" /\ MayCall(c)
    /\ In(c).tool = "rename" /\ In(c).version # None
    /\ pc' = [pc EXCEPT ![c] = "listing"]
    /\ UNCHANGED <<input, request, wire, result, listed, checked, versions,
                   issued, applied, late>>

Moves(c) ==
    \/ \E q \in Request : Sends(c, q)
    \/ \E r \in Results : Returns(c, r)
    \/ Lists(c)

(* A call that is not valid returns "invalid", before it sent anything.    *)
LEMMA InvalidReturns ==
    ASSUME IInv, NEW c \in Calls, MayCall(c), Return(c, "invalid"),
           UNCHANGED <<input, request, wire, listed, checked, versions, issued,
                       applied, late>>
    PROVE  Moves(c)
<1>1. pc[c] = "idle" /\ wire[c] = "none"
  BY DEF MayCall, IInv, CallInv
<1>2. Fits(c, "invalid") /\ "invalid" \in Results
  BY <1>1 DEF Fits, Results, Refusals
<1> QED
  BY <1>1, <1>2 DEF Moves, Returns

(* A tool that is called sends its request, if that is right.              *)
LEMMA CallMoves ==
    ASSUME IInv, NEW c \in Calls, NEW STATE valid, NEW STATE q, NEW CONSTANT tool,
           Call(c, tool, valid, q),
           In(c).complete /\ valid => q \in Request /\ Right(c, q)
    PROVE  Moves(c)
<1>1. MayCall(c) /\ pc[c] = "idle"
  BY DEF Call, MayCall
<1>2. CASE In(c).complete /\ valid
  <2>1. q \in Request /\ Sends(c, q)
    BY <1>1, <1>2 DEF Call, Sends
  <2> QED
    BY <2>1 DEF Moves
<1>3. CASE ~(In(c).complete /\ valid)
  BY <1>1, <1>3, InvalidReturns DEF Call
<1> QED
  BY <1>2, <1>3

(* The requests of the client have their type and fit the input.           *)
LEMMA ReqType ==
    ASSUME TypeOK, NEW c \in Calls,
           NEW route \in {"create", "write", "remove", "clone", "rename", "delete"},
           NEW STATE createNew, createNew \in BOOLEAN,
           NEW STATE name, name \in Names \cup {None},
           NEW cell \in Cells \cup {None}
    PROVE  Req(route, In(c), createNew, name, cell) \in Request
BY InputFacts DEF Req, Request

LEMMA ToolMoves == ASSUME IInv, NEW c \in Calls, Tool(c) PROVE Moves(c)
<1> DEFINE in == In(c)
<1> USE InputFacts
<1>0. TypeOK
  BY DEF IInv
<1>1. CASE CreateUnderwritingSection(c)
  <2>1. in.tool = "create_section" /\ Call(c, "create_section", ValidSelection(in, FALSE), CreateRequest(in))
    BY <1>1 DEF CreateUnderwritingSection, Call
  <2>2. NewName(in) \in Names \cup {None}
    BY <1>0 DEF NewName
  <2>3. CreateRequest(in) \in Request
    BY <1>0, <2>2, ReqType DEF CreateRequest, Select, Cells
  <2>4. ASSUME ValidSelection(in, FALSE) PROVE Right(c, CreateRequest(in))
    BY <1>0, <2>1, <2>4 DEF Right, CreateRequest, Select, Req, NewName, Cells,
                          ValidSelection, Creates
  <2> QED
    BY <2>1, <2>3, <2>4, CallMoves
<1>2. CASE UpdateUnderwritingSection(c)
  <2>1. in.tool = "update_section" /\ Call(c, "update_section", ValidSelection(in, FALSE), UpdateRequest(in))
    BY <1>2 DEF UpdateUnderwritingSection, Call
  <2>2. UpdateRequest(in) \in Request
    BY <1>0, ReqType DEF UpdateRequest, Select, Cells
  <2>3. ASSUME ValidSelection(in, FALSE) PROVE Right(c, UpdateRequest(in))
    BY <1>0, <2>1, <2>3 DEF Right, UpdateRequest, Select, Req, Cells, ValidSelection, Creates
  <2> QED
    BY <2>1, <2>2, <2>3, CallMoves
<1>3. CASE UpsertUnderwritingRoom(c)
  <2>1. in.tool = "upsert_room" /\ Call(c, "upsert_room", ValidSelection(in, TRUE), UpsertRoomRequest(in))
    BY <1>3 DEF UpsertUnderwritingRoom, Call
  <2>2. NewName(in) \in Names \cup {None}
    BY <1>0 DEF NewName
  <2>3. UpsertRoomRequest(in) \in Request
    BY <1>0, <2>2, ReqType DEF UpsertRoomRequest, Select, Cells
  <2>4. ASSUME ValidSelection(in, TRUE) PROVE Right(c, UpsertRoomRequest(in))
    BY <1>0, <2>1, <2>4 DEF Right, UpsertRoomRequest, Select, Req, NewName, Cells,
                          ValidSelection, Creates
  <2> QED
    BY <2>1, <2>3, <2>4, CallMoves
<1>4. CASE SubmitPropertyRenovation(c)
  <2>1. in.tool = "submit_renovation" /\ Call(c, "submit_renovation", ValidSelection(in, TRUE), SubmitRequest(in))
    BY <1>4 DEF SubmitPropertyRenovation, Call
  <2>2. SubmitRequest(in) \in Request
    BY <1>0, ReqType DEF SubmitRequest, Select, Cells
  <2>3. ASSUME ValidSelection(in, TRUE) PROVE Right(c, SubmitRequest(in))
    BY <1>0, <2>1, <2>3 DEF Right, SubmitRequest, Select, Req, Cells, ValidSelection, Creates
  <2> QED
    BY <2>1, <2>2, <2>3, CallMoves
<1>5. CASE DeleteUnderwritingRoom(c)
  <2>1. in.tool = "delete_room" /\ Call(c, "delete_room", TRUE, DeleteRoomRequest(in))
    BY <1>5 DEF DeleteUnderwritingRoom, Call
  <2>2. DeleteRoomRequest(in) \in Request
    BY <1>0, ReqType DEF DeleteRoomRequest, Cells
  <2>3. Right(c, DeleteRoomRequest(in))
    BY <1>0, <2>1 DEF Right, DeleteRoomRequest, Req, Creates, Starters
  <2> QED
    BY <2>1, <2>2, <2>3, CallMoves
<1>6. CASE CloneUnderwritingVersion(c)
  <2>1. in.tool = "clone" /\ Call(c, "clone", in.version # None, CloneRequest(in))
    BY <1>6 DEF CloneUnderwritingVersion, Call
  <2>2. CloneRequest(in) \in Request
    BY <1>0, ReqType DEF CloneRequest, Cells
  <2>3. ASSUME in.version # None PROVE Right(c, CloneRequest(in))
    BY <1>0, <2>1, <2>3 DEF Right, CloneRequest, Req, Creates, Starters
  <2> QED
    BY <2>1, <2>2, <2>3, CallMoves
<1>7. CASE SetUnderwritingDealScore(c)
  <2>1. in.tool = "deal_score" /\ Call(c, "deal_score", in.version # None, DealScoreRequest(in))
    BY <1>7 DEF SetUnderwritingDealScore, Call
  <2>2. DealScoreRequest(in) \in Request
    BY <1>0, ReqType DEF DealScoreRequest, Cells
  <2>3. ASSUME in.version # None PROVE Right(c, DealScoreRequest(in))
    BY <1>0, <2>1, <2>3 DEF Right, DealScoreRequest, Req, Creates, Starters, Cells
  <2> QED
    BY <2>1, <2>2, <2>3, CallMoves
<1>8. CASE DeleteUnderwritingVersion(c)
  <2>1. in.tool = "delete_version" /\ Call(c, "delete_version", in.version # None, DeleteRequest(in))
    BY <1>8 DEF DeleteUnderwritingVersion, Call
  <2>2. DeleteRequest(in) \in Request
    BY <1>0, ReqType DEF DeleteRequest, Cells
  <2>3. ASSUME in.version # None PROVE Right(c, DeleteRequest(in))
    BY <1>0, <2>1, <2>3 DEF Right, DeleteRequest, Req, Creates, Starters
  <2> QED
    BY <2>1, <2>2, <2>3, CallMoves
<1>9. CASE RenameUnderwritingVersion(c)
  <2>1. CASE in.complete /\ in.version # None /\ in.name # None
    BY <1>9, <2>1 DEF RenameUnderwritingVersion, Moves, Lists, MayCall
  <2>2. CASE ~(in.complete /\ in.version # None /\ in.name # None)
    BY <1>9, <2>2, InvalidReturns DEF RenameUnderwritingVersion
  <2> QED
    BY <2>1, <2>2
<1> QED
  BY <1>1, <1>2, <1>3, <1>4, <1>5, <1>6, <1>7, <1>8, <1>9 DEF Tool

(* The other steps of a call.                                              *)
LEMMA EndMoves ==
    ASSUME IInv, NEW c \in Calls, Ends(c) \/ ServerError(c)
    PROVE  Moves(c)
<1> DEFINE in == In(c)
<1>0. TypeOK
  BY DEF IInv
<1>1. ASSUME pc[c] = "listing" /\ Send(c, RenameRequest(in)),
             in.tool = "rename" /\ in.version # None
      PROVE  RenameRequest(in) \in Request /\ Right(c, RenameRequest(in))
  <2>1. RenameRequest(in) \in Request
    BY <1>0, InputFacts, ReqType DEF RenameRequest, Cells
  <2> QED
    BY <1>0, <1>1, <2>1, InputFacts DEF Right, RenameRequest, Req, Creates, Starters
<1>2. ASSUME pc[c] = "listing"
      PROVE  in.tool = "rename" /\ in.version # None /\ wire[c] = "none"
  BY <1>2 DEF IInv, CallInv
<1>3. CASE RenameListed(c)
  <2>1. pc[c] = "listing" /\ in.tool = "rename" /\ in.version # None /\ wire[c] = "none"
    BY <1>2, <1>3 DEF RenameListed
  <2>2. CASE Return(c, "skipped") /\ UNCHANGED <<request, wire, listed>>
    <3>1. Fits(c, "skipped") /\ "skipped" \in Results
      BY <2>1 DEF Fits, Results, Refusals
    <3> QED
      BY <1>3, <2>1, <2>2, <3>1 DEF RenameListed, Moves, Returns
  <2>3. CASE Send(c, RenameRequest(in)) /\ UNCHANGED result
    <3>1. RenameRequest(in) \in Request /\ Right(c, RenameRequest(in))
      BY <1>1, <2>1, <2>3
    <3>2. \/ UNCHANGED listed
          \/ \E v \in Live(in.strategy) :
                /\ v = in.version /\ versions[v].name # in.name
                /\ listed' = [listed EXCEPT ![c] = versions[v].name]
      BY <1>3, <2>3, <2>1, <1>0 DEF RenameListed, Return, Send, TypeOK
    <3> QED
      BY <1>3, <2>1, <2>3, <3>1, <3>2 DEF RenameListed, Moves, Sends
  <2> QED
    BY <1>3, <2>2, <2>3 DEF RenameListed
<1>4. CASE RenameUnlisted(c)
  <2>1. RenameRequest(in) \in Request /\ Right(c, RenameRequest(in))
    BY <1>1, <1>2, <1>4 DEF RenameUnlisted
  <2> QED
    BY <1>4, <2>1 DEF RenameUnlisted, Moves, Sends
<1>5. CASE Answer(c)
  <2> DEFINE r == IF wire[c] = "done" THEN "ok" ELSE ApiError(c, wire[c])
  <2>1. wire[c] \in {"done"} \cup Refusals
    BY <1>0, <1>5 DEF Answer, IInv, CallInv, TypeOK
  <2>2. r \in Results /\ Fits(c, r)
    BY <1>0, <2>1, InputFacts DEF ApiError, Fits, Results, Refusals, Creates
  <2> QED
    BY <1>5, <2>2 DEF Answer, Moves, Returns
<1>6. CASE NoAnswer(c)
  <2>1. PlainError(c) \in Results /\ Fits(c, PlainError(c))
    BY <1>0, InputFacts DEF PlainError, Fits, Results, Refusals, Creates
  <2> QED
    BY <1>6, <2>1 DEF NoAnswer, Moves, Returns
<1>7. CASE ServerError(c)
  <2>1. ApiError(c, "server_error") \in Results /\ Fits(c, ApiError(c, "server_error"))
    BY <1>0, InputFacts DEF ApiError, Fits, Results, Refusals, Creates
  <2> QED
    BY <1>7, <2>1 DEF ServerError, Moves, Returns
<1> QED
  BY <1>3, <1>4, <1>5, <1>6, <1>7 DEF Ends

-----------------------------------------------------------------------------
(* Each step keeps the inductive invariant.                                *)

(* A step of a call that leaves the versions alone keeps what is said of   *)
(* the versions, and of what was applied.                                  *)
LEMMA VersionsKept ==
    ASSUME IInv, UNCHANGED <<input, versions, issued, applied, late>>,
           \A c \in applied : request'[c] = request[c]
    PROVE  IdsInv' /\ MadeInv' /\ (Hidden' <=> Hidden)
           /\ \A c \in Calls : OtherRenamed(c)' <=> OtherRenamed(c)
<1>1. Hidden' <=> Hidden
  BY DEF Hidden
<1> QED
  BY <1>1 DEF IInv, IdsInv, MadeInv, Made, Creates, OtherRenamed, In

LEMMA SendsStep ==
    ASSUME IInv, NEW c \in Calls, NEW q \in Request, Sends(c, q)
    PROVE  IInv'
<1>1. /\ pc' = [pc EXCEPT ![c] = "waiting"]
      /\ request' = [request EXCEPT ![c] = q]
      /\ wire' = [wire EXCEPT ![c] = "sent"]
      /\ UNCHANGED <<input, result, checked, versions, issued, applied, late>>
  BY DEF Sends, Send
<1>2. /\ pc[c] \in {"idle", "listing"} /\ wire[c] = "none" /\ request[c] = None
      /\ result[c] = None /\ c \notin applied
  BY DEF Sends, IInv, CallInv, TypeOK
<1>3. /\ listed' \in [Calls -> Names \cup {None, "nothing"}]
      /\ \A d \in Calls \ {c} : listed'[d] = listed[d]
  <2>1. CASE UNCHANGED listed
    BY <2>1 DEF IInv, TypeOK
  <2>2. ASSUME NEW v \in Live(In(c).strategy),
               listed' = [listed EXCEPT ![c] = versions[v].name]
        PROVE  <1>3
    <3>1. versions[v].name \in Names \cup {None}
      BY DEF Live, IInv, TypeOK, Version
    <3> QED
      BY <2>2, <3>1 DEF IInv, TypeOK
  <2> QED
    BY <2>1, <2>2 DEF Sends
<1>4. TypeOK'
  BY <1>1, <1>3 DEF IInv, TypeOK
<1>5. \A d \in Calls : /\ In(d)' = In(d) /\ (MustList(d)' <=> MustList(d))
                        /\ (Creates(In(d))' <=> Creates(In(d)))
  BY <1>1 DEF In, MustList, Creates
<1>6. \A d \in applied : request'[d] = request[d]
  BY <1>1, <1>2 DEF IInv, TypeOK
<1>7. IdsInv' /\ MadeInv' /\ (Hidden' <=> Hidden)
      /\ \A d \in Calls : OtherRenamed(d)' <=> OtherRenamed(d)
  BY <1>1, <1>6, VersionsKept
<1>8. RequestInv'
  <2>1. \A d \in Calls \ {c} : request'[d] = request[d]
    BY <1>1 DEF IInv, TypeOK
  <2>2. request'[c] = q /\ Right(c, q)
    BY <1>1 DEF IInv, TypeOK, Sends
  <2> QED
    BY <1>1, <1>5, <2>1, <2>2 DEF IInv, RequestInv, Right, In, Creates
<1>9. CallInv'
  <2>1. \A d \in Calls \ {c} : /\ pc'[d] = pc[d] /\ wire'[d] = wire[d]
                               /\ request'[d] = request[d] /\ result'[d] = result[d]
    BY <1>1 DEF IInv, TypeOK
  <2>2. pc'[c] = "waiting" /\ wire'[c] = "sent" /\ request'[c] = q /\ q # None
    BY <1>1, NoneAssumption DEF IInv, TypeOK
  <2> QED
    BY <1>1, <1>2, <2>1, <2>2, NoneAssumption
    DEF IInv, CallInv, Fits, In, Creates
<1>10. ListedInv'
  <2>1. ASSUME NEW d \in Calls, listed'[d] = listed[d], listed'[d] # "nothing"
        PROVE  /\ In(d).version \in Ids /\ In(d).version <= issued
               /\ (/\ versions[In(d).version] # None
                   /\ versions[In(d).version].name = In(d).name
                   /\ d \notin applied) => OtherRenamed(d)
    BY <2>1 DEF IInv, ListedInv
  <2>2. ASSUME NEW v \in Live(In(c).strategy), v = In(c).version,
               versions[v].name # In(c).name
        PROVE  v \in Ids /\ v <= issued
    <3>1. v \in Ids /\ versions[v] # None
      BY DEF Live
    <3> QED
      BY <3>1, InitialAssumption DEF IInv, IdsInv, TypeOK, Ids
  <2> QED
    BY <1>1, <1>3, <1>5, <1>7, <2>1, <2>2 DEF ListedInv, Sends
<1>11. RaceInv'
  <2>1. wire'[c] = "sent" /\ \A d \in Calls \ {c} : wire'[d] = wire[d]
    BY <1>1 DEF IInv, TypeOK
  <2> QED
    BY <1>3, <1>7, <2>1 DEF IInv, RaceInv
<1>12. CheckedInv'
  BY <1>1, <1>2, <1>7 DEF IInv, TypeOK, CheckedInv, Creates
<1>13. RetryInv'
  <2> SUFFICES ASSUME NEW i \in Agents, pc'[<<i, 2>>] # "idle"
               PROVE  /\ result[<<i, 1>>] \in {"server_error", "failed", "warned"}
                      /\ MustList(<<i, 1>>) => checked[i] = "absent"
    BY <1>1, <1>5 DEF RetryInv, Calls, Attempts
  <2>1. CASE pc[<<i, 2>>] # "idle"
    BY <2>1 DEF IInv, RetryInv
  <2>2. CASE pc[<<i, 2>>] = "idle"
    <3>1. c = <<i, 2>> /\ MayCall(c)
      BY <1>1, <2>2 DEF IInv, TypeOK, Calls, Attempts, Sends
    <3> QED
      BY <3>1 DEF MayCall
  <2> QED
    BY <2>1, <2>2
<1> QED
  BY <1>4, <1>7, <1>8, <1>9, <1>10, <1>11, <1>12, <1>13 DEF IInv

LEMMA ReturnsStep ==
    ASSUME IInv, NEW c \in Calls, NEW r \in Results, Returns(c, r)
    PROVE  IInv'
<1>1. /\ pc' = [pc EXCEPT ![c] = "returned"]
      /\ result' = [result EXCEPT ![c] = r]
      /\ UNCHANGED <<input, request, wire, listed, checked, versions, issued,
                     applied, late>>
  BY DEF Returns, Return
<1>2. pc[c] # "returned" /\ result[c] = None
  BY DEF Returns, IInv, CallInv, TypeOK
<1>3. /\ pc'[c] = "returned" /\ result'[c] = r
      /\ \A d \in Calls \ {c} : pc'[d] = pc[d] /\ result'[d] = result[d]
  BY <1>1 DEF IInv, TypeOK
<1>4. TypeOK'
  BY <1>1 DEF IInv, TypeOK
<1>5. IdsInv' /\ MadeInv' /\ (Hidden' <=> Hidden)
      /\ \A d \in Calls : OtherRenamed(d)' <=> OtherRenamed(d)
  BY <1>1, VersionsKept
<1>6. RequestInv'
  BY <1>1 DEF IInv, RequestInv, Right, In, Creates
<1>7. CallInv'
  BY <1>1, <1>3, NoneAssumption DEF IInv, CallInv, Fits, In, Creates, Returns
<1>8. ListedInv' /\ RaceInv'
  BY <1>1, <1>5 DEF IInv, ListedInv, RaceInv, In
<1>9. CheckedInv'
  BY <1>1, <1>3, <1>5 DEF IInv, CheckedInv, Creates, Calls, Attempts
<1>10. RetryInv'
  <2> SUFFICES ASSUME NEW i \in Agents, pc'[<<i, 2>>] # "idle"
               PROVE  /\ result'[<<i, 1>>] \in {"server_error", "failed", "warned"}
                      /\ MustList(<<i, 1>>)' => checked[i] = "absent"
    BY <1>1 DEF RetryInv
  <2>1. <<i, 1>> \in Calls /\ <<i, 2>> \in Calls
    BY DEF Calls, Attempts
  <2>2. /\ result[<<i, 1>>] \in {"server_error", "failed", "warned"}
        /\ MustList(<<i, 1>>) => checked[i] = "absent"
    <3>1. CASE pc[<<i, 2>>] # "idle"
      BY <3>1 DEF IInv, RetryInv
    <3>2. CASE pc[<<i, 2>>] = "idle"
      <4>1. c = <<i, 2>> /\ MayCall(c)
        BY <1>3, <2>1, <3>2 DEF Returns
      <4> QED
        BY <4>1 DEF MayCall
    <3> QED
      BY <3>1, <3>2
  <2>3. result'[<<i, 1>>] = result[<<i, 1>>]
    BY <1>2, <1>3, <2>1, <2>2, NoneAssumption DEF Results
  <2> QED
    BY <1>1, <2>2, <2>3 DEF MustList, In
<1> QED
  BY <1>4, <1>5, <1>6, <1>7, <1>8, <1>9, <1>10 DEF IInv

LEMMA ListsStep ==
    ASSUME IInv, NEW c \in Calls, Lists(c)
    PROVE  IInv'
<1> USE DEF Lists
<1>1. /\ pc'[c] = "listing" /\ pc[c] = "idle"
      /\ \A d \in Calls \ {c} : pc'[d] = pc[d]
  BY DEF IInv, TypeOK
<1>2. TypeOK'
  BY DEF IInv, TypeOK
<1>3. IdsInv' /\ MadeInv' /\ (Hidden' <=> Hidden)
      /\ \A d \in Calls : OtherRenamed(d)' <=> OtherRenamed(d)
  BY VersionsKept
<1>4. RequestInv'
  BY DEF IInv, RequestInv, Right, In, Creates
<1>5. CallInv'
  BY <1>1 DEF IInv, CallInv, Fits, In, Creates
<1>6. ListedInv' /\ RaceInv'
  BY <1>3 DEF IInv, ListedInv, RaceInv, In
<1>7. CheckedInv'
  BY <1>1, <1>3 DEF IInv, CheckedInv, Creates, Calls, Attempts
<1>8. RetryInv'
  <2> SUFFICES ASSUME NEW i \in Agents, pc'[<<i, 2>>] # "idle"
               PROVE  /\ result[<<i, 1>>] \in {"server_error", "failed", "warned"}
                      /\ MustList(<<i, 1>>) => checked[i] = "absent"
    BY DEF RetryInv, MustList, In
  <2>1. CASE pc[<<i, 2>>] # "idle"
    BY <2>1 DEF IInv, RetryInv
  <2>2. CASE pc[<<i, 2>>] = "idle"
    <3>1. c = <<i, 2>>
      BY <1>1, <2>2 DEF Calls, Attempts
    <3> QED
      BY <3>1 DEF MayCall
  <2> QED
    BY <2>1, <2>2
<1> QED
  BY <1>2, <1>3, <1>4, <1>5, <1>6, <1>7, <1>8 DEF IInv

(* A refusal of the backend concerns the call it answers only.             *)
LEMMA RefuseStep ==
    ASSUME IInv, NEW c \in Calls, Refuse(c)
    PROVE  IInv'
<1> DEFINE q == request[c]
<1>1. PICK why \in Refused(q) : wire' = [wire EXCEPT ![c] = why]
  BY DEF Refuse
<1>2. why \in Refusals
  BY <1>1 DEF Refused, Refusals
<1>3. /\ wire[c] = "sent" /\ c \notin applied
      /\ UNCHANGED <<input, pc, request, result, listed, checked, versions,
                     issued, applied, late>>
  BY DEF Refuse, IInv, CallInv
<1>4. wire'[c] = why /\ \A d \in Calls \ {c} : wire'[d] = wire[d]
  BY <1>1 DEF IInv, TypeOK
<1>5. q \in Request /\ Right(c, q)
  BY <1>3 DEF IInv, TypeOK, CallInv, RequestInv
<1>6. TypeOK'
  BY <1>1, <1>2, <1>3 DEF IInv, TypeOK
<1>7. IdsInv' /\ MadeInv' /\ (Hidden' <=> Hidden)
      /\ \A d \in Calls : OtherRenamed(d)' <=> OtherRenamed(d)
  BY <1>3, VersionsKept
<1>8. RequestInv'
  BY <1>3 DEF IInv, RequestInv, Right, In, Creates
<1>9. CallInv'
  <2>1. why \notin {"none", "sent", "done"}
    BY <1>2 DEF Refusals
  <2>2. \A d \in Calls \ {c} : result[d] # None => Fits(d, result[d])'
    BY <1>3, <1>4 DEF IInv, CallInv, Fits, In, Creates
  <2>3. result[c] # None => Fits(c, result[c])'
    BY <1>3, <1>4 DEF IInv, CallInv, Fits, In, Creates, Refusals
  <2> QED
    BY <1>3, <1>4, <2>1, <2>2, <2>3 DEF IInv, CallInv, In
<1>10. ListedInv'
  BY <1>3, <1>7 DEF IInv, ListedInv, In
<1>11. RaceInv'
  <2>1. ASSUME why = "name_unchanged" PROVE listed[c] = "nothing" \/ OtherRenamed(c)
    <3>1. PICK v \in Targets(q) : q.route = "rename" /\ q.name = versions[v].name
      BY <1>1, <2>1 DEF Refused
    <3>2. q.version # None
      BY <1>5, <3>1, InputFacts DEF Right, IInv, Starters
    <3>3. v = In(c).version /\ versions[v] # None /\ versions[v].name = In(c).name
      BY <1>5, <3>1, <3>2 DEF Targets, Live, Right
    <3> QED
      BY <1>3, <3>3 DEF IInv, ListedInv
  <2> QED
    BY <1>3, <1>4, <1>7, <2>1 DEF IInv, RaceInv
<1>12. CheckedInv' /\ RetryInv'
  BY <1>3, <1>7 DEF IInv, CheckedInv, RetryInv, MustList, In, Creates
<1> QED
  BY <1>6, <1>7, <1>8, <1>9, <1>10, <1>11, <1>12 DEF IInv

(* A changed field leaves the others as they are.                          *)
LEMMA CellsChanged ==
    ASSUME NEW x \in Version, NEW cells \in SUBSET Cells
    PROVE  /\ [x EXCEPT !.cells = cells] \in Version
           /\ [x EXCEPT !.cells = cells].strategy = x.strategy
           /\ [x EXCEPT !.cells = cells].name = x.name
BY DEF Version

LEMMA NameChanged ==
    ASSUME NEW x \in Version, NEW name \in Names \cup {None}
    PROVE  /\ [x EXCEPT !.name = name] \in Version
           /\ [x EXCEPT !.name = name].strategy = x.strategy
           /\ [x EXCEPT !.name = name].name = name
BY DEF Version

(* A request that is applied starts a version of its strategy and name, or *)
(* changes one that is there.                                              *)
Starts(q) ==
    /\ issued + 1 \in Ids /\ issued' = issued + 1
    /\ \E new \in Version : /\ versions' = [versions EXCEPT ![issued + 1] = new]
                            /\ new.strategy = q.strategy /\ new.name = q.name

Changes(q) ==
    /\ ~q.createNew /\ q.route # "clone"
    /\ issued' = issued
    /\ \E v \in Targets(q), new \in Version \cup {None} :
          /\ versions' = [versions EXCEPT ![v] = new]
          /\ q.route # "delete" => new \in Version /\ new.strategy = versions[v].strategy
          /\ q.route = "delete" => new = None
          /\ q.route = "rename" => new.name = q.name
          /\ q.route \notin {"rename", "delete"} => new.name = versions[v].name

LEMMA ApplyEffect ==
    ASSUME IInv, NEW c \in Calls, Apply(c)
    PROVE  /\ request[c] \in Request /\ Right(c, request[c])
           /\ wire[c] = "sent" /\ c \notin applied
           /\ \/ /\ request[c].createNew \/ request[c].route = "clone"
                 /\ Starts(request[c])
              \/ Changes(request[c])
<1> DEFINE q == request[c]
<1>1. wire[c] = "sent" /\ c \notin applied
  BY DEF Apply, IInv, CallInv
<1>2. q \in Request /\ Right(c, q)
  BY <1>1 DEF IInv, TypeOK, CallInv, RequestInv
<1>3. ASSUME NEW v \in Targets(q)
      PROVE  /\ v \in Ids /\ versions[v] \in Version
             /\ versions[v].strategy \in Strategies
             /\ versions[v].name \in Names \cup {None}
             /\ versions[v].cells \in SUBSET Cells
  <2>1. v \in Ids /\ versions[v] \in Version
    BY DEF Targets, Live, IInv, TypeOK
  <2> QED
    BY <2>1 DEF Version
<1>4. CASE q.createNew \/ q.route = "clone"
  <2>1. issued + 1 \in Ids /\ issued' = issued + 1
    BY <1>4, InitialAssumption DEF Apply, IInv, TypeOK, Ids
  <2>2. PICK new \in Started(q) : versions' = [versions EXCEPT ![issued + 1] = new]
    BY <1>4 DEF Apply
  <2>3. PICK cells \in (IF q.createNew THEN {{q.cell}}
                        ELSE {versions[v].cells : v \in Targets(q)}) :
            new = [strategy |-> q.strategy, name |-> q.name, cells |-> cells]
    BY <2>2 DEF Started
  <2>4. cells \in SUBSET Cells
    BY <1>2, <1>3, <2>3 DEF Right
  <2>5. new \in Version /\ new.strategy = q.strategy /\ new.name = q.name
    BY <1>2, <2>3, <2>4 DEF Version, Request
  <2> QED
    BY <1>1, <1>2, <1>4, <2>1, <2>2, <2>5 DEF Starts
<1>5. CASE ~(q.createNew \/ q.route = "clone")
  <2>1. PICK v \in Targets(q) : versions' = [versions EXCEPT ![v] = Changed(q, v)]
    BY <1>5 DEF Apply
  <2> DEFINE new == Changed(q, v)
  <2> HIDE DEF new
  <2> DEFINE Fine == /\ new \in Version \cup {None}
                     /\ q.route # "delete" => new \in Version /\ new.strategy = versions[v].strategy
                     /\ q.route = "delete" => new = None
                     /\ q.route = "rename" => new.name = q.name
                     /\ q.route \notin {"rename", "delete"} => new.name = versions[v].name
  <2>2. ASSUME q.route \in {"create", "write"} PROVE Fine
    <3>1. new = [versions[v] EXCEPT !.cells = versions[v].cells \cup {q.cell}]
      BY <2>2 DEF Changed, new
    <3>2. versions[v].cells \cup {q.cell} \in SUBSET Cells
      BY <1>2, <1>3, <2>2 DEF Right
    <3>3. new \in Version /\ new.strategy = versions[v].strategy /\ new.name = versions[v].name
      BY <1>3, <3>1, <3>2, CellsChanged, Zenon
    <3> QED
      BY <2>2, <3>3
  <2>3. ASSUME q.route = "remove" PROVE Fine
    <3>1. new = [versions[v] EXCEPT !.cells = versions[v].cells \ {q.cell}]
      BY <2>3 DEF Changed, new
    <3>2. versions[v].cells \ {q.cell} \in SUBSET Cells
      BY <1>3
    <3>3. new \in Version /\ new.strategy = versions[v].strategy /\ new.name = versions[v].name
      BY <1>3, <3>1, <3>2, CellsChanged, Zenon
    <3> QED
      BY <2>3, <3>3
  <2>4. ASSUME q.route = "rename" PROVE Fine
    <3>1. new = [versions[v] EXCEPT !.name = q.name]
      BY <2>4 DEF Changed, new
    <3>2. q.name \in Names \cup {None}
      BY <1>2 DEF Request
    <3>3. new \in Version /\ new.strategy = versions[v].strategy /\ new.name = q.name
      BY <1>3, <3>1, <3>2, NameChanged, Zenon
    <3> QED
      BY <2>4, <3>3
  <2>5. ASSUME q.route = "delete" PROVE Fine
    <3>1. new = None
      BY <2>5 DEF Changed, new
    <3> QED
      BY <2>5, <3>1
  <2>6. q.route \in {"create", "write", "remove", "rename", "delete"}
    BY <1>2, <1>5 DEF Request
  <2>7. Fine
    BY <2>2, <2>3, <2>4, <2>5, <2>6
  <2>8. issued' = issued
    BY <1>5 DEF Apply
  <2> QED
    BY <1>1, <1>2, <1>5, <2>1, <2>7, <2>8 DEF Changes, new
<1> QED
  BY <1>4, <1>5

(* An id that is not None has been issued.                                 *)
LEMMA LiveIssued ==
    ASSUME IInv, NEW v \in Ids, versions[v] # None
    PROVE  v <= issued /\ v # issued + 1
BY InitialAssumption DEF IInv, IdsInv, TypeOK, Ids

(* A version of an agent's intention stays until it is renamed or deleted. *)
LEMMA MadeKept ==
    ASSUME IInv, NEW c \in Calls, Apply(c), NEW i \in Agents,
           request[c].route \notin {"rename", "delete"},
           Made(i)
    PROVE  Made(i)'
<1> DEFINE q == request[c]
<1>1. input' = input /\ (Starts(q) \/ Changes(q))
  BY ApplyEffect DEF Apply
<1>2. PICK v \in Ids : /\ versions[v] # None
                       /\ versions[v].strategy = input[i].strategy
                       /\ versions[v].name = input[i].name
  BY DEF Made
<1>3. CASE Starts(q)
  <2>1. versions'[v] = versions[v]
    BY <1>2, <1>3, LiveIssued DEF Starts, IInv, TypeOK
  <2> QED
    BY <1>1, <1>2, <2>1 DEF Made
<1>4. CASE Changes(q)
  <2>1. PICK w \in Targets(q), new \in Version \cup {None} :
            /\ versions' = [versions EXCEPT ![w] = new]
            /\ q.route # "delete" => new \in Version /\ new.strategy = versions[w].strategy
            /\ q.route \notin {"rename", "delete"} => new.name = versions[w].name
    BY <1>4 DEF Changes
  <2>2. CASE v = w
    <3>1. versions'[v] = new /\ new # None
      BY <2>1, <2>2, NoneAssumption DEF IInv, TypeOK
    <3> QED
      BY <1>1, <1>2, <2>1, <2>2, <3>1 DEF Made
  <2>3. CASE v # w
    <3>1. versions'[v] = versions[v]
      BY <2>1, <2>3 DEF IInv, TypeOK
    <3> QED
      BY <1>1, <1>2, <3>1 DEF Made
  <2> QED
    BY <2>2, <2>3
<1> QED
  BY <1>1, <1>3, <1>4

(* A request that starts a version makes the one intended.                 *)
LEMMA MadeNow ==
    ASSUME IInv, NEW c \in Calls, Apply(c), NEW i \in Agents, c[1] = i,
           Creates(input[i])
    PROVE  Made(i)'
<1> DEFINE q == request[c]
<1>1. input' = input /\ In(c) = input[i]
  BY DEF Apply, In
<1>2. Right(c, q) /\ (q.createNew \/ q.route = "clone" => Starts(q))
  BY ApplyEffect DEF Changes
<1>3. q.createNew \/ q.route = "clone"
  BY <1>1, <1>2 DEF Right, Creates
<1>4. PICK new \in Version : /\ versions' = [versions EXCEPT ![issued + 1] = new]
                             /\ new.strategy = q.strategy /\ new.name = q.name
  BY <1>2, <1>3 DEF Starts
<1>5. issued + 1 \in Ids /\ versions'[issued + 1] = new /\ new # None
  BY <1>2, <1>3, <1>4, NoneAssumption DEF Starts, IInv, TypeOK
<1>6. q.strategy = input[i].strategy /\ q.name = input[i].name
  BY <1>1, <1>2 DEF Right
<1> QED
  BY <1>1, <1>4, <1>5, <1>6 DEF Made

(* A listed name becomes the one a call asks for by another call's rename. *)
LEMMA ListedKept ==
    ASSUME IInv, NEW c \in Calls, Apply(c)
    PROVE  ListedInv'
<1> DEFINE q == request[c]
<1>1. /\ UNCHANGED <<input, listed>>
      /\ applied' = applied \cup {c}
  BY DEF Apply
<1>2. Right(c, q) /\ (Starts(q) \/ Changes(q))
  BY ApplyEffect
<1>3. /\ issued \in Nat /\ issued' \in Nat /\ issued' >= issued
      /\ \A v \in Ids : v \in Nat
  BY <1>2, InitialAssumption DEF Starts, Changes, IInv, TypeOK, Ids
<1> SUFFICES ASSUME NEW d \in Calls, listed[d] # "nothing"
             PROVE  /\ In(d).version \in Ids /\ In(d).version <= issued'
                    /\ (/\ versions'[In(d).version] # None
                        /\ versions'[In(d).version].name = In(d).name
                        /\ d \notin applied') => OtherRenamed(d)'
  BY <1>1 DEF ListedInv, In
<1> DEFINE v == In(d).version
<1>4. /\ v \in Ids /\ v <= issued
      /\ (versions[v] # None /\ versions[v].name = In(d).name /\ d \notin applied)
            => OtherRenamed(d)
  BY DEF IInv, ListedInv
<1>5. v <= issued'
  <2>1. v \in Nat /\ v <= issued
    BY <1>3, <1>4
  <2> HIDE DEF v
  <2> QED
    BY <1>3, <2>1
<1>6. OtherRenamed(d) => OtherRenamed(d)'
  BY <1>1 DEF OtherRenamed, In
<1>7. ASSUME versions'[v] # None, versions'[v].name = In(d).name, d \notin applied'
      PROVE  OtherRenamed(d)'
  <2>1. CASE versions'[v] = versions[v]
    BY <1>1, <1>4, <1>6, <1>7, <2>1
  <2>2. CASE versions'[v] # versions[v]
    <3>1. ~Starts(q)
      <4>1. v # issued + 1
        BY <1>3, <1>4
      <4> HIDE DEF v
      <4> QED
        BY <1>4, <2>2, <4>1 DEF Starts, IInv, TypeOK
    <3>2. Changes(q)
      BY <1>2, <3>1
    <3>3. PICK w \in Targets(q), new \in Version \cup {None} :
              /\ versions' = [versions EXCEPT ![w] = new]
              /\ q.route = "delete" => new = None
              /\ q.route = "rename" => new.name = q.name
              /\ q.route \notin {"rename", "delete"} => new.name = versions[w].name
      BY <3>2 DEF Changes
    <3>4. w = v /\ new = versions'[v] /\ versions[v] # None
      BY <1>4, <2>2, <3>3 DEF IInv, TypeOK, Targets, Live
    <3>5. CASE q.route = "rename"
      <4>1. In(c).tool = "rename" /\ In(c).name = In(d).name
        BY <1>2, <1>7, <3>3, <3>4, <3>5 DEF Right
      <4>2. In(c).version = v
        BY <1>2, <3>2, <3>4, <4>1 DEF Right, Changes, Targets
      <4>3. c # d
        BY <1>1, <1>7
      <4> QED
        BY <1>1, <4>1, <4>2, <4>3 DEF OtherRenamed, In
    <3>6. CASE q.route # "rename"
      BY <1>1, <1>4, <1>6, <1>7, <3>3, <3>4, <3>6
    <3> QED
      BY <3>5, <3>6
  <2> QED
    BY <2>1, <2>2
<1> QED
  BY <1>4, <1>5, <1>7

LEMMA ApplyStep ==
    ASSUME IInv, NEW c \in Calls, Apply(c)
    PROVE  IInv'
<1> DEFINE q == request[c]
<1>1. /\ wire' = [wire EXCEPT ![c] = "done"]
      /\ applied' = applied \cup {c}
      /\ late' = IF pc[c] = "returned" THEN late \cup {c} ELSE late
      /\ UNCHANGED <<input, pc, request, result, listed, checked>>
  BY DEF Apply
<1>2. /\ q \in Request /\ Right(c, q) /\ (Starts(q) \/ Changes(q))
      /\ wire[c] = "sent" /\ c \notin applied
  BY ApplyEffect
<1>3. TypeOK'
  <2>1. versions' \in [Ids -> Version \cup {None}] /\ issued' \in 0..MaxVersions
    <3>1. CASE Starts(q)
      BY <3>1, InitialAssumption DEF Starts, IInv, TypeOK, Ids
    <3>2. CASE Changes(q)
      BY <3>2 DEF Changes, IInv, TypeOK
    <3> QED
      BY <1>2, <3>1, <3>2
  <2> QED
    BY <1>1, <2>1 DEF IInv, TypeOK
<1>4. IdsInv'
  <2>1. CASE Starts(q)
    BY <2>1 DEF Starts, IInv, TypeOK, IdsInv, Ids
  <2>2. CASE Changes(q)
    <3>1. PICK v \in Targets(q), new \in Version \cup {None} :
              versions' = [versions EXCEPT ![v] = new]
      BY <2>2 DEF Changes
    <3>2. v \in Ids /\ v <= issued
      BY LiveIssued DEF Targets, Live
    <3> QED
      BY <2>2, <3>1, <3>2 DEF Changes, IInv, TypeOK, IdsInv, Ids
  <2> QED
    BY <1>2, <2>1, <2>2
<1>5. RequestInv'
  BY <1>1 DEF IInv, RequestInv, Right, In, Creates
<1>6. wire'[c] = "done" /\ \A d \in Calls \ {c} : wire'[d] = wire[d]
  BY <1>1 DEF IInv, TypeOK
<1>7. CallInv'
  <2>1. \A d \in Calls \ {c} : result[d] # None => Fits(d, result[d])'
    BY <1>1, <1>6 DEF IInv, CallInv, Fits, In, Creates
  <2>2. result[c] # None => Fits(c, result[c])'
    BY <1>1, <1>2, <1>6 DEF IInv, CallInv, Fits, In, Creates, Refusals
  <2> QED
    BY <1>1, <1>2, <1>6, <2>1, <2>2 DEF IInv, CallInv, In
<1>8. ListedInv'
  BY ListedKept
<1>9. RaceInv'
  <2>1. \A d \in Calls : OtherRenamed(d) => OtherRenamed(d)'
    BY <1>1 DEF OtherRenamed, In
  <2> QED
    BY <1>1, <1>6, <2>1 DEF IInv, RaceInv
<1>10. Hidden => Hidden'
  BY <1>1 DEF Hidden
<1>11. MadeInv'
  <2> SUFFICES ASSUME NEW i \in Agents, Creates(input[i]), <<i, 1>> \in applied',
                      ~Hidden'
               PROVE  Made(i)'
    BY <1>1 DEF MadeInv, Creates
  <2>1. q.route \notin {"rename", "delete"} /\ ~Hidden
    BY <1>1, <1>10 DEF Hidden
  <2>2. CASE c = <<i, 1>>
    BY <2>2, MadeNow
  <2>3. CASE <<i, 1>> \in applied
    <3>1. Made(i)
      BY <2>1, <2>3 DEF IInv, MadeInv
    <3> QED
      BY <2>1, <3>1, MadeKept
  <2> QED
    BY <1>1, <2>2, <2>3
<1>12. CheckedInv'
  BY <1>1, <1>10 DEF IInv, CheckedInv, Creates
<1>13. RetryInv'
  BY <1>1 DEF IInv, RetryInv, MustList, In
<1> QED
  BY <1>3, <1>4, <1>5, <1>7, <1>8, <1>9, <1>11, <1>12, <1>13 DEF IInv

(* A list that shows no version of an agent's intention was looked at      *)
(* before any of its requests was applied, or after one was renamed.       *)
LEMMA ListStep ==
    ASSUME IInv, NEW i \in Agents, ListUnderwritingVersions(i)
    PROVE  IInv'
<1> DEFINE seen == IF \E v \in Live(input[i].strategy) : versions[v].name = input[i].name
                   THEN "present" ELSE "absent"
<1>1. /\ pc[<<i, 1>>] = "returned" /\ checked[i] = "no"
      /\ checked' = [checked EXCEPT ![i] = seen]
      /\ UNCHANGED <<input, pc, request, wire, result, listed, versions, issued,
                     applied, late>>
  BY DEF ListUnderwritingVersions
<1>2. checked'[i] = seen /\ \A j \in Agents \ {i} : checked'[j] = checked[j]
  BY <1>1 DEF IInv, TypeOK
<1>3. TypeOK'
  BY <1>1 DEF IInv, TypeOK
<1>4. IdsInv' /\ MadeInv' /\ (Hidden' <=> Hidden)
      /\ \A d \in Calls : OtherRenamed(d)' <=> OtherRenamed(d)
  BY <1>1, VersionsKept
<1>5. RequestInv' /\ CallInv'
  BY <1>1 DEF IInv, RequestInv, CallInv, Right, Fits, In, Creates
<1>6. ListedInv' /\ RaceInv'
  BY <1>1, <1>4 DEF IInv, ListedInv, RaceInv, In
<1>7. CheckedInv'
  <2>1. ASSUME Creates(input[i]), seen = "absent", <<i, 1>> \in applied
        PROVE  Hidden
    <3>1. ~Made(i)
      BY <2>1 DEF Made, Live
    <3> QED
      BY <2>1, <3>1 DEF IInv, MadeInv
  <2> QED
    BY <1>1, <1>2, <1>4, <2>1 DEF IInv, CheckedInv, Creates
<1>8. RetryInv'
  BY <1>1, <1>2 DEF IInv, RetryInv, MustList, In
<1> QED
  BY <1>3, <1>4, <1>5, <1>6, <1>7, <1>8 DEF IInv

LEMMA NextStep == IInv /\ [Next]_vars => IInv'
<1> SUFFICES ASSUME IInv, [Next]_vars PROVE IInv'
  OBVIOUS
<1>1. ASSUME NEW c \in Calls, Moves(c) PROVE IInv'
  BY <1>1, SendsStep, ReturnsStep, ListsStep DEF Moves
<1>2. CASE \E c \in Calls : Tool(c)
  BY <1>1, <1>2, ToolMoves
<1>3. CASE \E c \in Calls : Ends(c) \/ ServerError(c)
  BY <1>1, <1>3, EndMoves
<1>4. CASE \E c \in Calls : Refuse(c)
  BY <1>4, RefuseStep
<1>5. CASE \E c \in Calls : Apply(c)
  BY <1>5, ApplyStep
<1>6. CASE \E i \in Agents : ListUnderwritingVersions(i)
  BY <1>6, ListStep
<1>7. CASE UNCHANGED vars
  <2> USE <1>7 DEF vars
  <2>1. TypeOK' /\ RequestInv' /\ CallInv'
    BY DEF IInv, TypeOK, RequestInv, CallInv, Right, Fits, In, Creates
  <2>2. IdsInv' /\ MadeInv' /\ (Hidden' <=> Hidden)
        /\ \A d \in Calls : OtherRenamed(d)' <=> OtherRenamed(d)
    BY VersionsKept
  <2>3. ListedInv' /\ RaceInv'
    BY <2>2 DEF IInv, ListedInv, RaceInv, In
  <2>4. CheckedInv' /\ RetryInv'
    BY <2>2 DEF IInv, CheckedInv, RetryInv, MustList, In, Creates
  <2> QED
    BY <2>1, <2>2, <2>3, <2>4 DEF IInv
<1> QED
  BY <1>2, <1>3, <1>4, <1>5, <1>6, <1>7 DEF Next

-----------------------------------------------------------------------------

(* The inductive invariant holds in every reachable state.                 *)
THEOREM Inductive == Spec => []IInv
  BY InitIInv, NextStep, PTL DEF Spec

(* The variables keep their types: the API is sent well-formed requests    *)
(* and its versions stay versions.                                         *)
THEOREM TypeCorrect == Spec => []TypeOK
<1>1. IInv => TypeOK
  BY DEF IInv
<1> QED
  BY <1>1, Inductive, PTL

(* What a call says is true, however late its request is applied           *)
(* (tools/underwriting.go:82-110, reisearch/underwriting.go, apiDo).       *)
THEOREM Truthful == Spec => []AnswerIsTruthful
<1>1. IInv => AnswerIsTruthful
  <2> SUFFICES ASSUME IInv, NEW c \in Calls
               PROVE  /\ result[c] = "ok" => c \in applied
                      /\ result[c] \in Refusals \cup {"skipped", "invalid"} =>
                            c \notin applied /\ wire[c] # "sent"
    BY DEF AnswerIsTruthful
  <2>1. (result[c] # None => Fits(c, result[c])) /\ (wire[c] = "done" <=> c \in applied)
    BY DEF IInv, CallInv
  <2> QED
    BY <2>1, NoneAssumption DEF Fits, Refusals, Results
<1> QED
  BY <1>1, Inductive, PTL

(* An agent that follows the hints makes no second version blindly         *)
(* (tools/underwriting.go:102-110).                                        *)
THEOREM NoBlindDuplicate == Spec => []DuplicateOnlyIfUnknowable
<1>1. IInv => DuplicateOnlyIfUnknowable
  <2> SUFFICES ASSUME IInv, NEW i \in Agents, Creates(input[i]),
                      <<i, 1>> \in applied, <<i, 2>> \in applied
               PROVE  \/ <<i, 1>> \in late
                      \/ result[<<i, 1>>] = "server_error"
                      \/ Hidden
    BY DEF DuplicateOnlyIfUnknowable, Hidden, Attempts
  <2>1. <<i, 1>> \in Calls /\ <<i, 2>> \in Calls /\ In(<<i, 1>>) = input[i]
    BY DEF Calls, Attempts, In
  <2>2. pc[<<i, 2>>] # "idle"
    BY <2>1 DEF IInv, CallInv
  <2>3. /\ result[<<i, 1>>] \in {"server_error", "failed", "warned"}
        /\ MustList(<<i, 1>>) => checked[i] = "absent"
    BY <2>2 DEF IInv, RetryInv
  <2>4. CASE result[<<i, 1>>] # "server_error"
    <3>1. result[<<i, 1>>] # None /\ Fits(<<i, 1>>, result[<<i, 1>>])
      BY <2>1, <2>3, NoneAssumption DEF IInv, CallInv, Results
    <3>2. MustList(<<i, 1>>)
      BY <2>1, <2>3, <2>4, <3>1 DEF MustList, Fits
    <3> QED
      BY <2>3, <3>2 DEF IInv, CheckedInv
  <2> QED
    BY <2>4
<1> QED
  BY <1>1, Inductive, PTL

(* A caller is told "name unchanged" only if the list could not know       *)
(* (tools/underwriting.go:440-456).                                        *)
THEOREM UnchangedByRace == Spec => []UnchangedOnlyByRace
<1>1. IInv => UnchangedOnlyByRace
  <2> SUFFICES ASSUME IInv, NEW c \in Calls, result[c] = "name_unchanged"
               PROVE  listed[c] = "nothing" \/ OtherRenamed(c)
    BY DEF UnchangedOnlyByRace, OtherRenamed
  <2>1. wire[c] = "name_unchanged"
    BY NoneAssumption DEF IInv, CallInv, Fits, Refusals, Results
  <2> QED
    BY <2>1 DEF IInv, RaceInv
<1> QED
  BY <1>1, Inductive, PTL

(* No step writes to a version the call did not mean                       *)
(* (reisearch/underwriting.go, VersionSelector).                           *)
THEOREM RightVersion == Spec => WritesWhereAsked
<1> DEFINE Meant ==
        \A v \in Ids : versions[v] \notin {None, versions'[v]} =>
            \E c \in applied' \ applied :
                /\ In(c).strategy = versions[v].strategy
                /\ \/ In(c).version = v /\ In(c).tool # "clone"
                   \/ /\ In(c).version = None /\ In(c).tool = "delete_room"
                      /\ \A w \in Live(In(c).strategy) : w <= v
<1>1. IInv /\ [Next]_vars => [Meant]_vars
  <2> SUFFICES ASSUME IInv, Next, NEW v \in Ids, versions[v] \notin {None, versions'[v]}
               PROVE  \E c \in applied' \ applied :
                         /\ In(c).strategy = versions[v].strategy
                         /\ \/ In(c).version = v /\ In(c).tool # "clone"
                            \/ /\ In(c).version = None /\ In(c).tool = "delete_room"
                               /\ \A w \in Live(In(c).strategy) : w <= v
    BY DEF vars
  <2>1. PICK c \in Calls : Apply(c)
    <3>1. ASSUME NEW c \in Calls, Moves(c) PROVE versions' = versions
      BY <3>1 DEF Moves, Sends, Returns, Lists
    <3> QED
      BY <3>1, ToolMoves, EndMoves DEF Next, Refuse, ListUnderwritingVersions
  <2> DEFINE q == request[c]
  <2>2. Right(c, q) /\ (Starts(q) \/ Changes(q)) /\ c \in applied' \ applied
    BY <2>1, ApplyEffect DEF Apply
  <2>3. ~Starts(q)
    BY LiveIssued DEF Starts, IInv, TypeOK
  <2>4. PICK w \in Targets(q), new \in Version \cup {None} :
            versions' = [versions EXCEPT ![w] = new]
    BY <2>2, <2>3 DEF Changes
  <2>5. w = v
    BY <2>4 DEF IInv, TypeOK
  <2>6. versions[v].strategy = q.strategy /\ In(c).tool # "clone"
    BY <2>2, <2>3, <2>5 DEF Targets, Live, Right, Changes
  <2>7. CASE q.version = None
    BY <2>2, <2>3, <2>5, <2>6, <2>7 DEF Targets, Right, Changes
  <2>8. CASE q.version # None
    BY <2>2, <2>5, <2>6, <2>8 DEF Targets, Right
  <2> QED
    BY <2>7, <2>8
<1> QED
  BY <1>1, Inductive, PTL DEF Spec, WritesWhereAsked

=============================================================================

------------------------------ MODULE ToolCalls ------------------------------
(***************************************************************************)
(* Agents of one user call the tools of internal/tools/property.go and     *)
(* invite_users.  A call checks its input, sends one request and waits at  *)
(* most 15 s for the reply, which Responses turns into an outcome.  After  *)
(* each outcome an agent does what the descriptions of the tools tell it.  *)
(*                                                                         *)
(* Several agents call at the same time.  A request can be applied and its *)
(* reply lost, or be applied after the call has returned; a gateway in     *)
(* front of the API can answer in its place.                               *)
(***************************************************************************)
EXTENDS Tools, Responses

CONSTANTS
    Agents,
    Scenarios,     \* what the agents may intend, functions from Agents
    MaxCalls,      \* bound on the calls of an agent
    Initially,     \* the things there are at the beginning
    None           \* nothing sent, replied or returned yet

Calls == Agents \X (1..MaxCalls)
AllTools == Readers \cup Writers
Fields == UNION {tool.needs : tool \in AllTools}

(* `given`: the required fields the agent passes; `zero`: the value it     *)
(* wants to set is the zero value of its type; `calls`: how often it calls.*)
Intent == [tool : AllTools, given : SUBSET Fields, things : SUBSET Things,
           zero : BOOLEAN, calls : 0..MaxCalls]

(* `seen`: what the pages before the cursor of a read have shown.          *)
Request == [tool : AllTools, things : SUBSET Things, next : BOOLEAN,
            seen : SUBSET Things]

VARIABLES
    intent,     \* what each agent wants
    asked,      \* what each call is for, or None
    wire,       \* its request, as the backend sees it
    reply,      \* the reply of the backend, or None
    outcome,    \* what the call returned, or None
    made,       \* what serving the call has changed (a read: has shown)
    late,       \* calls served after they had returned
    there,      \* how many of each thing there are, at the backend
    running,    \* a comps job is underway
    outdated    \* agents whose things others, or a late call, have changed
                \* since they last looked

vars == <<intent, asked, wire, reply, outcome, made, late, there, running, outdated>>
backend == <<made, late, there, running, outdated>>

(* A push is of a contact, with an opportunity or without; comps are run   *)
(* for comps; only a tool that sets a value can be given a zero.           *)
Sensible(w) ==
    /\ w.zero => w.tool.call.does = "set"
    /\ w.tool = push_lead_to_crm =>
          "contact" \in w.things /\ w.things \subseteq {"contact", "opportunity"}
    /\ w.tool = run_comps => w.things = {"comps"}

ASSUME ScenariosAssumption ==
    Scenarios \subseteq [Agents -> Intent] /\ \A s \in Scenarios : \A i \in Agents : Sensible(s[i])
ASSUME ThingsAssumption == {"contact", "opportunity", "comps"} \cup Initially \subseteq Things
ASSUME MaxCallsAssumption == MaxCalls \in Nat \ {0}
ASSUME NoneAssumption == None \notin Request /\ None \notin Reply /\ None \notin Outcome

TypeOK ==
    /\ intent \in [Agents -> Intent]
    /\ asked \in [Calls -> Request \cup {None}]
    /\ wire \in [Calls -> {"none", "sent", "served"}]
    /\ reply \in [Calls -> Reply \cup {None}]
    /\ outcome \in [Calls -> Outcome \cup {None}]
    /\ made \in [Calls -> SUBSET Things]
    /\ late \in SUBSET Calls
    /\ there \in [Things -> Nat]
    /\ running \in BOOLEAN
    /\ outdated \in SUBSET Agents

Init ==
    /\ intent \in Scenarios
    /\ asked = [c \in Calls |-> None]
    /\ wire = [c \in Calls |-> "none"]
    /\ reply = [c \in Calls |-> None]
    /\ outcome = [c \in Calls |-> None]
    /\ made = [c \in Calls |-> {}]
    /\ late = {}
    /\ there = [t \in Things |-> IF t \in Initially THEN 1 ELSE 0]
    /\ running = FALSE
    /\ outdated = {i \in Agents : intent[i].things \cap Initially # {}}

-----------------------------------------------------------------------------
(* What an agent does next, by the descriptions of the tools.              *)

Uncertain == {"failed", "trouble"}
Again == {"none_queued", "rate_limited"}    \* "Safe to retry", "wait a minute"

First(tool, things) == [tool |-> tool, things |-> things, next |-> FALSE, seen |-> {}]
NextPage(r, items) == [r EXCEPT !.next = TRUE, !.seen = @ \cup items]

HasRead(tool) == tool.name \in DOMAIN ShownBy
Wish(i) == First(intent[i].tool, intent[i].things)
Look(i) == First(ShownBy[intent[i].tool.name], {})

(* The description of create_crm_opportunity: "do NOT re-run               *)
(* push_lead_to_crm for that, because the contact already exists".         *)
RetryOpportunity == First(create_crm_opportunity, {"opportunity"})

FirstCall(i) == IF intent[i].tool.name \in LookFirst THEN Look(i) ELSE Wish(i)

(* A read was for finding out what is there already.                       *)
AfterRead(i, r, o) ==
    LET wanted == intent[i].things
        shown == r.seen \cup o.items
    IN  IF o.kind \in Uncertain THEN {r}
        ELSE IF o.kind # "ok" \/ wanted \subseteq shown THEN {}
        ELSE IF o.more THEN {NextPage(r, o.items)}
        ELSE IF intent[i].tool \in AllTools \ Readers
             THEN {First(intent[i].tool, wanted \ shown)}
        ELSE {}

AfterWrite(i, r, o) ==
    IF o.kind \in Uncertain
    THEN {IF HasRead(r.tool) THEN Look(i) ELSE r}
    ELSE IF o.kind \in Again THEN {r}
    ELSE IF r.tool = invite_users /\ o.kind = "ok" /\ o.failed # {}
    THEN {First(r.tool, o.failed)}
    ELSE IF /\ o.kind = "created"
            /\ "opportunity" \in r.things \ o.items
    THEN {RetryOpportunity}
    ELSE {}

NextCalls(i, k) ==
    IF k = 1 THEN {FirstCall(i)}
    ELSE LET r == asked[<<i, k - 1>>]
             o == outcome[<<i, k - 1>>]
         IN  IF o = None THEN {}
             ELSE IF r.tool \in Readers THEN AfterRead(i, r, o)
             ELSE AfterWrite(i, r, o)

-----------------------------------------------------------------------------
(* A tool call. *)

(* The fields the caller has: an agent that looks or retries the           *)
(* opportunity has what that takes from what it was told before.           *)
Given(i, r) == IF r.tool = intent[i].tool THEN intent[i].given ELSE Fields

(* The handler's checks; what passes them is sent.                         *)
Call(i, k) ==
    LET c == <<i, k>> IN
    /\ asked[c] = None
    /\ k <= intent[i].calls
    /\ k > 1 => asked[<<i, k - 1>>] # None
    /\ \E r \in NextCalls(i, k) :
          /\ asked' = [asked EXCEPT ![c] = r]
          /\ IF r.tool.needs \subseteq Given(i, r)
             THEN /\ wire' = [wire EXCEPT ![c] = "sent"]
                  /\ UNCHANGED outcome
             ELSE /\ outcome' = [outcome EXCEPT ![c] = Nothing("invalid")]
                  /\ UNCHANGED wire
    /\ UNCHANGED <<intent, reply, backend>>

(* The client method's reading of a response.                              *)
Understood(method, r) ==
    LET o == CASE method.helper = "status" -> OfStatus(method.want, r)
               [] method.helper = "crm" -> OfCRM(r)
               [] method.helper = "envelope" -> OfEnvelope(r)
               [] method.helper = "boxes" -> OfBuyBoxes(r)
               [] method.helper = "run" -> OfRunComps(r)
               [] method.helper = "push" -> OfPush(r)
               [] method.helper = "removal" -> OfRemoval(r)
               [] method.helper = "invite" -> OfInvite(r)
    IN  [o EXCEPT !.more = @ /\ method.paged]

Return(c, o) ==
    /\ asked[c] # None
    /\ outcome[c] = None
    /\ outcome' = [outcome EXCEPT ![c] = o]
    /\ UNCHANGED <<intent, asked, wire, reply, backend>>

Receive(c) == reply[c] # None /\ Return(c, Understood(asked[c].tool.call, reply[c]))

(* The reply does not arrive, or not in time.                              *)
NoAnswer(c) == Return(c, Nothing("failed"))

(* A gateway answers 502, with JSON of its own or with a page.             *)
GatewayError(c) ==
    \E body \in {"json", "other"} :
        Return(c, Understood(asked[c].tool.call,
                             [status |-> 502, body |-> body, success |-> FALSE,
                              code |-> "none", state |-> "none", details |-> "none",
                              items |-> {}, failed |-> {}, more |-> FALSE]))

-----------------------------------------------------------------------------
(* The backend, from the descriptions of the tools and the comments of the *)
(* client.                                                                 *)

Yes(status, items) ==
    [status |-> status, body |-> "envelope", success |-> TRUE, code |-> "none",
     state |-> "none", details |-> "none", items |-> items, failed |-> {}, more |-> FALSE]
No(status, code) == [Yes(status, {}) EXCEPT !.success = FALSE, !.code = code]

Present == {t \in Things : there[t] > 0}
Effect(change, r) == [made |-> change, reply |-> r]

(* `first`: the page ends there and the cursor of the rest is returned.    *)
PageOf(r) ==
    IF r.next THEN {Effect(Present \ r.seen, Yes(200, Present \ r.seen))}
    ELSE {Effect(Present, Yes(200, Present))}
         \cup {Effect(first, [Yes(200, first) EXCEPT !.more = TRUE]) :
                  first \in SUBSET Present}

(* The contact has to be new; its opportunity can fail and it stays.       *)
Push(r) ==
    IF "contact" \in Present THEN {Effect({}, No(409, "ALREADY_IN_CRM"))}
    ELSE {Effect(x, Yes(201, x)) : x \in {{"contact"}, {"contact"} \cup r.things}}

(* One job at a time; each that starts is billed.                          *)
Run ==
    IF running
    THEN {Effect({}, [No(409, "none") EXCEPT !.details = "already_in_progress"])}
    ELSE {Effect({"comps"}, [Yes(202, {"comps"}) EXCEPT !.state = "in_progress"]),
          Effect({}, [No(400, "none") EXCEPT !.details = "insufficient_credits"]),
          Effect({}, No(404, "PROPERTY_NOT_FOUND"))}

(* createBuyBoxes: a box for each location, or its failure; what is there  *)
(* already fails.  Each of the two lists can be lost on the client, if it  *)
(* is not of the type it expects.                                          *)
BoxesReply(body, done, items, failed) ==
    [Yes(IF done = {} THEN 400 ELSE 201, items)
        EXCEPT !.body = body, !.success = done # {}, !.failed = failed]
BoxesFor(done, rest) ==
    {Effect(done, BoxesReply("envelope", done, done, rest))} \cup
    {Effect(done, BoxesReply("drifted", done, items, failed)) :
        items \in {{}, done}, failed \in {{}, rest}}
Boxes(r) == UNION {BoxesFor(done, r.things \ done) : done \in SUBSET (r.things \ Present)}

(* An invitation for each valid address, unless none is valid or can be    *)
(* queued.  The worker behind the queue skips who has one already.         *)
Invitations(r) ==
    {Effect({}, No(status, "none")) : status \in {400, 429, 502}} \cup
    {Effect(done, [Yes(202, done) EXCEPT !.failed = r.things \ done]) :
        done \in (SUBSET r.things) \ {{}}}

Done(i, r) ==
    LET method == r.tool.call
        yes == Yes(IF method.want = 0 THEN 201 ELSE method.want, r.things)
    IN  CASE method.does = "read" -> {Effect(Present, Yes(200, Present))}
          [] method.does = "list" -> PageOf(r)
          [] method.does = "add" -> {Effect(r.things, yes)}
          [] method.does = "attach" ->
                IF "contact" \in Present THEN {Effect(r.things, yes)}
                ELSE {Effect({}, No(404, "none"))}
          [] method.does = "link" ->
                IF r.things \cap Present # {} THEN {Effect({}, No(409, "none"))}
                ELSE {Effect(r.things, yes)}
          [] method.does = "unlink" ->
                IF r.things \subseteq Present THEN {Effect(r.things, Yes(200, {}))}
                ELSE {Effect({}, No(404, "SHARED_USER_NOT_FOUND"))}
          [] method.does = "set" ->    \* omitempty drops a zero value
                {Effect(IF intent[i].zero THEN {} ELSE r.things, yes)}
          [] method.does = "part" ->
                IF method.helper = "boxes" THEN Boxes(r) ELSE Invitations(r)
          [] method.does = "push" -> Push(r)
          [] method.does = "run" -> Run

(* The API refuses, or fails: then nothing has changed, or all that would  *)
(* have, or a part that could have been.                                   *)
Refused == {Effect({}, No(403, "FORBIDDEN"))}
Broken(i, r) ==
    {Effect(x, No(500, "INTERNAL_ERROR")) :
        x \in {{}} \cup IF r.tool \in Readers THEN {} ELSE {e.made : e \in Done(i, r)}}

Counted(method, change) ==
    [t \in Things |->
        IF method.does \in {"read", "list"} \/ t \notin change THEN there[t]
        ELSE IF method.does = "unlink" THEN 0
        ELSE IF method.does \in {"set", "part", "link"} THEN 1
        ELSE there[t] + 1]

Serve(i, k) ==
    LET c == <<i, k>>
        r == asked[c]
        method == r.tool.call
    IN  /\ wire[c] = "sent"
        /\ wire' = [wire EXCEPT ![c] = "served"]
        /\ late' = IF outcome[c] = None THEN late ELSE late \cup {c}
        /\ \E e \in Done(i, r) \cup Refused \cup Broken(i, r) :
              /\ reply' = [reply EXCEPT ![c] = e.reply]
              /\ made' = [made EXCEPT ![c] = e.made]
              /\ there' = Counted(method, e.made)
              /\ running' = (running \/ (method.does = "run" /\ e.made # {}))
              /\ outdated' =
                    IF method.does \in {"read", "list"}
                    THEN IF e.reply.success /\ ~r.next /\ outcome[c] = None
                         THEN outdated \ {i}
                         ELSE outdated
                    ELSE outdated \cup
                         {j \in Agents : /\ e.made \cap intent[j].things # {}
                                         /\ j # i \/ outcome[c] # None}
        /\ UNCHANGED <<intent, asked, outcome>>

FinishComps ==
    /\ running
    /\ running' = FALSE
    /\ UNCHANGED <<intent, asked, wire, reply, outcome, made, late, there, outdated>>

Next ==
    \/ \E i \in Agents, k \in 1..MaxCalls : Call(i, k) \/ Serve(i, k)
    \/ \E c \in Calls : Receive(c) \/ NoAnswer(c) \/ GatewayError(c)
    \/ FinishComps

Spec == Init /\ [][Next]_vars

-----------------------------------------------------------------------------
(* Properties *)

(* The outcomes that say the change was made, and those that say it was    *)
(* not.  PushToCRM gives an internal error a status like any other; it     *)
(* tells as little as the errors of Uncertain do.                          *)
Affirmative == {"ok", "created", "in_progress", "removed"}
Negative == Kinds \ (Affirmative \cup Uncertain \cup {"internal_error", "none_queued"})

(* Where a success says too much: a list of createBuyBoxes was dropped, or *)
(* omitempty has dropped a value.                                          *)
Drifted(c) == reply[c] # None /\ reply[c].body = "drifted"
Overstated(c) == Drifted(c) \/ intent[c[1]].zero

(* An outcome says what happened, whatever the status and whoever          *)
(* answered.  A tool that reports success has done all it was asked but    *)
(* what it lists as failed (and the opportunity it shows is missing); a    *)
(* read shows what there was; a tool that says no has changed nothing      *)
(* (client.go, every method; 1864 for the parts, 936 for the CRM).  Three  *)
(* claims are left out, for the code makes them wrongly: "none could be    *)
(* queued", which invite_users says of a gateway's 502 too                 *)
(* (invitations.go:33), and the successes that are Overstated              *)
(* (client.go:1871, 1671).                                                 *)
SaysWhatHappened(c) ==
    LET r == asked[c]
        o == outcome[c]
    IN  /\ (o.kind \in Affirmative \ {"removed"} /\ ~Overstated(c)) => o.items = made[c]
        /\ o.kind = "removed" => made[c] = r.things
        /\ (o.kind \in Affirmative /\ r.tool \in Writers /\ ~Overstated(c)) =>
              (r.things \ made[c]) \subseteq
                  (o.failed \cup IF o.kind = "created" THEN {"opportunity"} ELSE {})
        /\ o.kind \in Negative => made[c] = {}

OutcomeIsTruthful ==
    \A c \in Calls : outcome[c] # None => SaysWhatHappened(c)

(* An agent that looks before it creates, and after a call whose outcome   *)
(* it does not know, makes nothing twice (buyers, folders, notes,          *)
(* properties; comps, which are billed) unless others or a late call of    *)
(* its own made it after it looked; or there is no read for the tool and   *)
(* an earlier call that made it went unanswered (property.go:1139, 1142,   *)
(* 1162).                                                                  *)
UnheardOf(i, t) ==
    \E k \in 1..MaxCalls :
        /\ t \in made[<<i, k>>]
        /\ outcome[<<i, k>>] # None
        /\ outcome[<<i, k>>].kind \in Uncertain
        /\ ~HasRead(asked[<<i, k>>].tool)

AgainOnlyUnknowingly ==
    \A i \in Agents, k \in 1..MaxCalls, t \in Things :
        (/\ wire[<<i, k>>] = "sent" /\ wire'[<<i, k>>] = "served"
         /\ there[t] > 0 /\ there'[t] > there[t])
        => i \in outdated \/ UnheardOf(i, t) \/ <<i, k>> \in late'

NoDuplicates == [][AgainOnlyUnknowingly]_vars

=============================================================================

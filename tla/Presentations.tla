---------------------------- MODULE Presentations ----------------------------
(***************************************************************************)
(* The tools that act on one presentation: update_presentation with its    *)
(* conflicts, publish_presentation and unpublish_presentation, which       *)
(* replace the whole share configuration, and export_presentation_pdf with *)
(* the jobs that get_pdf_export_status polls (internal/tools/property.go   *)
(* over presDo of internal/reisearch/client.go).                           *)
(*                                                                         *)
(* Agents of the owner each have wishes to fulfil in order, and follow the *)
(* descriptions of the tools.  A call waits at most 15 s; a request whose  *)
(* call has given up can still be served.                                  *)
(***************************************************************************)
EXTENDS Tools, Responses, Sequences, FiniteSets

CONSTANTS
    Agents,
    Scenarios,     \* the wishes of the agents: functions to sequences of Task
    Fields,        \* title, width and height
    Settings,      \* password, expiresAt, ... of a share link
    Denials,       \* those that set an allow* flag to false
    Jobs,          \* ids of export jobs: a bound on the exports served
    MaxStarts,     \* bound on the exports an agent starts for one wish
    MaxFaults,     \* bound on the calls without a proper answer
    None           \* not there, not yet

(* What the tools show of a presentation: fields, settings, the public     *)
(* link, jobs and their states.                                            *)
Shown == Fields \cup Settings \cup Jobs \cup {"link", "processing", "ready", "failed"}
ASSUME ThingsAssumption == Shown \subseteq Things

DeckTools == {update_presentation, publish_presentation, unpublish_presentation,
              export_presentation_pdf, get_pdf_export_status, get_presentation}
ShareTools == {publish_presentation, unpublish_presentation}
Wish == [tool : DeckTools, things : SUBSET Things]

(* What a user asks for; the other calls are made to get there.  An update *)
(* of nothing is refused by the tool.                                      *)
Task == [tool : {update_presentation}, things : (SUBSET Fields) \ {{}}]
           \cup [tool : {publish_presentation}, things : SUBSET Settings]
           \cup [tool : {unpublish_presentation, export_presentation_pdf}, things : {{}}]

ASSUME DenialsAssumption == Denials \subseteq Settings
ASSUME NoneAssumption ==
    /\ None \notin Agents \X Wish \X BOOLEAN
    /\ None \notin Wish \cup Outcome \cup Agents
ASSUME ScenariosAssumption == \A s \in Scenarios : s \in [Agents -> Seq(Task)]
ASSUME JobsAssumption ==
    IsFiniteSet(Jobs) /\ Jobs \cap {"link", "processing", "ready", "failed"} = {}
ASSUME BoundsAssumption == MaxStarts \in Nat \ {0} /\ MaxFaults \in Nat

VARIABLES
    task,       \* the wishes of each agent
    at,         \* the wish it is at; behind the last when it is done
    asked,      \* the call it waits for or has had last: a Wish, or None
    wire,       \* its request, as the backend sees it
    reply,      \* the reply of the backend, or None
    outcome,    \* what that call returned, or None
    job,        \* the export job the agent knows of
    starts,     \* exports it has started for its wish
    conflicts,  \* conflicts it has been told of for its wish
    ghosts,     \* requests not served when their calls returned
    faults,     \* calls without a proper answer so far
    deck,       \* whose value each field has
    raced,      \* agents whose update was overtaken by another
    share,      \* the settings of the link, or None: not published
    last,       \* the last publish or unpublish served: whose, which, late
    told,       \* the last one whose agent was told of its success, until
                \* one is called again
    jobs,       \* state of each export job
    starter,    \* the agent that started it
    unheard     \* starts served whose reply did not arrive, by agent

calls == <<task, at, asked, wire, reply, outcome, job, starts, conflicts, faults>>
backend == <<deck, raced, share, last, jobs, starter>>
vars == <<calls, backend, ghosts, told, unheard>>

TypeOK ==
    /\ task \in Scenarios
    /\ at \in [Agents -> Nat \ {0}]
    /\ asked \in [Agents -> Wish \cup {None}]
    /\ wire \in [Agents -> {"none", "sent", "served"}]
    /\ reply \in [Agents -> Reply \cup {None}]
    /\ outcome \in [Agents -> Outcome \cup {None}]
    /\ job \in [Agents -> Jobs \cup {None}]
    /\ starts \in [Agents -> 0..MaxStarts]
    /\ conflicts \in [Agents -> 0..1]
    /\ ghosts \in SUBSET (Agents \X Wish \X Nat)
    /\ faults \in 0..MaxFaults
    /\ deck \in [Fields -> Agents \cup {None}]
    /\ raced \in SUBSET Agents
    /\ share \in (SUBSET Settings) \cup {None}
    /\ last \in (Agents \X Wish \X BOOLEAN) \cup {None}
    /\ told \in (Agents \X Wish) \cup {None}
    /\ jobs \in [Jobs -> {"none", "processing", "ready", "failed"}]
    /\ starter \in [Jobs -> Agents \cup {None}]
    /\ unheard \in [Agents -> Nat]

Init ==
    /\ task \in Scenarios
    /\ at = [i \in Agents |-> 1]
    /\ asked = [i \in Agents |-> None]
    /\ wire = [i \in Agents |-> "none"]
    /\ reply = [i \in Agents |-> None]
    /\ outcome = [i \in Agents |-> None]
    /\ job = [i \in Agents |-> None]
    /\ starts = [i \in Agents |-> 0]
    /\ conflicts = [i \in Agents |-> 0]
    /\ ghosts = {}
    /\ faults = 0
    /\ deck = [f \in Fields |-> None]
    /\ raced = {}
    /\ share = None
    /\ last = None
    /\ told = None
    /\ jobs = [j \in Jobs |-> "none"]
    /\ starter = [j \in Jobs |-> None]
    /\ unheard = [i \in Agents |-> 0]

-----------------------------------------------------------------------------
(* What an agent does next, by the descriptions of the tools.              *)

Uncertain == {"failed", "trouble"}
Does(i, tool) == asked[i] # None /\ asked[i].tool = tool
Finished(i) == at[i] > Len(task[i])
Current(i) == task[i][at[i]]
Refetch == [tool |-> get_presentation, things |-> {}]
Poll == [tool |-> get_pdf_export_status, things |-> {}]

(* The last call of the current wish, if there was one, has returned o.    *)
NextCall(i, o) ==
    IF o = None THEN Current(i)
    ELSE IF Does(i, export_presentation_pdf)
    THEN IF o.kind = "ok" THEN Poll ELSE Current(i)
    ELSE IF Does(i, get_pdf_export_status)
    THEN IF "failed" \in o.items THEN Current(i) ELSE Poll
    ELSE IF Does(i, update_presentation) THEN Refetch
    ELSE IF Does(i, get_presentation) /\ o.kind \in Uncertain THEN Refetch
    ELSE Current(i)    \* the same publish or unpublish; the update reapplied

(* Faulty variant: a failed export is started again and again.             *)
EndsIfReady(i, o) == o.kind = "refused" \/ (o.kind = "ok" /\ o.items \cap {"failed", "processing"} = {})

(* The wish is fulfilled, or the agent reports that it is not.             *)
(* After a conflict the update is tried once more.                         *)
Ends(i, o) ==
    LET again == starts[i] < MaxStarts IN
    IF Does(i, export_presentation_pdf)
    THEN o.kind # "ok" /\ (o.kind \notin Uncertain \/ ~again)
    ELSE IF Does(i, get_pdf_export_status)
    THEN \/ o.kind = "ok" /\ "ready" \in o.items
         \/ o.kind = "ok" /\ "failed" \in o.items /\ ~again
         \/ o.kind = "refused"
    ELSE IF Does(i, update_presentation)
    THEN \/ o.kind = "ok"
         \/ /\ o.kind = "refused"
            /\ (reply[i].code = "CONFLICT" => conflicts[i] = 1)
    ELSE IF Does(i, get_presentation)
    THEN o.kind = "refused" \/ (o.kind = "ok" /\ Current(i).things \subseteq o.items)
    ELSE o.kind \notin Uncertain

Call(i) ==
    LET next == NextCall(i, outcome[i]) IN
    /\ ~Finished(i)
    /\ wire[i] = "none"
    /\ asked' = [asked EXCEPT ![i] = next]
    /\ wire' = [wire EXCEPT ![i] = "sent"]
    /\ reply' = [reply EXCEPT ![i] = None]
    /\ outcome' = [outcome EXCEPT ![i] = None]
    /\ starts' = IF next.tool = export_presentation_pdf
                 THEN [starts EXCEPT ![i] = @ + 1] ELSE starts
    /\ raced' = raced \ {i}
    /\ told' = IF next.tool \in ShareTools THEN None ELSE told
    /\ UNCHANGED <<task, at, job, conflicts, faults, ghosts, deck, share, last,
                   jobs, starter, unheard>>

(* The call returns o.  An agent whose wish ends goes on with the next.    *)
Return(i, o) ==
    /\ wire' = [wire EXCEPT ![i] = "none"]
    /\ IF Ends(i, o)
       THEN /\ at' = [at EXCEPT ![i] = @ + 1]
            /\ outcome' = [outcome EXCEPT ![i] = None]
            /\ starts' = [starts EXCEPT ![i] = 0]
       ELSE /\ outcome' = [outcome EXCEPT ![i] = o]
            /\ UNCHANGED <<at, starts>>

(* Faulty variant: plain flags, which omitempty drops if they are false.   *)
BodyOfPlainFlags(w) == [w EXCEPT !.things = @ \ Denials]

(* The body of the request.  The strings of a wish are not empty and its   *)
(* numbers not zero; the flags are pointers: omitempty drops none of them. *)
Body(w) == w

(* presDo reads the reply: one status is wanted.                           *)
Receive(i) ==
    LET o == OfStatus(asked[i].tool.call.want, reply[i]) IN
    /\ wire[i] = "served"
    /\ Return(i, o)
    /\ job' = IF Does(i, export_presentation_pdf) /\ o.kind = "ok"
              THEN [job EXCEPT ![i] = CHOOSE j \in Jobs : j \in o.items] ELSE job
    /\ conflicts' = [conflicts EXCEPT ![i] =
                         IF Ends(i, o) THEN 0
                         ELSE IF reply[i].code = "CONFLICT" THEN @ + 1 ELSE @]
    /\ told' = IF /\ o.kind = "ok"
                  /\ asked[i].tool \in ShareTools
               THEN <<i, Current(i)>> ELSE told
    /\ UNCHANGED <<task, asked, reply, faults, ghosts, backend, unheard>>

(* The call times out, the connection breaks or a gateway answers.         *)
NoAnswer(i) ==
    /\ wire[i] \in {"sent", "served"}
    /\ faults < MaxFaults
    /\ faults' = faults + 1
    /\ \E kind \in Uncertain : Return(i, Nothing(kind))
    /\ ghosts' = IF wire[i] = "sent" THEN ghosts \cup {<<i, asked[i], faults>>} ELSE ghosts
    /\ unheard' = IF Does(i, export_presentation_pdf)
                  THEN [unheard EXCEPT ![i] = @ + 1] ELSE unheard
    /\ UNCHANGED <<task, asked, reply, job, conflicts, backend, told>>

-----------------------------------------------------------------------------
(* The backend, from the descriptions of the tools: it serves wish w of    *)
(* agent i.  If `late`, nobody hears the reply.                            *)

Yes(status, items) ==
    [status |-> status, body |-> "envelope", success |-> TRUE, code |-> "none",
     state |-> "none", details |-> "none", items |-> items, failed |-> {}, more |-> FALSE]
No(status, code) == [Yes(status, {}) EXCEPT !.success = FALSE, !.code = code]

Answer(i, late, r) == reply' = IF late THEN reply ELSE [reply EXCEPT ![i] = r]

Update(i, w, late) ==
    /\ w.tool = update_presentation
    /\ \/ /\ deck' = [f \in Fields |-> IF f \in w.things THEN i ELSE deck[f]]
          /\ raced' = Agents \ {i}
          /\ Answer(i, late, Yes(200, w.things))
       \/ /\ i \in raced
          /\ Answer(i, late, No(409, "CONFLICT"))
          /\ UNCHANGED <<deck, raced>>
    /\ UNCHANGED <<share, last, jobs, starter>>

(* The share configuration is replaced, its link is restored.              *)
Publish(i, w, late) ==
    /\ w.tool = publish_presentation
    /\ share' = w.things
    /\ last' = <<i, w, late>>
    /\ Answer(i, late, Yes(200, w.things \cup {"link"}))
    /\ UNCHANGED <<deck, raced, jobs, starter>>

Unpublish(i, w, late) ==
    /\ w.tool = unpublish_presentation
    /\ share' = None
    /\ last' = <<i, w, late>>
    /\ Answer(i, late, Yes(200, {}))
    /\ UNCHANGED <<deck, raced, jobs, starter>>

(* The link is shown, its settings are not.                                *)
Get(i, w, late) ==
    /\ w.tool = get_presentation
    /\ Answer(i, late, Yes(200, {f \in Fields : deck[f] = i}
                                  \cup IF share = None THEN {} ELSE {"link"}))
    /\ UNCHANGED backend

Export(i, w, late) ==
    LET j == CHOOSE free \in Jobs : jobs[free] = "none" IN
    /\ w.tool = export_presentation_pdf
    /\ \E free \in Jobs : jobs[free] = "none"
    /\ jobs' = [jobs EXCEPT ![j] = "processing"]
    /\ starter' = [starter EXCEPT ![j] = i]
    /\ Answer(i, late, Yes(202, {j, "processing"}))
    /\ UNCHANGED <<deck, raced, share, last>>

Status(i, w, late) ==
    /\ w.tool = get_pdf_export_status
    /\ Answer(i, late, Yes(200, {job[i], jobs[job[i]]}))
    /\ UNCHANGED backend

Served(i, w, late) ==
    \/ Update(i, w, late)
    \/ Publish(i, w, late)
    \/ Unpublish(i, w, late)
    \/ Get(i, w, late)
    \/ Export(i, w, late)
    \/ Status(i, w, late)

Serve(i) ==
    /\ wire[i] = "sent"
    /\ wire' = [wire EXCEPT ![i] = "served"]
    /\ Served(i, Body(asked[i]), FALSE)
    /\ UNCHANGED <<task, at, asked, outcome, job, starts, conflicts, faults,
                   ghosts, told, unheard>>

(* The presentation is gone, the value is out of range, ...                *)
Refuse(i) ==
    /\ wire[i] = "sent"
    /\ faults < MaxFaults
    /\ faults' = faults + 1
    /\ wire' = [wire EXCEPT ![i] = "served"]
    /\ Answer(i, FALSE, No(404, "none"))
    /\ UNCHANGED <<task, at, asked, outcome, job, starts, conflicts, ghosts,
                   backend, told, unheard>>

ServeLate(g) ==
    /\ ghosts' = ghosts \ {g}
    /\ Served(g[1], Body(g[2]), TRUE)
    /\ UNCHANGED <<task, at, asked, wire, outcome, job, starts, conflicts,
                   faults, told, unheard>>

FinishJob(j) ==
    /\ jobs[j] = "processing"
    /\ \E end \in {"ready", "failed"} : jobs' = [jobs EXCEPT ![j] = end]
    /\ UNCHANGED <<calls, deck, raced, share, last, starter, ghosts, told, unheard>>

Idle == (\A i \in Agents : Finished(i)) /\ UNCHANGED vars

Next ==
    \/ \E i \in Agents : Call(i) \/ Receive(i) \/ NoAnswer(i) \/ Serve(i) \/ Refuse(i)
    \/ \E g \in ghosts : ServeLate(g)
    \/ \E j \in Jobs : FinishJob(j)
    \/ Idle

Spec == Init /\ [][Next]_vars

(***************************************************************************)
(* Fairness.  An agent goes on, the client returns what it receives, the   *)
(* API serves what it is sent and a job ends.  Lost replies, refusals and  *)
(* late requests are not owed.                                             *)
(***************************************************************************)
Fairness ==
    /\ \A i \in Agents : WF_vars(Call(i)) /\ WF_vars(Receive(i)) /\ WF_vars(Serve(i))
    /\ \A j \in Jobs : WF_vars(FinishJob(j))

FairSpec == Spec /\ Fairness

-----------------------------------------------------------------------------
(* Properties *)

(* The exports that agent i was asked for so far.                          *)
Begun(i) ==
    Cardinality({n \in 1..at[i] :
                    n <= Len(task[i]) /\ task[i][n].tool = export_presentation_pdf})

(* No export is started in vain: besides one for each export an agent was  *)
(* asked for, all the jobs it started have failed, but for the starts      *)
(* whose reply it never got (property.go, export_presentation_pdf: "Only   *)
(* start a NEW export if a previous job reported 'failed'").               *)
NoIdleExport ==
    \A i \in Agents :
        Cardinality({j \in Jobs : starter[j] = i /\ jobs[j] # "failed"})
            <= Begun(i) + unheard[i]

(* What the last publish or unpublish of an agent was told is how the link *)
(* is, password and all, whatever was published before: unless another     *)
(* agent's call, or one of its own that had given up, was served since     *)
(* (property.go:978-1014).                                                 *)
SharedAsTold ==
    told # None =>
        LET i == told[1] w == told[2] IN
        \/ share = IF w.tool = publish_presentation THEN w.things ELSE None
        \/ last[1] # i \/ last[3]

(* An agent that exports, or does anything else, comes to an end: it has   *)
(* the link of its PDF, or knows that it failed.                           *)
EveryWishEnds == \A i \in Agents : <>Finished(i)

=============================================================================

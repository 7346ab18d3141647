------------------------ MODULE PresentationsProofs ------------------------
(***************************************************************************)
(* Proofs that what an agent was told of the public link holds, that no    *)
(* export is started in vain and that the variables keep their types, for  *)
(* any agents, wishes, settings, jobs and bounds.                          *)
(***************************************************************************)
EXTENDS Presentations, FiniteSetTheorems, TLAPS

(* The link that a publish or an unpublish asks for.                       *)
Config(w) == IF w.tool = publish_presentation THEN w.things ELSE None

(* The types of the variables spoken of below.                             *)
Shapes == /\ task \in [Agents -> Seq(Task)]
          /\ at \in [Agents -> Nat \ {0}]
          /\ asked = [i \in Agents |-> asked[i]]
          /\ wire = [i \in Agents |-> wire[i]]
          /\ reply = [i \in Agents |-> reply[i]]
          /\ \A i \in Agents : wire[i] # "none" => asked[i] \in Wish
          /\ ghosts \subseteq Agents \X Wish \X Nat
          /\ faults \in Nat

(* The link is what the last publish or unpublish served asked for.        *)
LinkInv == last # None => share = Config(last[2])

(* If i made that call itself, and still waited for it, it was w.          *)
LastOf(i, w) == last # None /\ (last[1] = i /\ ~last[3] => last[2] = w)

Shares(i) == asked[i].tool \in ShareTools

(* An agent asks for its wish.                                             *)
AskedInv == \A i \in Agents : wire[i] # "none" /\ Shares(i) => asked[i] = Current(i)

(* A success that is on its way to an agent is that of its call.           *)
ServedInv ==
    \A i \in Agents :
        wire[i] = "served" /\ Shares(i) /\ reply[i].status = 200 => LastOf(i, asked[i])

(* An agent that was told so has not asked for anything else since.        *)
ToldInv ==
    told # None => /\ told[1] \in Agents
                   /\ LastOf(told[1], told[2])
                   /\ ~(wire[told[1]] = "sent" /\ Shares(told[1]))

IInv == Shapes /\ LinkInv /\ AskedInv /\ ServedInv /\ ToldInv

-----------------------------------------------------------------------------

(* Tools are told apart by their names.                                    *)
LEMMA ToolsDiffer ==
    /\ publish_presentation # unpublish_presentation
    /\ \A tool \in {update_presentation, export_presentation_pdf,
                    get_pdf_export_status, get_presentation} : tool \notin ShareTools
    /\ \A tool \in ShareTools : tool.call.want = 200
<1>1. /\ publish_presentation.name = "publish_presentation"
      /\ publish_presentation.call = PublishPresentation
      /\ unpublish_presentation.name = "unpublish_presentation"
      /\ unpublish_presentation.call = UnpublishPresentation
      /\ update_presentation.name = "update_presentation"
      /\ export_presentation_pdf.name = "export_presentation_pdf"
      /\ get_pdf_export_status.name = "get_pdf_export_status"
      /\ get_presentation.name = "get_presentation"
  BY DEF publish_presentation, unpublish_presentation, update_presentation,
         export_presentation_pdf, get_pdf_export_status, get_presentation, Tool
<1>2. PublishPresentation.want = 200 /\ UnpublishPresentation.want = 200
  BY DEF PublishPresentation, UnpublishPresentation, presDo, Method
<1> QED
  BY <1>1, <1>2 DEF ShareTools

(* What serving a request does to the link and to the reply.               *)
LEMMA ServedEffect ==
    ASSUME NEW i, NEW w, NEW late \in BOOLEAN, Served(i, w, late)
    PROVE  /\ \/ /\ w.tool \in ShareTools
                 /\ last' = <<i, w, late>> /\ share' = Config(w)
              \/ w.tool \notin ShareTools /\ UNCHANGED <<last, share>>
           /\ \E r : Answer(i, late, r)
<1>1. CASE Update(i, w, late)
  BY <1>1, ToolsDiffer DEF Update
<1>2. CASE Publish(i, w, late)
  BY <1>2 DEF Publish, Config, ShareTools
<1>3. CASE Unpublish(i, w, late)
  BY <1>3, ToolsDiffer DEF Unpublish, Config, ShareTools
<1>4. CASE Get(i, w, late)
  BY <1>4, ToolsDiffer DEF Get, backend
<1>5. CASE Export(i, w, late)
  BY <1>5, ToolsDiffer DEF Export
<1>6. CASE Status(i, w, late)
  BY <1>6, ToolsDiffer DEF Status, backend
<1> QED
  BY <1>1, <1>2, <1>3, <1>4, <1>5, <1>6 DEF Served

(* Nothing was published or told at the beginning.                         *)
LEMMA InitIInv == Init => IInv
BY ScenariosAssumption
   DEF Init, IInv, Shapes, LinkInv, AskedInv, ServedInv, ToldInv

(* Each action keeps the invariant.                                        *)
LEMMA CallStep ==
    ASSUME IInv, NEW i \in Agents, Call(i)
    PROVE  IInv'
<1> DEFINE next == NextCall(i, outcome[i])
<1> USE DEF IInv, Shapes
<1>1. asked'[i] = next /\ wire'[i] = "sent"
  BY DEF Call
<1>2. \A j \in Agents \ {i} : asked'[j] = asked[j] /\ wire'[j] = wire[j] /\ reply'[j] = reply[j]
  BY DEF Call
<1>3. LinkInv'
  BY DEF Call, LinkInv
<1>4. next.tool \in ShareTools => next = Current(i)
  <2>1. Refetch.tool \notin ShareTools /\ Poll.tool \notin ShareTools
    BY ToolsDiffer DEF Refetch, Poll
  <2>2. next \in {Current(i), Refetch, Poll}
    BY DEF NextCall
  <2> QED
    BY <2>1, <2>2
<1>8. next \in Wish
  <2>1. Refetch \in Wish /\ Poll \in Wish
    BY DEF Refetch, Poll, Wish, DeckTools
  <2>2. Current(i) \in Wish
    <3>1. task[i] \in Seq(Task) /\ at[i] \in 1..Len(task[i])
      BY DEF Call, Finished
    <3>2. Task \subseteq Wish
      BY ThingsAssumption DEF Task, Wish, DeckTools, Shown
    <3> QED
      BY <3>1, <3>2 DEF Current
  <2> QED
    BY <2>1, <2>2 DEF NextCall
<1> HIDE DEF next
<1>9. Shapes'
  BY <1>1, <1>2, <1>8 DEF Call
<1>5. AskedInv'
  <2>1. \A j \in Agents : Current(j)' = Current(j)
    BY DEF Call, Current
  <2> QED
    BY <1>1, <1>2, <1>4, <2>1 DEF AskedInv, Shares
<1>6. ServedInv'
  BY <1>1, <1>2 DEF Call, ServedInv, LastOf, Shares
<1>7. ToldInv'
  <2>1. CASE next.tool \in ShareTools
    BY <2>1 DEF next, Call, ToldInv
  <2>2. CASE next.tool \notin ShareTools
    <3>1. UNCHANGED <<told, last>>
      BY <2>2 DEF next, Call
    <3>2. SUFFICES ASSUME told # None
                   PROVE  ~(wire'[told[1]] = "sent" /\ Shares(told[1])')
      BY <3>1 DEF ToldInv, LastOf
    <3>3. CASE told[1] = i
      BY <1>1, <2>2, <3>1, <3>3 DEF Shares
    <3>4. CASE told[1] # i
      <4>1. told[1] \in Agents \ {i} /\ ~(wire[told[1]] = "sent" /\ Shares(told[1]))
        BY <3>2, <3>4 DEF ToldInv
      <4> QED
        BY <1>2, <3>1, <4>1 DEF Shares
    <3> QED
      BY <3>3, <3>4
  <2> QED
    BY <2>1, <2>2
<1> QED
  BY <1>3, <1>5, <1>6, <1>7, <1>9

(* A call that returns may be told of a link that was its own.             *)
LEMMA ReturnStep ==
    ASSUME IInv, NEW i \in Agents, NEW o, Return(i, o),
           UNCHANGED <<task, asked, reply, share, last>>,
           ghosts' \subseteq Agents \X Wish \X Nat, faults' \in Nat,
           told' = told \/ (told' = <<i, Current(i)>> /\ LastOf(i, Current(i)))
    PROVE  IInv'
<1> USE DEF IInv, Shapes
<1>1. wire' = [wire EXCEPT ![i] = "none"]
  BY DEF Return
<1>2. Shapes' /\ LinkInv'
  <2>1. at' \in [Agents -> Nat \ {0}]
    BY DEF Return
  <2> QED
    BY <1>1, <2>1 DEF LinkInv
<1>3. \A j \in Agents \ {i} : Current(j)' = Current(j)
  BY DEF Return, Current
<1>4. AskedInv'
  BY <1>1, <1>3 DEF AskedInv, Shares
<1>5. ServedInv'
  BY <1>1 DEF ServedInv, LastOf, Shares
<1>6. ToldInv'
  BY <1>1 DEF ToldInv, LastOf, Shares
<1> QED
  BY <1>2, <1>4, <1>5, <1>6

(* A reply of success to a publish or an unpublish is such a case.         *)
LEMMA ReceiveStep ==
    ASSUME IInv, NEW i \in Agents, Receive(i)
    PROVE  IInv'
<1> DEFINE o == OfStatus(asked[i].tool.call.want, reply[i])
<1> USE DEF IInv, Shapes
<1>1. CASE o.kind = "ok" /\ Shares(i)
  <2>1. reply[i].status = 200
    BY <1>1, ToolsDiffer DEF OfStatus, StatusError, Nothing, Shares
  <2>2. asked[i] = Current(i) /\ LastOf(i, asked[i])
    BY <2>1, <1>1 DEF Receive, AskedInv, ServedInv
  <2> QED
    BY <1>1, <2>2, ReturnStep DEF Receive, Shares, backend
<1>2. CASE ~(o.kind = "ok" /\ Shares(i))
  BY <1>2, ReturnStep DEF Receive, Shares, backend
<1> QED
  BY <1>1, <1>2

(* A step that changes neither calls nor the link.                         *)
LEMMA LinkKept ==
    ASSUME IInv, UNCHANGED <<task, at, asked, wire, reply, share, last, told, ghosts, faults>>
    PROVE  IInv'
BY DEF IInv, Shapes, LinkInv, AskedInv, ServedInv, ToldInv, LastOf, Shares, Current

(* A call on record is not taken for none.                                 *)
LEMMA OnRecord ==
    ASSUME NEW i \in Agents, NEW w \in Wish, NEW late \in BOOLEAN
    PROVE  <<i, w, late>> # None
<1>1. <<i, w, late>> \in Agents \X Wish \X BOOLEAN
  OBVIOUS
<1> QED
  BY <1>1, NoneAssumption

(* The request of a call that waits is served.                             *)
LEMMA ServeStep ==
    ASSUME IInv, NEW i \in Agents, Serve(i)
    PROVE  IInv'
<1> USE DEF IInv, Shapes
<1>1. Served(i, asked[i], FALSE) /\ wire[i] = "sent"
  BY DEF Serve, Body
<1>2. PICK r : reply' = [reply EXCEPT ![i] = r]
  BY <1>1, ServedEffect DEF Answer
<1>3. wire' = [wire EXCEPT ![i] = "served"]
  BY DEF Serve
<1>4. UNCHANGED <<asked, at, task, told, ghosts, faults>>
  BY DEF Serve
<1>5. Shapes' /\ AskedInv'
  BY <1>1, <1>2, <1>3, <1>4 DEF AskedInv, Shares, Current
<1>6. CASE Shares(i) /\ last' = <<i, asked[i], FALSE>> /\ share' = Config(asked[i])
  <2>1. last' # None
    BY <1>1, <1>6, OnRecord
  <2>2. LinkInv'
    BY <1>6 DEF LinkInv
  <2>3. ServedInv'
    BY <1>2, <1>3, <1>4, <1>6, <2>1 DEF ServedInv, LastOf
  <2>4. ToldInv'
    BY <1>1, <1>3, <1>4, <1>6, <2>1 DEF ToldInv, LastOf, Shares
  <2> QED
    BY <1>5, <2>2, <2>3, <2>4
<1>7. CASE ~Shares(i) /\ UNCHANGED <<last, share>>
  BY <1>2, <1>3, <1>4, <1>5, <1>7 DEF LinkInv, ServedInv, ToldInv, LastOf, Shares
<1> QED
  BY <1>1, <1>6, <1>7, ServedEffect DEF Shares

(* It is refused: with a 404, not a 200.                                   *)
LEMMA RefuseStep ==
    ASSUME IInv, NEW i \in Agents, Refuse(i)
    PROVE  IInv'
<1> USE DEF IInv, Shapes
<1>1. reply'[i].status # 200
  <2>1. reply'[i].status = 404
    BY DEF Refuse, Answer, No, Yes
  <2> QED
    BY <2>1
<1>2. \A j \in Agents \ {i} : reply'[j] = reply[j] /\ wire'[j] = wire[j]
  BY DEF Refuse, Answer
<1>3. wire[i] = "sent" /\ wire'[i] = "served"
  BY DEF Refuse
<1>4. UNCHANGED <<task, at, asked, ghosts, share, last, told>>
  BY DEF Refuse, backend
<1>5. Shapes'
  <2>1. faults' = faults + 1
    BY DEF Refuse
  <2>2. reply' = [j \in Agents |-> reply'[j]] /\ wire' = [j \in Agents |-> wire'[j]]
    BY DEF Refuse, Answer
  <2> QED
    BY <1>2, <1>3, <1>4, <2>1, <2>2
<1>6. LinkInv' /\ AskedInv'
  BY <1>2, <1>3, <1>4 DEF LinkInv, AskedInv, Shares, Current
<1>7. ServedInv'
  <2> SUFFICES ASSUME NEW j \in Agents, wire'[j] = "served", Shares(j)',
                      reply'[j].status = 200
               PROVE  LastOf(j, asked[j])'
    BY DEF ServedInv
  <2>1. j # i /\ Shares(j)
    BY <1>1, <1>4 DEF Shares
  <2>2. LastOf(j, asked[j])
    BY <1>2, <2>1 DEF ServedInv
  <2> QED
    BY <1>4, <2>2 DEF LastOf
<1>8. ToldInv'
  BY <1>2, <1>3, <1>4 DEF ToldInv, LastOf, Shares
<1> QED
  BY <1>5, <1>6, <1>7, <1>8

(* One whose call has given up is served: on record as late.               *)
LEMMA ServeLateStep ==
    ASSUME IInv, NEW g \in ghosts, ServeLate(g)
    PROVE  IInv'
<1> USE DEF IInv, Shapes
<1>1. /\ Served(g[1], g[2], TRUE) /\ ghosts' \subseteq ghosts
      /\ UNCHANGED <<task, at, asked, wire, told, faults>>
  BY DEF ServeLate, Body
<1>2. UNCHANGED reply
  BY <1>1, ServedEffect DEF Answer
<1>3. CASE last' = <<g[1], g[2], TRUE>> /\ share' = Config(g[2])
  <2>1. last' # None
    BY <1>3, OnRecord
  <2> QED
    BY <1>1, <1>2, <1>3, <2>1
       DEF LinkInv, AskedInv, ServedInv, ToldInv, LastOf, Shares, Current
<1>4. CASE UNCHANGED <<last, share>>
  BY <1>1, <1>2, <1>4 DEF LinkInv, AskedInv, ServedInv, ToldInv, LastOf, Shares, Current
<1> QED
  BY <1>1, <1>3, <1>4, ServedEffect

(* The invariant holds throughout.                                         *)
THEOREM Inductive == Spec => []IInv
<1>1. IInv /\ [Next]_vars => IInv'
  <2> SUFFICES ASSUME IInv, [Next]_vars PROVE IInv'
    OBVIOUS
  <2>1. CASE UNCHANGED vars
    BY <2>1, LinkKept DEF vars, calls, backend
  <2>2. ASSUME NEW i \in Agents, NoAnswer(i) PROVE IInv'
    <3> USE DEF IInv, Shapes
    <3>1. PICK kind \in Uncertain : Return(i, Nothing(kind))
      BY <2>2 DEF NoAnswer
    <3>2. ghosts' \subseteq Agents \X Wish \X Nat
      BY <2>2 DEF NoAnswer
    <3>3. faults' \in Nat
      BY <2>2 DEF NoAnswer
    <3> QED
      BY <2>2, <3>1, <3>2, <3>3, ReturnStep DEF NoAnswer, backend
  <2>3. ASSUME NEW i \in Agents, Refuse(i) PROVE IInv'
    BY <2>3, RefuseStep
  <2>4. ASSUME NEW j \in Jobs, FinishJob(j) PROVE IInv'
    BY <2>4, LinkKept DEF FinishJob, calls
  <2> QED
    BY <2>1, <2>2, <2>3, <2>4, CallStep, ReceiveStep, ServeStep, ServeLateStep
       DEF Next, Idle
<1> QED
  BY InitIInv, <1>1, PTL DEF Spec

(* What the last publish or unpublish of an agent was told is how the link *)
(* is, unless another call or a late one was served since                  *)
(* (property.go:978-1014).                                                 *)
THEOREM Link == Spec => []SharedAsTold
<1>1. IInv => SharedAsTold
  BY DEF IInv, LinkInv, ToldInv, LastOf, SharedAsTold, Config
<1> QED
  BY Inductive, <1>1, PTL


-----------------------------------------------------------------------------
(* Exports, and the types of it all.                                       *)

(* What an agent asks for: its task, the presentation, the job.            *)
Requests == Task \cup {Refetch, Poll}

Exporting(i) == Does(i, export_presentation_pdf)
Polling(i) == Does(i, get_pdf_export_status)

(* A call is under way, or the last one did not end the wish.              *)
Pending(i) == wire[i] # "none" \/ outcome[i] # None

(* It is for the wish, or for what the tool's description says comes next. *)
WishInv(i) ==
    Pending(i) =>
        /\ ~Finished(i)
        /\ \/ asked[i] = Current(i)
           \/ asked[i] = Refetch /\ Current(i).tool = update_presentation
           \/ asked[i] = Poll /\ Current(i).tool = export_presentation_pdf

(* A reply is one to the call.                                             *)
ReplyInv(i) ==
    wire[i] = "served" =>
        /\ reply[i] \in Reply
        /\ reply[i].code = "CONFLICT" =>
              Does(i, update_presentation) /\ reply[i].status = 409
        /\ Exporting(i) =>
              \/ reply[i].status = 404
              \/ /\ reply[i].status = 202 /\ reply[i].body = "envelope"
                 /\ \E j \in Jobs : reply[i].items = {j, "processing"}
        /\ Polling(i) /\ "failed" \in reply[i].items => jobs[job[i]] = "failed"

(* An agent starts again only while it may, and not before it knows that   *)
(* the job it follows failed.                                              *)
StartInv(i) ==
    /\ ~Pending(i) => starts[i] = 0
    /\ outcome[i] # None /\ Exporting(i) /\ outcome[i].kind # "ok" => starts[i] < MaxStarts
    /\ outcome[i] # None /\ Polling(i) /\ "failed" \in outcome[i].items =>
          starts[i] < MaxStarts /\ jobs[job[i]] = "failed"

(* An agent that has heard of its job follows it; j is that job, or the    *)
(* one it is about to hear of.                                             *)
Follows(i) ==
    \/ Polling(i) /\ Pending(i)
    \/ Exporting(i) /\ wire[i] = "none" /\ outcome[i] # None /\ outcome[i].kind = "ok"

Known(i, j) ==
    \/ Follows(i) /\ j = job[i]
    \/ /\ Exporting(i) /\ wire[i] = "served"
       /\ reply[i].status = 202 /\ j \in reply[i].items

FollowInv(i) ==
    /\ Follows(i) => job[i] \in Jobs
    /\ \A j \in Jobs : Known(i, j) => starter[j] = i /\ jobs[j] # "none"

(* The jobs an agent started that have not failed, those it may yet start  *)
(* by requests that have given up, and whether its wish calls for one.     *)
Open(i) == {j \in Jobs : starter[j] = i /\ jobs[j] # "failed"}
Late(i) == {g \in ghosts : g[1] = i /\ g[2].tool = export_presentation_pdf}
Due(i) ==
    /\ ~Finished(i)
    /\ Current(i).tool = export_presentation_pdf
    /\ \A j \in Jobs : Known(i, j) => jobs[j] = "failed"

Owed(i) == IF Due(i) THEN 1 ELSE 0

(* All of these are asked for, or make up for a start that was not heard   *)
(* of.                                                                     *)
CountInv(i) ==
    Cardinality(Open(i)) + Cardinality(Late(i)) + Owed(i) <= Begun(i) + unheard[i]

AgentInv(i) ==
    /\ WishInv(i)
    /\ ReplyInv(i)
    /\ StartInv(i)
    /\ FollowInv(i)
    /\ CountInv(i)

ExportInv ==
    /\ TypeOK
    /\ IsFiniteSet(ghosts)
    /\ \A g \in ghosts : g[2] \in Requests
    /\ \A i \in Agents : AgentInv(i)

(* The tools and their methods, told apart.                                *)
LEMMA DeckToolsDiffer ==
    /\ update_presentation \notin {publish_presentation, unpublish_presentation,
           export_presentation_pdf, get_pdf_export_status, get_presentation}
    /\ publish_presentation \notin {unpublish_presentation,
           export_presentation_pdf, get_pdf_export_status, get_presentation}
    /\ unpublish_presentation \notin {
           export_presentation_pdf, get_pdf_export_status, get_presentation}
    /\ export_presentation_pdf \notin {get_pdf_export_status, get_presentation}
    /\ get_pdf_export_status # get_presentation
    /\ update_presentation.call.want = 200
    /\ export_presentation_pdf.call.want = 202
<1>1. /\ publish_presentation.name = "publish_presentation"
      /\ unpublish_presentation.name = "unpublish_presentation"
      /\ update_presentation.name = "update_presentation"
      /\ export_presentation_pdf.name = "export_presentation_pdf"
      /\ get_pdf_export_status.name = "get_pdf_export_status"
      /\ get_presentation.name = "get_presentation"
  BY DEF publish_presentation, unpublish_presentation, update_presentation,
         export_presentation_pdf, get_pdf_export_status, get_presentation, Tool
<1>2. /\ update_presentation.call = UpdatePresentation
      /\ export_presentation_pdf.call = ExportPresentationPDF
  BY DEF update_presentation, export_presentation_pdf, Tool
<1>3. UpdatePresentation.want = 200 /\ ExportPresentationPDF.want = 202
  BY DEF UpdatePresentation, ExportPresentationPDF, presDo, Method
<1> QED
  BY <1>1, <1>2, <1>3

(* What agents ask for, and how.                                           *)
LEMMA RequestTypes ==
    /\ Requests \subseteq Wish
    /\ \A w \in Task : w.tool \notin {get_presentation, get_pdf_export_status}
    /\ Refetch.tool = get_presentation /\ Poll.tool = get_pdf_export_status
    /\ \A w \in Requests : /\ w.things \subseteq Things
                           /\ w.tool = publish_presentation => w.things \subseteq Settings
                           /\ w.tool = export_presentation_pdf => w \in Task
                           /\ w.tool = get_pdf_export_status => w = Poll
<1>1. Refetch \in Wish /\ Poll \in Wish
  BY DEF Refetch, Poll, Wish, DeckTools
<1>2. Fields \subseteq Things /\ Settings \subseteq Things
  BY ThingsAssumption DEF Shown
<1>3. Task \subseteq Wish
  BY <1>2 DEF Task, Wish, DeckTools
<1>4. \A w \in Task : w.tool \notin {get_presentation, get_pdf_export_status}
  BY DeckToolsDiffer DEF Task
<1>5. /\ Refetch.tool = get_presentation /\ Refetch.things = {}
      /\ Poll.tool = get_pdf_export_status /\ Poll.things = {}
  BY DEF Refetch, Poll
<1>6. \A w \in Task : /\ w.things \subseteq Things
                      /\ w.tool = publish_presentation => w.things \subseteq Settings
  BY <1>2, DeckToolsDiffer DEF Task
<1> QED
  BY <1>1, <1>3, <1>4, <1>5, <1>6, DeckToolsDiffer DEF Requests

(* Replies and what is made of them are of their types.                    *)
LEMMA YesType ==
    ASSUME NEW status \in Statuses, NEW items \in SUBSET Things
    PROVE  /\ Yes(status, items) \in Reply
           /\ Yes(status, items).status = status
           /\ Yes(status, items).items = items
           /\ Yes(status, items).code = "none"
           /\ Yes(status, items).body = "envelope"
BY DEF Yes, Reply, Codes, Billing

LEMMA NoType ==
    ASSUME NEW status \in Statuses, NEW code \in Codes
    PROVE  /\ No(status, code) \in Reply
           /\ No(status, code).status = status
           /\ No(status, code).items = {}
           /\ No(status, code).code = code
BY DEF No, Yes, Reply, Billing

LEMMA OutcomeType ==
    ASSUME NEW want, NEW r \in Reply
    PROVE  /\ OfStatus(want, r) \in Outcome
           /\ OfStatus(want, r).items # {} =>
                 OfStatus(want, r).kind = "ok" /\ OfStatus(want, r).items = r.items
           /\ OfStatus(want, r).kind = "ok" =>
                 r.status = want /\ OfStatus(want, r).items = r.items
           /\ r.status = want /\ r.body = "envelope" => OfStatus(want, r).kind = "ok"
           /\ r.status = 404 /\ want # 404 => OfStatus(want, r).kind = "refused"
           /\ r.status = 409 /\ want # 409 => OfStatus(want, r).kind = "refused"
<1>1. CASE r.status # want
  <2>1. /\ OfStatus(want, r) \in Outcome
        /\ OfStatus(want, r).items = {}
        /\ OfStatus(want, r).kind \in {"refused", "trouble"}
        /\ r.status \in 400..499 => OfStatus(want, r).kind = "refused"
    BY <1>1 DEF OfStatus, StatusError, Nothing, Outcome, Kinds
  <2> QED
    BY <1>1, <2>1
<1>2. CASE r.status = want /\ r.body \in {"envelope", "json"}
  <2>1. OfStatus(want, r) = Content("ok", r)
    BY <1>2 DEF OfStatus
  <2>2. Content("ok", r) \in Outcome /\ Content("ok", r).kind = "ok"
        /\ Content("ok", r).items = r.items
    BY DEF Content, Outcome, Kinds, Reply
  <2> QED
    BY <1>2, <2>1, <2>2
<1>3. CASE r.status = want /\ r.body \notin {"envelope", "json"}
  <2>1. OfStatus(want, r) = Nothing("failed")
    BY <1>3 DEF OfStatus
  <2>2. Nothing("failed") \in Outcome /\ Nothing("failed").kind = "failed"
        /\ Nothing("failed").items = {}
    BY DEF Nothing, Outcome, Kinds
  <2> QED
    BY <1>3, <2>1, <2>2
<1> QED
  BY <1>1, <1>2, <1>3

LEMMA NothingType ==
    ASSUME NEW kind \in Uncertain
    PROVE  /\ Nothing(kind) \in Outcome
           /\ Nothing(kind).kind = kind
           /\ Nothing(kind).items = {}
           /\ Nothing(kind) # None
<1>1. Nothing(kind) \in Outcome
  BY DEF Nothing, Outcome, Kinds, Uncertain
<1> QED
  BY <1>1, NoneAssumption DEF Nothing

(* A wish to fulfil is one of the agent's.                                 *)
LEMMA CurrentType ==
    ASSUME TypeOK, NEW i \in Agents, ~Finished(i)
    PROVE  Current(i) \in Task
<1>1. task[i] \in Seq(Task) /\ at[i] \in 1..Len(task[i])
  BY ScenariosAssumption DEF TypeOK, Finished
<1> QED
  BY <1>1 DEF Current

(* All of it can be counted.                                               *)
LEMMA CountTypes ==
    ASSUME TypeOK, IsFiniteSet(ghosts), NEW i \in Agents
    PROVE  /\ IsFiniteSet(Open(i)) /\ Cardinality(Open(i)) \in Nat
           /\ IsFiniteSet(Late(i)) /\ Cardinality(Late(i)) \in Nat
           /\ Begun(i) \in Nat /\ Owed(i) \in {0, 1} /\ unheard[i] \in Nat
<1>1. IsFiniteSet(Open(i)) /\ IsFiniteSet(Late(i))
  BY JobsAssumption, FS_Subset DEF Open, Late
<1>2. IsFiniteSet({n \in 1..at[i] :
                      n <= Len(task[i]) /\ task[i][n].tool = export_presentation_pdf})
  <2>1. IsFiniteSet(1..at[i])
    BY FS_Interval DEF TypeOK
  <2> QED
    BY <2>1, FS_Subset
<1> QED
  BY <1>1, <1>2, FS_CardinalityType DEF Begun, Owed, TypeOK

(* An agent that comes to its next wish has begun an export more, if that  *)
(* is one.                                                                 *)
LEMMA BegunGrows ==
    ASSUME TypeOK, NEW i \in Agents, UNCHANGED task, at'[i] = at[i] + 1
    PROVE  Begun(i)' \in Nat /\ Begun(i)' >= Begun(i) + Owed(i)'
<1> DEFINE Is(n) == n <= Len(task[i]) /\ task[i][n].tool = export_presentation_pdf
           S == {n \in 1..at[i] : Is(n)}
           T == {n \in 1..(at[i] + 1) : Is(n)}
<1>1. at[i] \in Nat /\ at[i] + 1 \notin S
  BY DEF TypeOK
<1>2. IsFiniteSet(S)
  <2>1. IsFiniteSet(1..at[i])
    BY <1>1, FS_Interval
  <2> QED
    BY <2>1, FS_Subset
<1>3. T = IF Is(at[i] + 1) THEN S \cup {at[i] + 1} ELSE S
  BY <1>1
<1>5. Begun(i)' = Cardinality(T) /\ Begun(i) = Cardinality(S)
  BY DEF Begun
<1>6. Due(i)' => Is(at[i] + 1)
  <2>1. Len(task[i]) \in Nat
    BY ScenariosAssumption DEF TypeOK
  <2> QED
    BY <1>1, <2>1 DEF Due, Finished, Current
<1> HIDE DEF S, T, Is
<1>7. Cardinality(S) \in Nat
  BY <1>2, FS_CardinalityType
<1>4. Cardinality(T) = Cardinality(S) + IF Is(at[i] + 1) THEN 1 ELSE 0
  <2>1. Cardinality(S \cup {at[i] + 1}) = Cardinality(S) + 1
    BY <1>1, <1>2, FS_AddElement
  <2>2. CASE Is(at[i] + 1)
    BY <1>3, <2>1, <2>2
  <2>3. CASE ~Is(at[i] + 1)
    BY <1>3, <1>7, <2>3
  <2> QED
    BY <2>2, <2>3
<1>8. Owed(i)' \in {0, 1} /\ (Owed(i)' = 1 => Is(at[i] + 1))
  BY <1>6 DEF Owed
<1> QED
  BY <1>4, <1>5, <1>7, <1>8

(* What is known of an agent's job stays so as long as the job does.       *)
LEMMA AgentKept ==
    ASSUME ExportInv, NEW k \in Agents, IsFiniteSet(ghosts'), TypeOK',
           UNCHANGED <<task[k], at[k], asked[k], wire[k], reply[k], outcome[k],
                       job[k], starts[k], unheard[k]>>,
           \A j \in Jobs : starter[j] = k /\ jobs[j] # "none" =>
               starter'[j] = k /\ jobs'[j] = jobs[j],
           \A j \in Jobs : starter'[j] = k => starter[j] = k /\ jobs'[j] = jobs[j],
           Late(k)' \subseteq Late(k)
    PROVE  AgentInv(k)'
<1> USE DEF Exporting, Polling, Does, Pending, Finished, Current
<1>1. AgentInv(k)
  BY DEF ExportInv
<1>2. Polling(k) /\ Pending(k) => job[k] \in Jobs /\ starter[job[k]] = k /\ jobs[job[k]] # "none"
  BY <1>1 DEF AgentInv, FollowInv, Follows, Known
<1>3. /\ wire'[k] = wire[k] /\ outcome'[k] = outcome[k] /\ asked'[k] = asked[k]
      /\ reply'[k] = reply[k] /\ job'[k] = job[k] /\ starts'[k] = starts[k]
      /\ task'[k] = task[k] /\ at'[k] = at[k] /\ unheard'[k] = unheard[k]
  OBVIOUS
<1>4. WishInv(k)'
  BY <1>1, <1>3 DEF AgentInv, WishInv
<1>5. ReplyInv(k)'
  BY <1>1, <1>2, <1>3 DEF AgentInv, ReplyInv
<1>6. StartInv(k)'
  BY <1>1, <1>2, <1>3 DEF AgentInv, StartInv
<1>7. \A j : Known(k, j)' <=> Known(k, j)
  BY <1>3 DEF Known, Follows
<1>8. FollowInv(k)'
  BY <1>1, <1>3, <1>7 DEF AgentInv, FollowInv, Follows
<1>9. CountInv(k)'
  <2>1. Open(k)' \subseteq Open(k)
    BY DEF Open
  <2>2. Due(k)' => Due(k)
    BY <1>1, <1>3, <1>7 DEF Due, AgentInv, FollowInv
  <2>3. Begun(k)' = Begun(k)
    BY <1>3 DEF Begun
  <2>4. /\ Cardinality(Open(k)') <= Cardinality(Open(k))
        /\ Cardinality(Late(k)') <= Cardinality(Late(k))
    BY <2>1, CountTypes, FS_Subset DEF ExportInv
  <2>5. /\ Cardinality(Open(k)) \in Nat /\ Cardinality(Late(k)) \in Nat
        /\ Cardinality(Open(k)') \in Nat /\ Cardinality(Late(k)') \in Nat
        /\ Begun(k) \in Nat /\ unheard[k] \in Nat
    <3>1. IsFiniteSet(Open(k)) /\ IsFiniteSet(Late(k))
      BY CountTypes DEF ExportInv
    <3>2. IsFiniteSet(Open(k)') /\ IsFiniteSet(Late(k)')
      BY <3>1, <2>1, FS_Subset
    <3> QED
      BY <3>1, <3>2, FS_CardinalityType, CountTypes DEF ExportInv
  <2>6. Owed(k)' <= Owed(k) /\ Owed(k) \in {0, 1} /\ Owed(k)' \in {0, 1}
    BY <2>2 DEF Owed
  <2>7. Cardinality(Open(k)) + Cardinality(Late(k)) + Owed(k) <= Begun(k) + unheard[k]
    BY <1>1 DEF AgentInv, CountInv
  <2>8. Cardinality(Open(k)') + Cardinality(Late(k)') + Owed(k)' <= Begun(k)' + unheard'[k]
    BY <1>3, <2>3, <2>4, <2>5, <2>6, <2>7
  <2> QED
    BY <2>8 DEF CountInv
<1> QED
  BY <1>4, <1>5, <1>6, <1>8, <1>9 DEF AgentInv

(* An agent goes on as it should, and starts a job only when it owes one.  *)
LEMMA NextFits ==
    ASSUME ExportInv, NEW i \in Agents, Call(i),
           NEW next, next = NextCall(i, outcome[i])
    PROVE  /\ Current(i) \in Task
           /\ \/ next = Current(i)
              \/ next = Refetch /\ Current(i).tool = update_presentation
              \/ next = Poll /\ Current(i).tool = export_presentation_pdf
           /\ next.tool = export_presentation_pdf =>
                 starts[i] < MaxStarts /\ Due(i)
           /\ next.tool = get_pdf_export_status => Follows(i)
<1>1. Current(i) \in Task /\ wire[i] = "none" /\ ~Finished(i)
  BY CurrentType DEF ExportInv, Call
<1>2. WishInv(i) /\ StartInv(i)
  BY DEF ExportInv, AgentInv
<1> USE DEF Exporting, Polling, Does
<1>3. Current(i).tool \notin {get_presentation, get_pdf_export_status}
  BY <1>1, RequestTypes
<1>4. CASE outcome[i] = None
  <2>1. next = Current(i) /\ ~Pending(i)
    BY <1>1, <1>4 DEF NextCall, Pending
  <2>2. \A j : ~Known(i, j)
    BY <1>1, <1>4 DEF Known, Follows, Pending
  <2>3. starts[i] < MaxStarts
    BY <1>2, <2>1, BoundsAssumption DEF StartInv
  <2> QED
    BY <1>1, <1>3, <2>1, <2>2, <2>3 DEF Due
<1>5. CASE outcome[i] # None /\ Exporting(i)
  <2>1. asked[i] = Current(i) /\ Current(i).tool = export_presentation_pdf
    BY <1>2, <1>5, RequestTypes, DeckToolsDiffer DEF WishInv, Pending
  <2>2. next = IF outcome[i].kind = "ok" THEN Poll ELSE Current(i)
    BY <1>5 DEF NextCall
  <2>3. CASE outcome[i].kind = "ok"
    BY <1>1, <1>5, <2>1, <2>2, <2>3, RequestTypes, DeckToolsDiffer DEF Follows
  <2>4. CASE outcome[i].kind # "ok"
    <3>1. \A j : ~Known(i, j)
      BY <1>1, <1>5, <2>4, DeckToolsDiffer DEF Known, Follows
    <3>2. starts[i] < MaxStarts
      BY <1>2, <1>5, <2>4 DEF StartInv
    <3> QED
      BY <1>1, <1>3, <2>1, <2>2, <2>4, <3>1, <3>2 DEF Due
  <2> QED
    BY <2>3, <2>4
<1>6. CASE outcome[i] # None /\ Polling(i)
  <2>1. Current(i).tool = export_presentation_pdf /\ Follows(i)
    BY <1>2, <1>3, <1>6, RequestTypes, DeckToolsDiffer DEF WishInv, Pending, Follows
  <2>2. next = IF "failed" \in outcome[i].items THEN Current(i) ELSE Poll
    BY <1>6, DeckToolsDiffer DEF NextCall
  <2>3. CASE "failed" \in outcome[i].items
    <3>1. starts[i] < MaxStarts /\ jobs[job[i]] = "failed"
      BY <1>2, <1>6, <2>3 DEF StartInv
    <3>2. Due(i)
      BY <1>1, <2>1, <3>1 DEF Due, Known
    <3> QED
      BY <1>1, <1>3, <2>1, <2>2, <2>3, <3>1, <3>2
  <2>4. CASE "failed" \notin outcome[i].items
    BY <1>1, <2>1, <2>2, <2>4, RequestTypes, DeckToolsDiffer
  <2> QED
    BY <2>3, <2>4
<1>7. CASE outcome[i] # None /\ ~Exporting(i) /\ ~Polling(i)
  <2>1. \/ asked[i] = Current(i) /\ Current(i).tool # export_presentation_pdf
        \/ asked[i] = Refetch /\ Current(i).tool = update_presentation
    <3>1. Current(i) # None
      BY <1>1, RequestTypes, NoneAssumption DEF Requests
    <3>2. asked[i] = Poll => Polling(i)
      BY RequestTypes, NoneAssumption DEF Requests
    <3> QED
      BY <1>1, <1>2, <1>7, <3>1, <3>2 DEF WishInv, Pending
  <2>2. \/ next = Current(i)
        \/ next = Refetch /\ Current(i).tool = update_presentation
    BY <1>3, <1>7, <2>1, RequestTypes DEF NextCall
  <2> QED
    BY <1>1, <1>3, <2>1, <2>2, RequestTypes, DeckToolsDiffer
<1> QED
  BY <1>4, <1>5, <1>6, <1>7

(* Each action keeps the invariant.  An agent calls.                       *)
LEMMA CallExport ==
    ASSUME ExportInv, NEW i \in Agents, Call(i)
    PROVE  ExportInv'
<1>1. PICK next : next = NextCall(i, outcome[i])
  OBVIOUS
<1>2. /\ Current(i) \in Task
      /\ \/ next = Current(i)
         \/ next = Refetch /\ Current(i).tool = update_presentation
         \/ next = Poll /\ Current(i).tool = export_presentation_pdf
      /\ next.tool = export_presentation_pdf => starts[i] < MaxStarts /\ Due(i)
      /\ next.tool = get_pdf_export_status => Follows(i)
  BY <1>1, NextFits
<1>3. next \in Wish /\ next # None
  BY <1>2, RequestTypes, NoneAssumption DEF Requests
<1>4. /\ ~Finished(i) /\ wire[i] = "none"
      /\ asked' = [asked EXCEPT ![i] = next]
      /\ wire' = [wire EXCEPT ![i] = "sent"]
      /\ reply' = [reply EXCEPT ![i] = None]
      /\ outcome' = [outcome EXCEPT ![i] = None]
      /\ starts' = IF next.tool = export_presentation_pdf
                   THEN [starts EXCEPT ![i] = @ + 1] ELSE starts
      /\ raced' = raced \ {i} /\ told' \in {told, None}
      /\ UNCHANGED <<task, at, job, conflicts, faults, ghosts, deck, share, last,
                     jobs, starter, unheard>>
  BY <1>1 DEF Call
<1>5. TypeOK'
  <2>1. starts' \in [Agents -> 0..MaxStarts]
    BY <1>2, <1>4, BoundsAssumption DEF ExportInv, TypeOK
  <2> QED
    BY <1>3, <1>4, <2>1 DEF ExportInv, TypeOK
<1>6. /\ asked'[i] = next /\ wire'[i] = "sent" /\ outcome'[i] = None
      /\ \A k \in Agents \ {i} :
            /\ asked'[k] = asked[k] /\ wire'[k] = wire[k] /\ reply'[k] = reply[k]
            /\ outcome'[k] = outcome[k] /\ starts'[k] = starts[k]
  BY <1>4 DEF ExportInv, TypeOK
<1>7. ASSUME NEW k \in Agents \ {i} PROVE AgentInv(k)'
  <2>1. Late(k)' = Late(k)
    BY <1>4 DEF Late
  <2> QED
    BY <1>4, <1>5, <1>6, <2>1, AgentKept DEF ExportInv
<1>8. AgentInv(i)'
  <2>1. ~Finished(i)' /\ Current(i)' = Current(i)
    BY <1>4 DEF Finished, Current
  <2>2. WishInv(i)'
    BY <1>2, <1>6, <2>1 DEF WishInv
  <2>3. ReplyInv(i)' /\ StartInv(i)'
    BY <1>6 DEF ReplyInv, StartInv, Pending
  <2>4. Follows(i)' => Follows(i)
    BY <1>2, <1>6 DEF Follows, Polling, Does
  <2>5. FollowInv(i)'
    BY <1>4, <1>6, <2>4 DEF ExportInv, AgentInv, FollowInv, Known
  <2>6. Due(i)' => Due(i)
    <3>1. CASE next = Poll
      <4>1. Follows(i)' /\ Follows(i)
        BY <1>2, <1>3, <1>6, <3>1, RequestTypes DEF Follows, Polling, Does, Pending
      <4>2. \A j : Known(i, j) => Known(i, j)'
        BY <1>4, <4>1 DEF Known
      <4> QED
        BY <1>4, <2>1, <4>2 DEF Due
    <3>2. CASE next # Poll
      BY <1>2, <2>1, <3>2, DeckToolsDiffer DEF Due
    <3> QED
      BY <3>1, <3>2
  <2>7. CountInv(i)'
    <3>1. Open(i)' = Open(i) /\ Late(i)' = Late(i) /\ Begun(i)' = Begun(i)
          /\ unheard'[i] = unheard[i]
      BY <1>4 DEF Open, Late, Begun
    <3>2. Owed(i)' <= Owed(i)
      BY <2>6 DEF Owed
    <3>3. CountInv(i)
      BY DEF ExportInv, AgentInv
    <3> QED
      BY <3>1, <3>2, <3>3, CountTypes DEF CountInv, Owed, ExportInv
  <2> QED
    BY <2>2, <2>3, <2>5, <2>7 DEF AgentInv
<1> QED
  BY <1>4, <1>5, <1>7, <1>8 DEF ExportInv

(* A job ends.                                                             *)
LEMMA FinishExport ==
    ASSUME ExportInv, NEW j \in Jobs, FinishJob(j)
    PROVE  ExportInv'
<1>1. PICK end \in {"ready", "failed"} : jobs' = [jobs EXCEPT ![j] = end]
  BY DEF FinishJob
<1>2. /\ jobs[j] = "processing"
      /\ UNCHANGED <<task, at, asked, wire, reply, outcome, job, starts, conflicts,
                     faults, deck, raced, share, last, starter, ghosts, told, unheard>>
  BY DEF FinishJob, calls
<1>3. TypeOK'
  BY <1>1, <1>2 DEF ExportInv, TypeOK
<1>4. jobs'[j] = end /\ \A l \in Jobs \ {j} : jobs'[l] = jobs[l]
  BY <1>1 DEF ExportInv, TypeOK
<1>5. ASSUME NEW k \in Agents, starter[j] # k PROVE AgentInv(k)'
  <2>1. Late(k)' = Late(k)
    BY <1>2 DEF Late
  <2> QED
    BY <1>2, <1>3, <1>4, <1>5, <2>1, AgentKept DEF ExportInv
<1>6. ASSUME NEW k \in Agents, starter[j] = k PROVE AgentInv(k)'
  <2>1. AgentInv(k)
    BY DEF ExportInv
  <2>2. WishInv(k)'
    BY <1>2, <2>1 DEF AgentInv, WishInv, Pending, Finished, Current
  <2>3. \A l \in Jobs : jobs[l] \in {"failed", "none"} => jobs'[l] = jobs[l]
    BY <1>2, <1>4
  <2>4. \A l \in Jobs : jobs[l] # "none" => jobs'[l] # "none"
    BY <1>4
  <2>5. Polling(k) /\ Pending(k) => job[k] \in Jobs
    BY <2>1 DEF AgentInv, FollowInv, Follows
  <2>6. ReplyInv(k)'
    BY <1>2, <2>1, <2>3, <2>5 DEF AgentInv, ReplyInv, Exporting, Polling, Does, Pending
  <2>7. StartInv(k)'
    BY <1>2, <2>1, <2>3, <2>5 DEF AgentInv, StartInv, Exporting, Polling, Does, Pending
  <2>8. (Follows(k)' <=> Follows(k)) /\ \A l : Known(k, l)' <=> Known(k, l)
    BY <1>2 DEF Follows, Known, Exporting, Polling, Does, Pending
  <2>9. FollowInv(k)'
    BY <1>2, <2>1, <2>4, <2>8 DEF AgentInv, FollowInv
  <2>10. Late(k)' = Late(k) /\ Begun(k)' = Begun(k) /\ unheard'[k] = unheard[k]
    BY <1>2 DEF Late, Begun
  <2>11. Cardinality(Open(k)') + Owed(k)' <= Cardinality(Open(k)) + Owed(k)
    <3>1. IsFiniteSet(Open(k)) /\ Cardinality(Open(k)) \in Nat
      BY CountTypes DEF ExportInv
    <3>2. Owed(k) \in {0, 1} /\ Owed(k)' \in {0, 1}
      BY DEF Owed
    <3>3. CASE end = "failed"
      <4>1. Open(k)' = Open(k) \ {j} /\ j \in Open(k)
        BY <1>2, <1>4, <1>6, <3>3 DEF Open
      <4>2. Cardinality(Open(k)') = Cardinality(Open(k)) - 1
        BY <3>1, <4>1, FS_RemoveElement
      <4> QED
        BY <3>1, <3>2, <4>2
    <3>4. CASE end = "ready"
      <4>1. Open(k)' = Open(k)
        BY <1>2, <1>4, <3>4 DEF Open
      <4>2. Due(k)' => Due(k)
        BY <1>2, <1>4, <2>8, <3>4 DEF Due, Finished, Current
      <4> QED
        BY <3>1, <3>2, <4>1, <4>2 DEF Owed
    <3> QED
      BY <3>3, <3>4
  <2>12. CountInv(k)'
    <3>1. Cardinality(Open(k)') \in Nat
      BY <1>2, <1>3, CountTypes, JobsAssumption, FS_Subset, FS_CardinalityType DEF Open
    <3> QED
      BY <2>1, <2>10, <2>11, <3>1, CountTypes DEF AgentInv, CountInv, Owed, ExportInv
  <2> QED
    BY <2>2, <2>6, <2>7, <2>9, <2>12 DEF AgentInv
<1> QED
  BY <1>2, <1>3, <1>5, <1>6 DEF ExportInv

(* When a wish ends, its calls leave nothing behind.                       *)
LEMMA FreshAgent ==
    ASSUME NEW i \in Agents, wire'[i] = "none", outcome'[i] = None, starts'[i] = 0
    PROVE  WishInv(i)' /\ ReplyInv(i)' /\ StartInv(i)' /\ FollowInv(i)'
BY DEF WishInv, ReplyInv, StartInv, FollowInv, Known, Follows, Pending

(* A call returns.                                                         *)
LEMMA Returned ==
    ASSUME ExportInv, NEW i \in Agents, NEW o \in Outcome, Return(i, o),
           UNCHANGED <<task, asked, reply, starter, jobs>>,
           \A k \in Agents \ {i} : job'[k] = job[k] /\ unheard'[k] = unheard[k],
           \A k \in Agents \ {i} : Late(k)' = Late(k)
    PROVE  /\ wire' \in [Agents -> {"none", "sent", "served"}]
           /\ at' \in [Agents -> Nat \ {0}]
           /\ outcome' \in [Agents -> Outcome \cup {None}]
           /\ starts' \in [Agents -> 0..MaxStarts]
           /\ wire'[i] = "none"
           /\ Ends(i, o) => outcome'[i] = None /\ starts'[i] = 0 /\ at'[i] = at[i] + 1
           /\ ~Ends(i, o) => /\ outcome'[i] = o /\ o # None
                             /\ starts'[i] = starts[i] /\ at'[i] = at[i]
           /\ TypeOK' /\ IsFiniteSet(ghosts') => \A k \in Agents \ {i} : AgentInv(k)'
<1> USE DEF ExportInv, TypeOK
<1>1. /\ wire' = [wire EXCEPT ![i] = "none"]
      /\ IF Ends(i, o)
         THEN /\ at' = [at EXCEPT ![i] = @ + 1]
              /\ outcome' = [outcome EXCEPT ![i] = None]
              /\ starts' = [starts EXCEPT ![i] = 0]
         ELSE /\ outcome' = [outcome EXCEPT ![i] = o]
              /\ UNCHANGED <<at, starts>>
  BY DEF Return
<1>2. /\ wire' \in [Agents -> {"none", "sent", "served"}]
      /\ at' \in [Agents -> Nat \ {0}]
      /\ outcome' \in [Agents -> Outcome \cup {None}]
      /\ starts' \in [Agents -> 0..MaxStarts]
  <2>1. CASE Ends(i, o)
    BY <1>1, <2>1, BoundsAssumption
  <2>2. CASE ~Ends(i, o)
    BY <1>1, <2>2
  <2> QED
    BY <2>1, <2>2
<1>3. /\ Ends(i, o) => outcome'[i] = None /\ starts'[i] = 0 /\ at'[i] = at[i] + 1
      /\ ~Ends(i, o) => outcome'[i] = o /\ starts'[i] = starts[i] /\ at'[i] = at[i]
  BY <1>1
<1>4. ASSUME TypeOK', IsFiniteSet(ghosts'), NEW k \in Agents \ {i}
      PROVE  AgentInv(k)'
  <2>1. /\ at'[k] = at[k] /\ outcome'[k] = outcome[k] /\ starts'[k] = starts[k]
        /\ wire'[k] = wire[k]
    BY <1>1
  <2>2. /\ task'[k] = task[k] /\ asked'[k] = asked[k] /\ reply'[k] = reply[k]
        /\ job'[k] = job[k] /\ unheard'[k] = unheard[k]
    OBVIOUS
  <2>3. Late(k)' \subseteq Late(k)
    OBVIOUS
  <2> HIDE DEF ExportInv, TypeOK
  <2> QED
    BY <1>4, <2>1, <2>2, <2>3, AgentKept
<1> QED
  BY <1>1, <1>2, <1>3, <1>4, NoneAssumption

(* The reply arrives: a start that was accepted has its job on record.     *)
LEMMA ReplyOfExport ==
    ASSUME ExportInv, NEW i \in Agents, Receive(i), Exporting(i),
           NEW o, o = OfStatus(asked[i].tool.call.want, reply[i])
    PROVE  \/ Ends(i, o) /\ o.kind # "ok"
           \/ /\ o.kind = "ok" /\ job'[i] \in Jobs
              /\ \A j \in Jobs : Known(i, j) <=> j = job'[i]
<1>1. wire[i] = "served" /\ ReplyInv(i) /\ job \in [Agents -> Jobs \cup {None}]
  BY DEF Receive, ExportInv, AgentInv, TypeOK
<1>2. asked[i].tool.call.want = 202 /\ reply[i] \in Reply
  BY <1>1, DeckToolsDiffer DEF Exporting, Does, ReplyInv
<1>3. CASE reply[i].status = 404
  <2>1. o.kind = "refused"
    BY <1>2, <1>3, OutcomeType
  <2> QED
    BY <2>1 DEF Ends, Exporting, Uncertain
<1>4. CASE reply[i].status # 404
  <2>1. PICK j \in Jobs : reply[i].items = {j, "processing"}
    BY <1>1, <1>4 DEF ReplyInv
  <2>2. reply[i].status = 202 /\ reply[i].body = "envelope"
    BY <1>1, <1>4 DEF ReplyInv
  <2>3. o.kind = "ok" /\ o.items = {j, "processing"}
    BY <1>2, <2>1, <2>2, OutcomeType
  <2>4. job' = [job EXCEPT ![i] = CHOOSE l \in Jobs : l \in o.items]
    BY <2>3 DEF Receive, Exporting
  <2>5. \A l \in Jobs : l \in o.items <=> l = j
    BY <2>3, JobsAssumption
  <2>6. job'[i] = j
    BY <1>1, <2>4, <2>5
  <2>7. ~Follows(i)
    BY <1>1, DeckToolsDiffer DEF Follows, Exporting, Polling, Does
  <2> QED
    BY <1>1, <2>1, <2>2, <2>3, <2>5, <2>6, <2>7 DEF Known
<1> QED
  BY <1>3, <1>4

LEMMA ReceiveExport ==
    ASSUME ExportInv, NEW i \in Agents, Receive(i)
    PROVE  ExportInv'
<1>1. PICK o : o = OfStatus(asked[i].tool.call.want, reply[i])
  OBVIOUS
<1>2. /\ wire[i] = "served" /\ Return(i, o)
      /\ job' = IF Exporting(i) /\ o.kind = "ok"
                THEN [job EXCEPT ![i] = job'[i]] ELSE job
      /\ conflicts' = [conflicts EXCEPT ![i] =
                           IF Ends(i, o) THEN 0
                           ELSE IF reply[i].code = "CONFLICT" THEN @ + 1 ELSE @]
      /\ told' \in {told, <<i, Current(i)>>}
      /\ UNCHANGED <<task, asked, reply, faults, ghosts, deck, raced, share, last,
                     jobs, starter, unheard>>
  <2>1. Exporting(i) /\ o.kind = "ok" => job' = [job EXCEPT ![i] = job'[i]]
    <3> SUFFICES ASSUME Exporting(i), o.kind = "ok" PROVE job' = [job EXCEPT ![i] = job'[i]]
      OBVIOUS
    <3>1. job' = [job EXCEPT ![i] = CHOOSE j \in Jobs : j \in o.items]
      BY <1>1 DEF Receive, Exporting
    <3>2. job \in [Agents -> Jobs \cup {None}]
      BY DEF ExportInv, TypeOK
    <3> QED
      BY <3>1, <3>2
  <2>2. ~(Exporting(i) /\ o.kind = "ok") => job' = job
    BY <1>1 DEF Receive, Exporting
  <2>3. /\ conflicts' = [conflicts EXCEPT ![i] =
                             IF Ends(i, o) THEN 0
                             ELSE IF reply[i].code = "CONFLICT" THEN @ + 1 ELSE @]
        /\ told' \in {told, <<i, Current(i)>>}
    BY <1>1 DEF Receive
  <2> QED
    BY <1>1, <2>1, <2>2, <2>3 DEF Receive, backend
<1>3. WishInv(i) /\ ReplyInv(i) /\ StartInv(i) /\ FollowInv(i) /\ CountInv(i)
  BY DEF ExportInv, AgentInv
<1>4. Pending(i) /\ ~Finished(i) /\ reply[i] \in Reply
  BY <1>2, <1>3 DEF Pending, WishInv, ReplyInv
<1>5. Current(i) \in Task /\ Current(i) \in Wish
  BY <1>4, CurrentType, RequestTypes DEF ExportInv, Requests
<1>6. o \in Outcome
  BY <1>1, <1>4, OutcomeType
<1>7. Exporting(i) =>
         \/ Ends(i, o) /\ o.kind # "ok"
         \/ /\ o.kind = "ok" /\ job'[i] \in Jobs
            /\ \A j \in Jobs : Known(i, j) <=> j = job'[i]
  BY <1>1, ReplyOfExport
<1>8. /\ \A k \in Agents \ {i} : job'[k] = job[k] /\ unheard'[k] = unheard[k]
      /\ ghosts' = ghosts
  BY <1>2 DEF ExportInv, TypeOK
<1>9. UNCHANGED <<task, asked, reply, starter, jobs>>
  BY <1>2
<1>10. \A k \in Agents : Late(k)' = Late(k)
  BY <1>8 DEF Late
<1>11. /\ wire' \in [Agents -> {"none", "sent", "served"}]
       /\ at' \in [Agents -> Nat \ {0}]
       /\ outcome' \in [Agents -> Outcome \cup {None}]
       /\ starts' \in [Agents -> 0..MaxStarts]
       /\ wire'[i] = "none"
       /\ Ends(i, o) => outcome'[i] = None /\ starts'[i] = 0 /\ at'[i] = at[i] + 1
       /\ ~Ends(i, o) => /\ outcome'[i] = o /\ o # None
                         /\ starts'[i] = starts[i] /\ at'[i] = at[i]
       /\ TypeOK' /\ IsFiniteSet(ghosts') => \A k \in Agents \ {i} : AgentInv(k)'
  BY <1>2, <1>6, <1>8, <1>9, <1>10, Returned
<1>12. TypeOK'
  <2>1. job' \in [Agents -> Jobs \cup {None}]
    BY <1>2, <1>7 DEF ExportInv, TypeOK
  <2>2. conflicts' \in [Agents -> 0..1]
    <3>1. ~Ends(i, o) /\ reply[i].code = "CONFLICT" => conflicts[i] # 1
      <4> SUFFICES ASSUME reply[i].code = "CONFLICT" PROVE conflicts[i] = 1 => Ends(i, o)
        OBVIOUS
      <4>1. Does(i, update_presentation) /\ reply[i].status = 409
        BY <1>2, <1>3 DEF ReplyInv
      <4>2. o.kind = "refused"
        BY <1>1, <1>4, <4>1, OutcomeType, DeckToolsDiffer DEF Does
      <4> QED
        BY <4>1, <4>2, DeckToolsDiffer DEF Ends, Does
    <3>2. conflicts \in [Agents -> 0..1]
      BY DEF ExportInv, TypeOK
    <3>3. CASE Ends(i, o)
      BY <1>2, <3>2, <3>3
    <3>4. CASE ~Ends(i, o) /\ reply[i].code = "CONFLICT"
      BY <1>2, <3>1, <3>2, <3>4
    <3>5. CASE ~Ends(i, o) /\ reply[i].code # "CONFLICT"
      BY <1>2, <3>2, <3>5
    <3> QED
      BY <3>3, <3>4, <3>5
  <2>3. told' \in (Agents \X Wish) \cup {None}
    BY <1>2, <1>5 DEF ExportInv, TypeOK
  <2> QED
    BY <1>2, <1>11, <2>1, <2>2, <2>3 DEF ExportInv, TypeOK
<1>13. Open(i)' = Open(i) /\ unheard'[i] = unheard[i]
  BY <1>2 DEF Open
<1>14. AgentInv(i)'
  <2>1. CASE Ends(i, o)
    <3>1. WishInv(i)' /\ ReplyInv(i)' /\ StartInv(i)' /\ FollowInv(i)'
      BY <1>11, <2>1, FreshAgent
    <3>2. Begun(i)' \in Nat /\ Begun(i)' >= Begun(i) + Owed(i)'
      BY <1>2, <1>11, <2>1, BegunGrows DEF ExportInv
    <3>3. Owed(i)' \in {0, 1}
      BY DEF Owed
    <3>4. CountInv(i)'
      BY <1>3, <1>10, <1>13, <3>2, <3>3, CountTypes DEF CountInv, ExportInv
    <3> QED
      BY <3>1, <3>4 DEF AgentInv
  <2>2. CASE ~Ends(i, o)
    <3>1. /\ wire'[i] = "none" /\ outcome'[i] = o /\ starts'[i] = starts[i]
          /\ at'[i] = at[i] /\ task'[i] = task[i] /\ asked'[i] = asked[i]
      BY <1>2, <1>11, <2>2
    <3>2. /\ Finished(i)' = Finished(i) /\ Current(i)' = Current(i)
          /\ (Exporting(i)' <=> Exporting(i)) /\ (Polling(i)' <=> Polling(i))
      BY <3>1 DEF Finished, Current, Exporting, Polling, Does
    <3>3. WishInv(i)' /\ ReplyInv(i)'
      BY <1>3, <1>4, <3>1, <3>2 DEF WishInv, ReplyInv
    <3>4. Exporting(i) =>
             /\ o.kind = "ok" /\ job'[i] \in Jobs
             /\ \A j \in Jobs : Known(i, j) <=> j = job'[i]
      BY <1>7, <2>2
    <3>5. Polling(i) => ~Exporting(i) /\ job'[i] = job[i]
      BY <1>2, DeckToolsDiffer DEF Polling, Exporting, Does
    <3>6. StartInv(i)'
      <4>1. outcome'[i] # None
        BY <1>11, <2>2
      <4>2. ASSUME Polling(i), "failed" \in o.items
            PROVE  starts[i] < MaxStarts /\ jobs[job[i]] = "failed"
        <5>1. o.kind = "ok" /\ "failed" \in reply[i].items
          BY <1>1, <1>4, <4>2, OutcomeType
        <5>2. starts[i] < MaxStarts
          BY <2>2, <4>2, <5>1, DeckToolsDiffer DEF Ends, Polling, Does
        <5> QED
          BY <1>2, <1>3, <4>2, <5>1, <5>2 DEF ReplyInv
      <4> QED
        BY <1>2, <3>1, <3>2, <3>4, <3>5, <4>1, <4>2 DEF StartInv, Pending
    <3>7. \A j \in Jobs : Known(i, j)' <=> Known(i, j)
      <4>1. o # None
        BY <1>11, <2>2
      <4>2. CASE Exporting(i)
        <5>1. Follows(i)'
          BY <3>1, <3>2, <3>4, <4>1, <4>2 DEF Follows
        <5> QED
          BY <3>1, <3>4, <4>2, <5>1 DEF Known
      <4>3. CASE Polling(i)
        <5>1. Follows(i)' /\ Follows(i)
          BY <1>4, <3>1, <3>2, <4>1, <4>3 DEF Follows, Pending
        <5> QED
          BY <3>2, <3>5, <4>3, <5>1 DEF Known
      <4>4. CASE ~Exporting(i) /\ ~Polling(i)
        BY <3>2, <4>4 DEF Known, Follows
      <4> QED
        BY <4>2, <4>3, <4>4
    <3>8. FollowInv(i)'
      <4>1. Follows(i)' => job'[i] \in Jobs
        <5>1. Polling(i) => Follows(i)
          BY <1>4 DEF Follows
        <5> QED
          BY <1>3, <3>2, <3>4, <3>5, <5>1 DEF Follows, FollowInv
      <4> QED
        BY <1>2, <1>3, <3>7, <4>1 DEF FollowInv
    <3>9. CountInv(i)'
      <4>1. Due(i)' <=> Due(i)
        BY <1>2, <3>2, <3>7 DEF Due
      <4>2. Owed(i)' = Owed(i) /\ Begun(i)' = Begun(i)
        BY <1>2, <3>1, <4>1 DEF Owed, Begun
      <4> QED
        BY <1>3, <1>10, <1>13, <4>2 DEF CountInv
    <3> QED
      BY <3>3, <3>6, <3>8, <3>9 DEF AgentInv
  <2> QED
    BY <2>1, <2>2
<1> QED
  BY <1>2, <1>11, <1>12, <1>14 DEF ExportInv

(* No answer arrives.  What was asked may yet start a job.                 *)
LEMMA NoAnswerExport ==
    ASSUME ExportInv, NEW i \in Agents, NoAnswer(i)
    PROVE  ExportInv'
<1>1. PICK kind \in Uncertain : Return(i, Nothing(kind))
  BY DEF NoAnswer
<1>2. PICK o : o = Nothing(kind)
  OBVIOUS
<1>3. /\ wire[i] \in {"sent", "served"} /\ Return(i, o)
      /\ faults < MaxFaults /\ faults' = faults + 1
      /\ ghosts' = IF wire[i] = "sent" THEN ghosts \cup {<<i, asked[i], faults>>} ELSE ghosts
      /\ unheard' = IF Exporting(i) THEN [unheard EXCEPT ![i] = @ + 1] ELSE unheard
      /\ UNCHANGED <<task, asked, reply, job, conflicts, deck, raced, share, last,
                     jobs, starter, told>>
  BY <1>1, <1>2 DEF NoAnswer, Exporting, backend
<1>4. WishInv(i) /\ ReplyInv(i) /\ StartInv(i) /\ FollowInv(i) /\ CountInv(i)
  BY DEF ExportInv, AgentInv
<1>5. Pending(i) /\ ~Finished(i)
  BY <1>3, <1>4 DEF Pending, WishInv
<1>6. Current(i) \in Task /\ asked[i] \in Requests /\ asked[i] \in Wish
  <2>1. Current(i) \in Task
    BY <1>5, CurrentType DEF ExportInv
  <2> QED
    BY <1>4, <1>5, <2>1, RequestTypes DEF WishInv, Requests
<1>7. o \in Outcome /\ o.kind \in Uncertain /\ o.items = {}
  BY <1>2, NothingType
<1>8. \A k \in Agents \ {i} : job'[k] = job[k] /\ unheard'[k] = unheard[k]
  BY <1>3 DEF ExportInv, TypeOK
<1>9. \A k \in Agents \ {i} : Late(k)' = Late(k)
  BY <1>3 DEF Late
<1>10. /\ wire' \in [Agents -> {"none", "sent", "served"}]
       /\ at' \in [Agents -> Nat \ {0}]
       /\ outcome' \in [Agents -> Outcome \cup {None}]
       /\ starts' \in [Agents -> 0..MaxStarts]
       /\ wire'[i] = "none"
       /\ Ends(i, o) => outcome'[i] = None /\ starts'[i] = 0 /\ at'[i] = at[i] + 1
       /\ ~Ends(i, o) => /\ outcome'[i] = o /\ o # None
                         /\ starts'[i] = starts[i] /\ at'[i] = at[i]
       /\ TypeOK' /\ IsFiniteSet(ghosts') => \A k \in Agents \ {i} : AgentInv(k)'
  <2>1. UNCHANGED <<task, asked, reply, starter, jobs>>
    BY <1>3
  <2> QED
    BY <1>3, <1>7, <1>8, <1>9, <2>1, Returned
<1>11. TypeOK'
  <2>1. unheard' \in [Agents -> Nat] /\ faults' \in 0..MaxFaults
    BY <1>3, BoundsAssumption DEF ExportInv, TypeOK
  <2>2. ghosts' \in SUBSET (Agents \X Wish \X Nat)
    <3>1. faults \in Nat /\ ghosts \in SUBSET (Agents \X Wish \X Nat)
      BY DEF ExportInv, TypeOK
    <3>2. <<i, asked[i], faults>> \in Agents \X Wish \X Nat
      BY <1>6, <3>1
    <3> QED
      BY <1>3, <3>1, <3>2
  <2> QED
    BY <1>3, <1>10, <2>1, <2>2 DEF ExportInv, TypeOK
<1>12. IsFiniteSet(ghosts') /\ \A g \in ghosts' : g[2] \in Requests
  <2>1. IsFiniteSet(ghosts \cup {<<i, asked[i], faults>>})
    BY FS_AddElement DEF ExportInv
  <2> QED
    BY <1>3, <1>6, <2>1 DEF ExportInv
<1>13. Open(i)' = Open(i)
  BY <1>3 DEF Open
<1>14. /\ Cardinality(Late(i)') \in Nat
       /\ Cardinality(Late(i)') <=
             Cardinality(Late(i)) + (IF Exporting(i) /\ wire[i] = "sent" THEN 1 ELSE 0)
  <2>1. IsFiniteSet(Late(i)) /\ Cardinality(Late(i)) \in Nat
    BY CountTypes DEF ExportInv
  <2>2. PICK g : g = <<i, asked[i], faults>>
    OBVIOUS
  <2>3. CASE Exporting(i) /\ wire[i] = "sent"
    <3>1. Late(i)' = Late(i) \cup {g}
      BY <1>3, <2>2, <2>3 DEF Late, Exporting, Does
    <3> HIDE DEF Late
    <3>2. /\ IsFiniteSet(Late(i) \cup {g})
          /\ Cardinality(Late(i) \cup {g}) \in {Cardinality(Late(i)), Cardinality(Late(i)) + 1}
      BY <2>1, FS_AddElement
    <3> QED
      BY <2>1, <2>3, <3>1, <3>2
  <2>4. CASE ~(Exporting(i) /\ wire[i] = "sent")
    <3>1. Late(i)' = Late(i)
      <4>1. asked[i] # None
        BY <1>6, NoneAssumption
      <4> QED
        BY <1>3, <2>4, <4>1 DEF Late, Exporting, Does
    <3> QED
      BY <2>1, <2>4, <3>1
  <2> QED
    BY <2>3, <2>4
<1>15. unheard'[i] = unheard[i] + IF Exporting(i) THEN 1 ELSE 0
  BY <1>3 DEF ExportInv, TypeOK
<1>16. Exporting(i) /\ wire[i] = "sent" => Owed(i) = 1
  <2> SUFFICES ASSUME Exporting(i), wire[i] = "sent" PROVE Due(i)
    BY DEF Owed
  <2>1. Current(i).tool = export_presentation_pdf
    BY <1>4, <1>5, RequestTypes, DeckToolsDiffer DEF WishInv, Exporting, Does
  <2>2. \A j : ~Known(i, j)
    BY DeckToolsDiffer DEF Known, Follows, Exporting, Polling, Does
  <2> QED
    BY <1>5, <2>1, <2>2 DEF Due
<1>17. AgentInv(i)'
  <2>1. CASE Ends(i, o)
    <3>1. WishInv(i)' /\ ReplyInv(i)' /\ StartInv(i)' /\ FollowInv(i)'
      BY <1>10, <2>1, FreshAgent
    <3>2. Begun(i)' \in Nat /\ Begun(i)' >= Begun(i) + Owed(i)'
      BY <1>3, <1>10, <2>1, BegunGrows DEF ExportInv
    <3>3. Owed(i)' \in {0, 1}
      BY DEF Owed
    <3>4. CountInv(i)'
      BY <1>4, <1>13, <1>14, <1>15, <3>2, <3>3, CountTypes DEF CountInv, ExportInv
    <3> QED
      BY <3>1, <3>4 DEF AgentInv
  <2>2. CASE ~Ends(i, o)
    <3>1. /\ wire'[i] = "none" /\ outcome'[i] = o /\ starts'[i] = starts[i]
          /\ at'[i] = at[i] /\ task'[i] = task[i] /\ asked'[i] = asked[i]
          /\ job'[i] = job[i]
      BY <1>3, <1>10, <2>2
    <3>2. /\ Finished(i)' = Finished(i) /\ Current(i)' = Current(i)
          /\ (Exporting(i)' <=> Exporting(i)) /\ (Polling(i)' <=> Polling(i))
      BY <3>1 DEF Finished, Current, Exporting, Polling, Does
    <3>3. WishInv(i)' /\ ReplyInv(i)'
      BY <1>4, <1>5, <3>1, <3>2 DEF WishInv, ReplyInv
    <3>4. StartInv(i)'
      <4>1. outcome'[i] # None /\ o.kind # "ok"
        BY <1>7, <1>10, <2>2 DEF Uncertain
      <4>2. Exporting(i) => starts[i] < MaxStarts
        <5>1. starts[i] \in 0..MaxStarts
          BY DEF ExportInv, TypeOK
        <5> QED
          BY <1>7, <2>2, <4>1, <5>1 DEF Ends, Exporting
      <4> QED
        BY <1>7, <3>1, <3>2, <4>1, <4>2 DEF StartInv, Pending
    <3>5. Follows(i)' <=> Polling(i)
      <4>1. o # None /\ o.kind # "ok"
        BY <1>7, <1>10, <2>2 DEF Uncertain
      <4> QED
        BY <3>1, <3>2, <4>1 DEF Follows, Pending
    <3>6. Polling(i) => Follows(i)
      BY <1>5 DEF Follows
    <3>7. \A j : Known(i, j)' => Known(i, j)
      BY <3>1, <3>5, <3>6 DEF Known
    <3>8. FollowInv(i)'
      BY <1>3, <1>4, <3>1, <3>5, <3>6, <3>7 DEF FollowInv
    <3>9. CountInv(i)'
      <4>1. ~Exporting(i) => (Due(i)' => Due(i))
        <5>1. ~Exporting(i) => \A j : Known(i, j) => Known(i, j)'
          BY <3>1, <3>5 DEF Known, Follows
        <5> QED
          BY <1>3, <3>2, <5>1 DEF Due
      <4>2. /\ Owed(i) \in {0, 1} /\ Owed(i)' \in {0, 1}
            /\ ~Exporting(i) => Owed(i)' <= Owed(i)
            /\ Begun(i)' = Begun(i)
        BY <1>3, <3>1, <4>1 DEF Owed, Begun
      <4> QED
        BY <1>4, <1>13, <1>14, <1>15, <1>16, <4>2, CountTypes DEF CountInv, ExportInv
    <3> QED
      BY <3>3, <3>4, <3>8, <3>9 DEF AgentInv
  <2> QED
    BY <2>1, <2>2
<1> QED
  BY <1>3, <1>10, <1>11, <1>12, <1>17 DEF ExportInv

(* What serving a request does: the types, and the jobs.                   *)
LEMMA BackendTypes ==
    ASSUME ExportInv, NEW i \in Agents, NEW w \in Requests, NEW late \in BOOLEAN,
           Served(i, w, late)
    PROVE  /\ deck' \in [Fields -> Agents \cup {None}]
           /\ raced' \in SUBSET Agents
           /\ share' \in (SUBSET Settings) \cup {None}
           /\ last' \in (Agents \X Wish \X BOOLEAN) \cup {None}
           /\ jobs' \in [Jobs -> {"none", "processing", "ready", "failed"}]
           /\ starter' \in [Jobs -> Agents \cup {None}]
<1> USE DEF ExportInv, TypeOK
<1>1. w \in Wish /\ (w.tool = publish_presentation => w.things \subseteq Settings)
  BY RequestTypes
<1>2. CASE Update(i, w, late)
  BY <1>2 DEF Update
<1>3. CASE Publish(i, w, late)
  BY <1>1, <1>3 DEF Publish
<1>4. CASE Unpublish(i, w, late)
  BY <1>1, <1>4 DEF Unpublish
<1>5. CASE Get(i, w, late)
  BY <1>5 DEF Get, backend
<1>6. CASE Export(i, w, late)
  BY <1>6 DEF Export
<1>7. CASE Status(i, w, late)
  BY <1>7 DEF Status, backend
<1> QED
  BY <1>2, <1>3, <1>4, <1>5, <1>6, <1>7 DEF Served

LEMMA BackendJobs ==
    ASSUME ExportInv, NEW i \in Agents, NEW w \in Requests, NEW late \in BOOLEAN,
           Served(i, w, late)
    PROVE  \/ w.tool # export_presentation_pdf /\ UNCHANGED <<jobs, starter>>
           \/ /\ w.tool = export_presentation_pdf
              /\ \E j \in Jobs : /\ jobs[j] = "none"
                                 /\ jobs' = [jobs EXCEPT ![j] = "processing"]
                                 /\ starter' = [starter EXCEPT ![j] = i]
                                 /\ Answer(i, late, Yes(202, {j, "processing"}))
<1>1. CASE Update(i, w, late)
  BY <1>1, DeckToolsDiffer DEF Update
<1>2. CASE Publish(i, w, late)
  BY <1>2, DeckToolsDiffer DEF Publish
<1>3. CASE Unpublish(i, w, late)
  BY <1>3, DeckToolsDiffer DEF Unpublish
<1>4. CASE Get(i, w, late)
  BY <1>4, DeckToolsDiffer DEF Get, backend
<1>5. CASE Export(i, w, late)
  BY <1>5 DEF Export
<1>6. CASE Status(i, w, late)
  BY <1>6, DeckToolsDiffer DEF Status, backend
<1> QED
  BY <1>1, <1>2, <1>3, <1>4, <1>5, <1>6 DEF Served

(* The reply to request w of agent i, if it is another than an export.     *)
Replied(i, w) ==
    \E r \in Reply :
        /\ reply' = [reply EXCEPT ![i] = r]
        /\ r.code = "CONFLICT" => w.tool = update_presentation /\ r.status = 409
        /\ w.tool = get_pdf_export_status /\ "failed" \in r.items =>
              jobs[job[i]] = "failed"

LEMMA BackendReply ==
    ASSUME ExportInv, NEW i \in Agents, NEW w \in Requests,
           Served(i, w, FALSE), w.tool # export_presentation_pdf,
           w.tool = get_pdf_export_status => job[i] \in Jobs /\ jobs[job[i]] # "none"
    PROVE  Replied(i, w)
<1> USE DEF Replied
<1>1. \A items \in SUBSET Things :
         /\ Yes(200, items) \in Reply /\ Yes(200, items).code = "none"
         /\ Yes(200, items).items = items
  BY YesType DEF Statuses
<1>2. No(409, "CONFLICT") \in Reply /\ No(409, "CONFLICT").status = 409
  BY NoType DEF Statuses, Codes
<1>3. w.things \subseteq Things /\ Fields \subseteq Things /\ "link" \in Things
  BY RequestTypes, ThingsAssumption DEF Shown
<1>4. CASE Update(i, w, FALSE)
  <2>1. w.tool = update_presentation /\ w.tool # get_pdf_export_status
    BY <1>4, DeckToolsDiffer DEF Update
  <2>2. PICK r : Answer(i, FALSE, r) /\ (r = Yes(200, w.things) \/ r = No(409, "CONFLICT"))
    BY <1>4 DEF Update
  <2>3. w.things \in SUBSET Things
    BY <1>3
  <2>4. r \in Reply /\ (r.code = "CONFLICT" => r.status = 409)
    BY <1>1, <1>2, <2>2, <2>3
  <2>5. reply' = [reply EXCEPT ![i] = r]
    BY <2>2 DEF Answer
  <2>6. /\ r.code = "CONFLICT" => w.tool = update_presentation /\ r.status = 409
        /\ w.tool = get_pdf_export_status /\ "failed" \in r.items =>
              jobs[job[i]] = "failed"
    BY <2>1, <2>4
  <2> QED
    BY <2>4, <2>5, <2>6
<1>5. CASE Publish(i, w, FALSE)
  <2>1. w.things \cup {"link"} \in SUBSET Things
    BY <1>3
  <2> QED
    BY <1>1, <1>5, <2>1, DeckToolsDiffer DEF Publish, Answer
<1>6. CASE Unpublish(i, w, FALSE)
  <2>1. {} \in SUBSET Things
    OBVIOUS
  <2> QED
    BY <1>1, <1>6, <2>1, DeckToolsDiffer DEF Unpublish, Answer
<1>7. CASE Get(i, w, FALSE)
  <2>1. PICK items : items = {f \in Fields : deck[f] = i}
                                \cup IF share = None THEN {} ELSE {"link"}
    OBVIOUS
  <2>2. items \in SUBSET Things
    BY <1>3, <2>1
  <2>3. Answer(i, FALSE, Yes(200, items))
    BY <1>7, <2>1 DEF Get
  <2> QED
    BY <1>1, <1>7, <2>2, <2>3, DeckToolsDiffer DEF Get, Answer
<1>8. CASE Status(i, w, FALSE)
  <2>1. job[i] \in Jobs /\ jobs[job[i]] # "none"
    BY <1>8 DEF Status
  <2>2. {job[i], jobs[job[i]]} \in SUBSET Things
    BY <2>1, ThingsAssumption DEF Shown, ExportInv, TypeOK
  <2>3. "failed" \in {job[i], jobs[job[i]]} => jobs[job[i]] = "failed"
    BY <2>1, JobsAssumption
  <2>4. PICK items : items = {job[i], jobs[job[i]]}
    OBVIOUS
  <2>5. Answer(i, FALSE, Yes(200, items))
    BY <1>8, <2>4 DEF Status
  <2>6. PICK r : r = Yes(200, items)
    OBVIOUS
  <2>7. items \in SUBSET Things /\ ("failed" \in items => jobs[job[i]] = "failed")
    BY <2>2, <2>3, <2>4
  <2>8. r \in Reply /\ r.code = "none" /\ r.items = items
    BY <1>1, <2>6, <2>7
  <2>9. reply' = [reply EXCEPT ![i] = r]
    BY <2>5, <2>6 DEF Answer
  <2> QED
    BY <2>7, <2>8, <2>9
<1>9. CASE Export(i, w, FALSE)
  BY <1>9 DEF Export
<1> QED
  BY <1>4, <1>5, <1>6, <1>7, <1>8, <1>9 DEF Served

(* A job more does not touch what is known of those there are.             *)
LEMMA FreeJob ==
    ASSUME ExportInv, NEW i \in Agents, NEW j \in Jobs, jobs[j] = "none",
           jobs' = [jobs EXCEPT ![j] = "processing"],
           starter' = [starter EXCEPT ![j] = i]
    PROVE  /\ \A l \in Jobs \ {j} : starter'[l] = starter[l] /\ jobs'[l] = jobs[l]
           /\ starter'[j] = i /\ jobs'[j] = "processing"
           /\ \A k \in Agents : ~Known(k, j)
           /\ Open(i)' = Open(i) \cup {j}
           /\ Cardinality(Open(i)') \in Nat
           /\ Cardinality(Open(i)') <= Cardinality(Open(i)) + 1
<1>1. \A l \in Jobs \ {j} : starter'[l] = starter[l] /\ jobs'[l] = jobs[l]
  BY DEF ExportInv, TypeOK
<1>2. starter'[j] = i /\ jobs'[j] = "processing"
  BY DEF ExportInv, TypeOK
<1>3. \A k \in Agents : ~Known(k, j)
  BY DEF ExportInv, AgentInv, FollowInv
<1>4. Open(i)' = Open(i) \cup {j}
  BY <1>1, <1>2 DEF Open
<1>5. IsFiniteSet(Open(i)) /\ Cardinality(Open(i)) \in Nat
  BY CountTypes DEF ExportInv
<1>6. Cardinality(Open(i) \cup {j}) \in {Cardinality(Open(i)), Cardinality(Open(i)) + 1}
  <2> HIDE DEF Open
  <2> QED
    BY <1>5, FS_AddElement
<1> QED
  BY <1>1, <1>2, <1>3, <1>4, <1>5, <1>6

(* The request of a call that waits is served.                             *)
LEMMA ServeExport ==
    ASSUME ExportInv, NEW i \in Agents, Serve(i)
    PROVE  ExportInv'
<1>1. /\ wire[i] = "sent" /\ wire' = [wire EXCEPT ![i] = "served"]
      /\ Served(i, asked[i], FALSE)
      /\ UNCHANGED <<task, at, asked, outcome, job, starts, conflicts, faults,
                     ghosts, told, unheard>>
  BY DEF Serve, Body
<1>2. WishInv(i) /\ StartInv(i) /\ FollowInv(i) /\ CountInv(i)
  BY DEF ExportInv, AgentInv
<1>3. Pending(i) /\ ~Finished(i) /\ Current(i) \in Task /\ asked[i] \in Requests
  <2>1. Pending(i) /\ ~Finished(i)
    BY <1>1, <1>2 DEF Pending, WishInv
  <2>2. Current(i) \in Task
    BY <2>1, CurrentType DEF ExportInv
  <2> QED
    BY <1>2, <2>1, <2>2 DEF WishInv, Requests
<1>4. asked[i] # None
  BY <1>3, RequestTypes, NoneAssumption
<1>5. /\ deck' \in [Fields -> Agents \cup {None}]
      /\ raced' \in SUBSET Agents
      /\ share' \in (SUBSET Settings) \cup {None}
      /\ last' \in (Agents \X Wish \X BOOLEAN) \cup {None}
      /\ jobs' \in [Jobs -> {"none", "processing", "ready", "failed"}]
      /\ starter' \in [Jobs -> Agents \cup {None}]
  BY <1>1, <1>3, BackendTypes
<1>6. /\ \A k \in Agents : Late(k)' = Late(k) /\ Begun(k)' = Begun(k)
      /\ wire'[i] = "served" /\ \A k \in Agents \ {i} : wire'[k] = wire[k]
  BY <1>1 DEF Late, Begun, ExportInv, TypeOK
<1>7. /\ Finished(i)' = Finished(i) /\ Current(i)' = Current(i)
      /\ (Exporting(i)' <=> Exporting(i)) /\ (Polling(i)' <=> Polling(i))
      /\ Pending(i)'
  BY <1>1, <1>6 DEF Finished, Current, Exporting, Polling, Does, Pending
<1>8. WishInv(i)'
  BY <1>1, <1>2, <1>3, <1>7 DEF WishInv
<1>9. ASSUME NEW r \in Reply, reply' = [reply EXCEPT ![i] = r]
      PROVE  /\ TypeOK' /\ reply'[i] = r
             /\ \A k \in Agents \ {i} : AgentInv(k)'
  <2>1. TypeOK'
    BY <1>1, <1>5, <1>9 DEF ExportInv, TypeOK
  <2>2. reply'[i] = r /\ \A k \in Agents \ {i} : reply'[k] = reply[k]
    BY <1>9 DEF ExportInv, TypeOK
  <2>3. ASSUME NEW k \in Agents \ {i} PROVE AgentInv(k)'
    <3>1. /\ \A j \in Jobs : starter[j] = k /\ jobs[j] # "none" =>
                starter'[j] = k /\ jobs'[j] = jobs[j]
          /\ \A j \in Jobs : starter'[j] = k => starter[j] = k /\ jobs'[j] = jobs[j]
      <4>1. CASE UNCHANGED <<jobs, starter>>
        BY <4>1
      <4>2. CASE \E j \in Jobs : /\ jobs[j] = "none"
                                 /\ jobs' = [jobs EXCEPT ![j] = "processing"]
                                 /\ starter' = [starter EXCEPT ![j] = i]
        <5>1. PICK j \in Jobs : /\ jobs[j] = "none"
                                /\ jobs' = [jobs EXCEPT ![j] = "processing"]
                                /\ starter' = [starter EXCEPT ![j] = i]
          BY <4>2
        <5>2. /\ \A l \in Jobs \ {j} : starter'[l] = starter[l] /\ jobs'[l] = jobs[l]
              /\ starter'[j] = i
          BY <5>1, FreeJob
        <5> QED
          BY <5>1, <5>2
      <4> QED
        BY <1>1, <1>3, <4>1, <4>2, BackendJobs
    <3>2. /\ task'[k] = task[k] /\ at'[k] = at[k] /\ asked'[k] = asked[k]
          /\ outcome'[k] = outcome[k] /\ job'[k] = job[k] /\ starts'[k] = starts[k]
          /\ unheard'[k] = unheard[k] /\ IsFiniteSet(ghosts') /\ Late(k)' \subseteq Late(k)
      BY <1>1, <1>6 DEF ExportInv
    <3> QED
      BY <1>6, <2>1, <2>2, <3>1, <3>2, AgentKept
  <2> QED
    BY <2>1, <2>2, <2>3
<1>10. CASE ~Exporting(i)
  <2>1. asked[i].tool # export_presentation_pdf
    BY <1>4, <1>10 DEF Exporting, Does
  <2>2. UNCHANGED <<jobs, starter>>
    BY <1>1, <1>3, <2>1, BackendJobs
  <2>3. asked[i].tool = get_pdf_export_status <=> Polling(i)
    BY <1>4 DEF Polling, Does
  <2>4. Polling(i) => Follows(i)
    BY <1>3 DEF Follows
  <2>5. asked[i].tool = get_pdf_export_status =>
           job[i] \in Jobs /\ jobs[job[i]] # "none"
    BY <1>2, <2>3, <2>4 DEF FollowInv, Known
  <2>6. PICK r \in Reply :
           /\ reply' = [reply EXCEPT ![i] = r]
           /\ r.code = "CONFLICT" =>
                 asked[i].tool = update_presentation /\ r.status = 409
           /\ asked[i].tool = get_pdf_export_status /\ "failed" \in r.items =>
                 jobs[job[i]] = "failed"
    <3>1. Replied(i, asked[i])
      BY <1>1, <1>3, <2>1, <2>5, BackendReply
    <3> QED BY <3>1 DEF Replied
  <2>7. TypeOK' /\ reply'[i] = r /\ \A k \in Agents \ {i} : AgentInv(k)'
    BY <1>9, <2>6
  <2>8. ReplyInv(i)'
    <3>1. Does(i, update_presentation)' <=> asked[i].tool = update_presentation
      BY <1>1, <1>4 DEF Does
    <3> QED
      BY <1>1, <1>7, <1>10, <2>2, <2>3, <2>6, <2>7, <3>1 DEF ReplyInv
  <2>9. StartInv(i)'
    BY <1>1, <1>2, <1>7, <1>10, <2>2 DEF StartInv
  <2>10. (Follows(i)' <=> Follows(i)) /\ \A j : Known(i, j)' <=> Known(i, j)
    BY <1>1, <1>3, <1>7, <1>10, <2>4 DEF Known, Follows
  <2>11. FollowInv(i)'
    BY <1>1, <1>2, <2>2, <2>10 DEF FollowInv
  <2>12. CountInv(i)'
    <3>1. Open(i)' = Open(i)
      BY <2>2 DEF Open
    <3>2. Owed(i)' = Owed(i)
      BY <1>7, <2>2, <2>10 DEF Owed, Due
    <3> QED
      BY <1>1, <1>2, <1>6, <3>1, <3>2 DEF CountInv
  <2> QED
    BY <1>1, <1>8, <2>7, <2>8, <2>9, <2>11, <2>12 DEF ExportInv, AgentInv
<1>11. CASE Exporting(i)
  <2>1. asked[i].tool = export_presentation_pdf /\ ~Polling(i)
    BY <1>11, DeckToolsDiffer DEF Exporting, Polling, Does
  <2>2. PICK j \in Jobs : /\ jobs[j] = "none"
                          /\ jobs' = [jobs EXCEPT ![j] = "processing"]
                          /\ starter' = [starter EXCEPT ![j] = i]
                          /\ Answer(i, FALSE, Yes(202, {j, "processing"}))
    BY <1>1, <1>3, <2>1, BackendJobs
  <2>3. PICK items : items = {j, "processing"}
    OBVIOUS
  <2>4. PICK r : r = Yes(202, items)
    OBVIOUS
  <2>5. items \in SUBSET Things
    BY <2>3, ThingsAssumption DEF Shown
  <2>6. /\ r \in Reply /\ r.status = 202 /\ r.body = "envelope"
        /\ r.items = items /\ r.code = "none"
    BY <2>4, <2>5, YesType DEF Statuses
  <2>7. reply' = [reply EXCEPT ![i] = r]
    BY <2>2, <2>3, <2>4 DEF Answer
  <2>8. TypeOK' /\ reply'[i] = r /\ \A k \in Agents \ {i} : AgentInv(k)'
    BY <1>9, <2>6, <2>7
  <2>9. /\ starter'[j] = i /\ jobs'[j] = "processing"
        /\ Cardinality(Open(i)') \in Nat
        /\ Cardinality(Open(i)') <= Cardinality(Open(i)) + 1
    BY <2>2, FreeJob
  <2>10. ReplyInv(i)'
    BY <1>7, <2>1, <2>3, <2>6, <2>8 DEF ReplyInv
  <2>11. ~Follows(i)'
    BY <1>6, <1>7, <2>1 DEF Follows
  <2>12. \A l \in Jobs : Known(i, l)' <=> l = j
    BY <1>6, <1>7, <1>11, <2>3, <2>6, <2>8, <2>11, JobsAssumption DEF Known
  <2>13. FollowInv(i)'
    BY <2>9, <2>11, <2>12 DEF FollowInv
  <2>14. StartInv(i)'
    BY <1>1, <1>2, <1>7, <2>1 DEF StartInv
  <2>15. Due(i)
    <3>1. Current(i).tool = export_presentation_pdf
      BY <1>2, <1>3, <2>1, RequestTypes, DeckToolsDiffer DEF WishInv
    <3>2. \A l : ~Known(i, l)
      BY <1>1, <2>1 DEF Known, Follows
    <3> QED
      BY <1>3, <3>1, <3>2 DEF Due
  <2>16. CountInv(i)'
    <3>1. Owed(i) = 1
      BY <2>15 DEF Owed
    <3>2. Owed(i)' = 0
      BY <2>9, <2>12 DEF Owed, Due
    <3> QED
      BY <1>1, <1>2, <1>6, <2>9, <3>1, <3>2, CountTypes DEF CountInv, ExportInv
  <2> QED
    BY <1>1, <1>8, <2>8, <2>10, <2>13, <2>14, <2>16 DEF ExportInv, AgentInv
<1> QED
  BY <1>10, <1>11

(* It is refused.                                                          *)
LEMMA RefuseExport ==
    ASSUME ExportInv, NEW i \in Agents, Refuse(i)
    PROVE  ExportInv'
<1>1. PICK r : r = No(404, "none")
  OBVIOUS
<1>2. /\ wire[i] = "sent" /\ wire' = [wire EXCEPT ![i] = "served"]
      /\ faults < MaxFaults /\ faults' = faults + 1
      /\ reply' = [reply EXCEPT ![i] = r]
      /\ UNCHANGED <<task, at, asked, outcome, job, starts, conflicts, ghosts, told,
                     unheard, deck, raced, share, last, jobs, starter>>
  BY <1>1 DEF Refuse, Answer, backend
<1>3. r \in Reply /\ r.status = 404 /\ r.items = {} /\ r.code = "none"
  BY <1>1, NoType DEF Statuses, Codes
<1>4. TypeOK'
  <2>1. faults' \in 0..MaxFaults
    BY <1>2, BoundsAssumption DEF ExportInv, TypeOK
  <2> QED
    BY <1>2, <1>3, <2>1 DEF ExportInv, TypeOK
<1>5. /\ \A k \in Agents : /\ Late(k)' = Late(k) /\ Begun(k)' = Begun(k)
                           /\ Open(k)' = Open(k)
      /\ wire'[i] = "served" /\ reply'[i] = r
      /\ \A k \in Agents \ {i} : wire'[k] = wire[k] /\ reply'[k] = reply[k]
  BY <1>2 DEF Late, Begun, Open, ExportInv, TypeOK
<1>6. ASSUME NEW k \in Agents \ {i} PROVE AgentInv(k)'
  <2>1. Late(k)' \subseteq Late(k) /\ IsFiniteSet(ghosts')
    BY <1>2, <1>5 DEF ExportInv
  <2> QED
    BY <1>2, <1>4, <1>5, <2>1, AgentKept
<1>7. AgentInv(i)'
  <2>1. WishInv(i) /\ StartInv(i) /\ FollowInv(i) /\ CountInv(i)
    BY DEF ExportInv, AgentInv
  <2>2. /\ Finished(i)' = Finished(i) /\ Current(i)' = Current(i)
        /\ (Exporting(i)' <=> Exporting(i)) /\ (Polling(i)' <=> Polling(i))
        /\ Pending(i)' /\ Pending(i)
    BY <1>2, <1>5 DEF Finished, Current, Exporting, Polling, Does, Pending
  <2>3. WishInv(i)'
    BY <1>2, <2>1, <2>2 DEF WishInv
  <2>4. ReplyInv(i)'
    BY <1>3, <1>5 DEF ReplyInv
  <2>5. StartInv(i)'
    BY <1>2, <2>1, <2>2 DEF StartInv
  <2>6. (Follows(i)' <=> Follows(i)) /\ \A j : Known(i, j)' <=> Known(i, j)
    BY <1>2, <1>3, <1>5, <2>2 DEF Known, Follows
  <2>7. FollowInv(i)'
    BY <1>2, <2>1, <2>6 DEF FollowInv
  <2>8. CountInv(i)'
    <3>1. Owed(i)' = Owed(i)
      BY <1>2, <2>2, <2>6 DEF Owed, Due
    <3> QED
      BY <1>2, <1>5, <2>1, <3>1 DEF CountInv
  <2> QED
    BY <2>3, <2>4, <2>5, <2>7, <2>8 DEF AgentInv
<1> QED
  BY <1>2, <1>4, <1>6, <1>7 DEF ExportInv

(* One whose call has given up is served: it may start a job.              *)
LEMMA ServeLateExport ==
    ASSUME ExportInv, NEW g \in ghosts, ServeLate(g)
    PROVE  ExportInv'
<1>1. PICK i \in Agents, w \in Requests, n \in Nat : g = <<i, w, n>>
  BY DEF ExportInv, TypeOK
<1>2. /\ Served(i, w, TRUE) /\ ghosts' = ghosts \ {g}
      /\ UNCHANGED <<task, at, asked, wire, outcome, job, starts, conflicts,
                     faults, told, unheard>>
  BY <1>1 DEF ServeLate, Body
<1>3. /\ deck' \in [Fields -> Agents \cup {None}]
      /\ raced' \in SUBSET Agents
      /\ share' \in (SUBSET Settings) \cup {None}
      /\ last' \in (Agents \X Wish \X BOOLEAN) \cup {None}
      /\ jobs' \in [Jobs -> {"none", "processing", "ready", "failed"}]
      /\ starter' \in [Jobs -> Agents \cup {None}]
  BY <1>2, BackendTypes
<1>4. UNCHANGED reply
  BY <1>2, ServedEffect DEF Answer
<1>5. TypeOK'
  BY <1>2, <1>3, <1>4 DEF ExportInv, TypeOK
<1>6. IsFiniteSet(ghosts') /\ \A h \in ghosts' : h[2] \in Requests
  BY <1>2, FS_Subset DEF ExportInv
<1>7. \A k \in Agents : Late(k)' = Late(k) \ {g}
  BY <1>2 DEF Late
<1>8. CASE w.tool # export_presentation_pdf
  <2>1. UNCHANGED <<jobs, starter>>
    BY <1>2, <1>8, BackendJobs
  <2>2. ASSUME NEW k \in Agents PROVE AgentInv(k)'
    BY <1>2, <1>4, <1>5, <1>6, <1>7, <2>1, AgentKept
  <2> QED
    BY <1>5, <1>6, <2>2 DEF ExportInv
<1>9. CASE w.tool = export_presentation_pdf
  <2>1. PICK j \in Jobs : /\ jobs[j] = "none"
                          /\ jobs' = [jobs EXCEPT ![j] = "processing"]
                          /\ starter' = [starter EXCEPT ![j] = i]
    BY <1>2, <1>9, BackendJobs
  <2>2. /\ \A l \in Jobs \ {j} : starter'[l] = starter[l] /\ jobs'[l] = jobs[l]
        /\ starter'[j] = i /\ jobs'[j] = "processing"
        /\ \A k \in Agents : ~Known(k, j)
        /\ Cardinality(Open(i)') \in Nat
        /\ Cardinality(Open(i)') <= Cardinality(Open(i)) + 1
    BY <2>1, FreeJob
  <2>3. ASSUME NEW k \in Agents \ {i} PROVE AgentInv(k)'
    <3>1. /\ \A l \in Jobs : starter[l] = k /\ jobs[l] # "none" =>
                starter'[l] = k /\ jobs'[l] = jobs[l]
          /\ \A l \in Jobs : starter'[l] = k => starter[l] = k /\ jobs'[l] = jobs[l]
      BY <2>1, <2>2
    <3> QED
      BY <1>2, <1>4, <1>5, <1>6, <1>7, <3>1, AgentKept
  <2>4. WishInv(i) /\ ReplyInv(i) /\ StartInv(i) /\ FollowInv(i) /\ CountInv(i)
    BY DEF ExportInv, AgentInv
  <2>5. /\ Finished(i)' = Finished(i) /\ Current(i)' = Current(i)
        /\ (Exporting(i)' <=> Exporting(i)) /\ (Polling(i)' <=> Polling(i))
        /\ (Pending(i)' <=> Pending(i)) /\ (Follows(i)' <=> Follows(i))
        /\ Begun(i)' = Begun(i)
        /\ \A l : Known(i, l)' <=> Known(i, l)
    BY <1>2, <1>4 DEF Finished, Current, Exporting, Polling, Does, Pending, Follows,
                      Known, Begun
  <2>6. /\ wire'[i] = wire[i] /\ outcome'[i] = outcome[i] /\ asked'[i] = asked[i]
        /\ reply'[i] = reply[i] /\ job'[i] = job[i] /\ starts'[i] = starts[i]
        /\ unheard'[i] = unheard[i]
    BY <1>2, <1>4
  <2>7. Polling(i) /\ Pending(i) => job[i] \in Jobs /\ job[i] # j
    BY <2>2, <2>4 DEF FollowInv, Follows, Known
  <2>8. WishInv(i)'
    BY <2>4, <2>5, <2>6 DEF WishInv
  <2>9. ReplyInv(i)'
    <3>1. wire[i] = "served" => Pending(i)
      BY DEF Pending
    <3>2. Does(i, update_presentation)' <=> Does(i, update_presentation)
      BY <2>6 DEF Does
    <3> QED
      BY <2>2, <2>4, <2>5, <2>6, <2>7, <3>1, <3>2 DEF ReplyInv
  <2>10. StartInv(i)'
    <3>1. outcome[i] # None => Pending(i)
      BY DEF Pending
    <3> QED
      BY <2>2, <2>4, <2>5, <2>6, <2>7, <3>1 DEF StartInv
  <2>11. FollowInv(i)'
    BY <2>2, <2>4, <2>5, <2>6 DEF FollowInv
  <2>12. CountInv(i)'
    <3>1. g \in Late(i)
      BY <1>1, <1>9 DEF Late
    <3>2. IsFiniteSet(Late(i)) /\ Cardinality(Late(i)) \in Nat
      BY CountTypes DEF ExportInv
    <3>3. Cardinality(Late(i)') = Cardinality(Late(i)) - 1
      <4> HIDE DEF Late
      <4>1. Cardinality(Late(i) \ {g}) = Cardinality(Late(i)) - 1
        BY <3>1, <3>2, FS_RemoveElement
      <4> QED
        BY <1>7, <4>1
    <3>4. Due(i)' => Due(i)
      BY <2>2, <2>5 DEF Due
    <3>5. Owed(i)' <= Owed(i) /\ Owed(i) \in {0, 1} /\ Owed(i)' \in {0, 1}
      BY <3>4 DEF Owed
    <3> QED
      BY <2>2, <2>4, <2>5, <2>6, <3>2, <3>3, <3>5, CountTypes DEF CountInv, ExportInv
  <2>13. AgentInv(i)'
    BY <2>8, <2>9, <2>10, <2>11, <2>12 DEF AgentInv
  <2> QED
    BY <1>5, <1>6, <2>3, <2>13 DEF ExportInv
<1> QED
  BY <1>8, <1>9

(* Nothing was exported at the beginning, and an agent is owed the export  *)
(* it begins with.                                                         *)
LEMMA InitExport == Init => ExportInv
<1> SUFFICES ASSUME Init PROVE ExportInv
  OBVIOUS
<1>1. TypeOK /\ ghosts = {}
  BY BoundsAssumption DEF Init, TypeOK
<1>2. IsFiniteSet(ghosts)
  BY <1>1, FS_EmptySet
<1>3. ASSUME NEW i \in Agents PROVE AgentInv(i)
  <2>1. /\ at[i] = 1 /\ wire[i] = "none" /\ outcome[i] = None /\ starts[i] = 0
        /\ unheard[i] = 0 /\ \A j \in Jobs : starter[j] = None
    BY <1>3 DEF Init
  <2>2. WishInv(i) /\ ReplyInv(i) /\ StartInv(i) /\ FollowInv(i)
    BY <2>1 DEF WishInv, ReplyInv, StartInv, FollowInv, Known, Follows, Pending
  <2>3. Open(i) = {} /\ Late(i) = {}
    BY <1>1, <2>1, NoneAssumption DEF Open, Late
  <2>4. Cardinality({}) = 0
    BY FS_EmptySet
  <2>5. Begun(i) \in Nat
    BY <1>1, <1>2, CountTypes
  <2>6. Owed(i) <= Begun(i)
    <3> DEFINE S == {n \in 1..at[i] :
                        n <= Len(task[i]) /\ task[i][n].tool = export_presentation_pdf}
    <3>1. Due(i) => S = {1}
      <4>1. Len(task[i]) \in Nat
        BY <1>1, ScenariosAssumption DEF TypeOK
      <4> QED
        BY <2>1, <4>1 DEF Due, Finished, Current
    <3>2. Begun(i) = Cardinality(S)
      BY DEF Begun
    <3> HIDE DEF S
    <3>3. Due(i) => Begun(i) = 1
      BY <3>1, <3>2, FS_Singleton
    <3> QED
      BY <2>5, <3>3 DEF Owed
  <2>7. CountInv(i)
    BY <2>1, <2>3, <2>4, <2>5, <2>6 DEF CountInv, Owed
  <2> QED
    BY <2>2, <2>7 DEF AgentInv
<1> QED
  BY <1>1, <1>2, <1>3 DEF ExportInv

(* A step that changes nothing.                                            *)
LEMMA NothingExport ==
    ASSUME ExportInv, UNCHANGED vars
    PROVE  ExportInv'
<1>1. UNCHANGED <<task, at, asked, wire, reply, outcome, job, starts, conflicts,
                  faults, deck, raced, share, last, jobs, starter, ghosts, told,
                  unheard>>
  BY DEF vars, calls, backend
<1>2. TypeOK'
  BY <1>1 DEF ExportInv, TypeOK
<1>3. ASSUME NEW k \in Agents PROVE AgentInv(k)'
  <2>1. Late(k)' \subseteq Late(k) /\ IsFiniteSet(ghosts')
    BY <1>1 DEF Late, ExportInv
  <2> QED
    BY <1>1, <1>2, <2>1, AgentKept
<1> QED
  BY <1>1, <1>2, <1>3 DEF ExportInv

(* The invariant holds throughout.                                         *)
THEOREM ExportInductive == Spec => []ExportInv
<1>1. ExportInv /\ [Next]_vars => ExportInv'
  <2> SUFFICES ASSUME ExportInv, [Next]_vars PROVE ExportInv'
    OBVIOUS
  <2> QED
    BY NothingExport, CallExport, ReceiveExport, NoAnswerExport, ServeExport,
       RefuseExport, ServeLateExport, FinishExport
       DEF Next, Idle
<1> QED
  BY InitExport, <1>1, PTL DEF Spec

(* The variables keep their types: a wish is not started more often than   *)
(* allowed, nor is an agent told of a second conflict for one.             *)
THEOREM TypeCorrect == Spec => []TypeOK
<1>1. ExportInv => TypeOK
  BY DEF ExportInv
<1> QED
  BY ExportInductive, <1>1, PTL

(* No export is started in vain: besides one for each export an agent was  *)
(* asked for, all the jobs it started have failed, but for the starts      *)
(* whose reply it never got (property.go, export_presentation_pdf: "Only   *)
(* start a NEW export if a previous job reported 'failed'").               *)
THEOREM NoneIdle == Spec => []NoIdleExport
<1>1. ExportInv => NoIdleExport
  <2> SUFFICES ASSUME ExportInv, NEW i \in Agents
               PROVE  Cardinality(Open(i)) <= Begun(i) + unheard[i]
    BY DEF NoIdleExport, Open
  <2>1. CountInv(i)
    BY DEF ExportInv, AgentInv
  <2> QED
    BY <2>1, CountTypes DEF CountInv, ExportInv
<1> QED
  BY ExportInductive, <1>1, PTL

=============================================================================

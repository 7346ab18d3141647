--------------------------- MODULE ToolCallsProofs ---------------------------
(***************************************************************************)
(* Proofs about ToolCalls, for every agents, intents, things and bounds.   *)
(*                                                                         *)
(* The lemmas about the table of tools and about the reading of responses  *)
(* come first: whatever the backend answers, the method that reads it says *)
(* what the backend did (Answers).  The inductive invariant Inv says that  *)
(* of each call (CallInv), that the calls of an agent come one after the   *)
(* other (OrderInv) and fit its intent (Fitting), and that an agent that   *)
(* is not outdated asks for nothing that is there (LookedInv).             *)
(***************************************************************************)
EXTENDS ToolCalls, TLAPS

(* What a call has returned without its reply claims nothing.              *)
Silent(r, o) == o.kind \in Uncertain \/ (o.kind = "none_queued" /\ r.tool = invite_users)

(* What was left out of what a call of agent i asked, or of its reply p.   *)
LeftOut(i, p) == intent[i].zero \/ (p # None /\ p.body = "drifted")

(* What is so of a call of agent i that asked r and was told o, with p as  *)
(* its reply, if serving it made (or showed) m.                            *)
Says(i, r, o, m, p) ==
    /\ (o.kind \in Affirmative \ {"removed"} /\ ~LeftOut(i, p)) => o.items = m
    /\ o.kind = "removed" => m = r.things
    /\ (o.kind \in Affirmative /\ r.tool \in Writers /\ ~LeftOut(i, p)) =>
          (r.things \ m) \subseteq
              (o.failed \cup IF o.kind = "created" THEN {"opportunity"} ELSE {})
    /\ o.kind \in Negative => m = {}
    /\ o.kind = "created" => r.tool = push_lead_to_crm /\ o.items = m
    /\ o.kind \in Again => r.tool = invite_users

(* A request that agent i may have sent.                                   *)
Fitting(i, r) ==
    /\ r \in Request
    /\ \/ r.tool = intent[i].tool /\ (r.tool = invite_users \/ r.things \subseteq intent[i].things)
       \/ HasRead(intent[i].tool) /\ r.tool = ShownBy[intent[i].tool.name]
       \/ /\ intent[i].tool = push_lead_to_crm /\ r.tool = create_crm_opportunity
          /\ r.things = {"opportunity"} /\ "opportunity" \in intent[i].things
    /\ r.tool = run_comps => "comps" \in r.things

CallInv(c) ==
    /\ asked[c] = None => wire[c] = "none" /\ outcome[c] = None
    /\ asked[c] # None => Fitting(c[1], asked[c])
    /\ wire[c] # "served" => made[c] = {} /\ reply[c] = None
    /\ (asked[c] # None /\ wire[c] = "none") => outcome[c] = Nothing("invalid")
    /\ (wire[c] = "sent" /\ outcome[c] # None) => Silent(asked[c], outcome[c])
    /\ wire[c] = "served" =>
          /\ reply[c] \in Reply
          /\ Says(c[1], asked[c], Understood(asked[c].tool.call, reply[c]), made[c], reply[c])
    /\ outcome[c] # None => Says(c[1], asked[c], outcome[c], made[c], reply[c])

(* The calls of an agent, one after the other.                             *)
OrderInv(i) ==
    \A k, l \in 1..MaxCalls : k < l /\ asked[<<i, l>>] # None =>
        asked[<<i, k>>] # None /\ outcome[<<i, k>>] # None

There(i) == {t \in intent[i].things : there[t] > 0}
Adding == {"add", "attach", "push", "run"}

(* What is asked for is not there, as far as agent i can know.             *)
Unknown(i, c) ==
    \A t \in asked[c].things \cap There(i) : t \in made[c] \/ UnheardOf(i, t)

Seen(i, r, o) == o.more \/ There(i) \subseteq r.seen \cup o.items

Last(i, k) == asked[<<i, k>>] # None /\ \A l \in 1..MaxCalls : l > k => asked[<<i, l>>] = None

(* What an agent that is not outdated adds is not there, and a read that   *)
(* shows no cursor has shown it all that is.                               *)
Looked(i, c) ==
    /\ (/\ asked[c].tool.call.does \in Adding
        /\ ~HasRead(asked[c].tool) \/ (wire[c] = "sent" /\ outcome[c] = None)) => Unknown(i, c)
    /\ HasRead(intent[i].tool) /\ asked[c].tool \in Readers =>
          /\ (/\ wire[c] = "served" /\ outcome[c] = None
              /\ Understood(asked[c].tool.call, reply[c]).kind = "ok") =>
                  Seen(i, asked[c], Understood(asked[c].tool.call, reply[c]))
          /\ (outcome[c] # None /\ outcome[c].kind = "ok") => Seen(i, asked[c], outcome[c])

LookedInv(i) ==
    i \notin outdated =>
    /\ asked[<<i, 1>>] = None => There(i) = {}
    /\ \A k \in 1..MaxCalls : Last(i, k) => Looked(i, <<i, k>>)

Inv ==
    /\ TypeOK /\ intent \in Scenarios
    /\ \A c \in Calls : CallInv(c)
    /\ \A i \in Agents : OrderInv(i) /\ LookedInv(i)

-----------------------------------------------------------------------------
(* The table of tools. *)

Helpers == {"status", "crm", "envelope", "boxes", "run", "push", "removal", "invite"}

(* What is so of every tool that reads.                                    *)
LEMMA ReaderCalls ==
    ASSUME NEW tool \in Readers
    PROVE  /\ tool.call.helper \in {"status", "crm", "envelope"}
           /\ tool.call.helper = "status" => tool.call.want = 200
           /\ tool.call.does \in {"read", "list"} /\ tool.call.paged \in BOOLEAN
           /\ ~HasRead(tool) /\ tool.name \notin LookFirst
  <1>1. /\ tool.call.helper \in {"status", "crm", "envelope"}
        /\ tool.call.helper = "status" => tool.call.want = 200
    BY SMT DEF Readers, get_notes_for_property, get_property_details, get_property_list,
              get_comps, get_unread_notifications, search_properties,
              search_users, get_crm_connections, get_crm_pipelines,
              get_crm_users, get_crm_tags, list_my_folders, get_folder,
              list_created_folders, get_folder_members,
              get_property_call_activity, get_call_data, list_buyers, get_buyer,
              list_my_buyboxes, get_my_buybox, list_buyer_buyboxes,
              get_buyer_buybox, get_user_buyboxes, get_buybox_details,
              list_presentations, get_presentation, get_presentation_content,
              list_templates, get_template, Tool, Method, Read, Pages, tsGet,
              presDo, crmGet, GetNotes, GetPropertyDetails, GetSharedProperties, GetComps,
              GetUnreadNotifications, SearchProperties, SearchUsers, GetCRMConnections,
              GetCRMPipelines, GetCRMUsers, GetCRMTags, ListFolders, GetFolder,
              listFoldersAtPath, ListCreatedFolders, GetFolderMembers,
              GetPropertyCallActivity, GetCallData, ListBuyers, GetBuyer, ListMyBuyBoxes,
              GetMyBuyBox, ListBuyerBuyBoxes, listBuyBoxes, getBuyBox, GetBuyerBuyBox,
              GetUserBuyBoxes, GetBuyBoxDetails, ListPresentations, GetPresentation,
              GetPresentationContent, ListTemplates, GetTemplate
  <1>2. tool.call.does \in {"read", "list"} /\ (tool.call.paged = TRUE \/ tool.call.paged = FALSE)
    BY SMT DEF Readers, get_notes_for_property, get_property_details, get_property_list,
              get_comps, get_unread_notifications, search_properties,
              search_users, get_crm_connections, get_crm_pipelines,
              get_crm_users, get_crm_tags, list_my_folders, get_folder,
              list_created_folders, get_folder_members,
              get_property_call_activity, get_call_data, list_buyers, get_buyer,
              list_my_buyboxes, get_my_buybox, list_buyer_buyboxes,
              get_buyer_buybox, get_user_buyboxes, get_buybox_details,
              list_presentations, get_presentation, get_presentation_content,
              list_templates, get_template, Tool, Method, Read, Pages, tsGet,
              presDo, crmGet, GetNotes, GetPropertyDetails, GetSharedProperties, GetComps,
              GetUnreadNotifications, SearchProperties, SearchUsers, GetCRMConnections,
              GetCRMPipelines, GetCRMUsers, GetCRMTags, ListFolders, GetFolder,
              listFoldersAtPath, ListCreatedFolders, GetFolderMembers,
              GetPropertyCallActivity, GetCallData, ListBuyers, GetBuyer, ListMyBuyBoxes,
              GetMyBuyBox, ListBuyerBuyBoxes, listBuyBoxes, getBuyBox, GetBuyerBuyBox,
              GetUserBuyBoxes, GetBuyBoxDetails, ListPresentations, GetPresentation,
              GetPresentationContent, ListTemplates, GetTemplate
  <1>3. ~HasRead(tool) /\ tool.name \notin LookFirst
    BY SMT DEF HasRead, ShownBy, LookFirst, Tool, Readers,
              get_notes_for_property, get_property_details, get_property_list,
              get_comps, get_unread_notifications, search_properties,
              search_users, get_crm_connections, get_crm_pipelines,
              get_crm_users, get_crm_tags, list_my_folders, get_folder,
              list_created_folders, get_folder_members,
              get_property_call_activity, get_call_data, list_buyers, get_buyer,
              list_my_buyboxes, get_my_buybox, list_buyer_buyboxes,
              get_buyer_buybox, get_user_buyboxes, get_buybox_details,
              list_presentations, get_presentation, get_presentation_content,
              list_templates, get_template
  <1>4. tool.call.paged \in BOOLEAN
    BY <1>2, Zenon
  <1> QED BY <1>1, <1>2, <1>3, <1>4

(* The methods of the tools that write.                                    *)
WriteMethods ==
    {Method("status", 200, "link", FALSE), Method("status", 201, "add", FALSE),
     Method("status", 201, "attach", FALSE), Method("envelope", 0, "add", FALSE),
     Method("envelope", 0, "set", FALSE), Method("boxes", 0, "part", FALSE),
     Method("run", 0, "run", FALSE), Method("push", 0, "push", FALSE),
     Method("removal", 200, "unlink", FALSE), Method("invite", 0, "part", FALSE)}

(* What is so of every tool that writes.                                   *)
LEMMA WriterCalls ==
    ASSUME NEW tool \in Writers
    PROVE  /\ tool.call \in WriteMethods
           /\ tool.call.helper = "push" => tool = push_lead_to_crm
           /\ tool.call.helper = "run" => tool = run_comps
           /\ tool.call.helper = "invite" => tool = invite_users
           /\ HasRead(tool) => tool.call.helper \in {"status", "envelope", "boxes", "run"}
           /\ HasRead(tool) => tool.call.does # "set" /\ tool # create_crm_opportunity
           /\ tool.name \in LookFirst => HasRead(tool)
  BY SMT DEF Writers, create_property, add_note_for_property, run_comps, create_folder,
            share_property, push_lead_to_crm, create_crm_opportunity,
            add_crm_note, add_property_to_folder, add_folder_member,
            create_buyer, update_buyer, create_my_buyboxes, update_my_buybox,
            create_buyer_buyboxes, update_buyer_buybox,
            create_presentation, remove_property_collaborator, invite_users,
            Tool, Method, Write, tsWrite, presDo, CreateProperty, CreateNote, RunComps,
            CreateFolder, ShareProperty, PushToCRM, CreateCRMOpportunity, AddCRMNote,
            AddPropertyToFolder, AddFolderMember, CreateBuyer, UpdateBuyer,
            CreateMyBuyBoxes, UpdateMyBuyBox, CreateBuyerBuyBoxes, UpdateBuyerBuyBox,
            createBuyBoxes, updateBuyBox, CreatePresentation, RemoveSharedUser, InviteUsers,
            WriteMethods, HasRead, ShownBy, LookFirst

(* Four of them by name.                                                   *)
LEMMA WritersByName ==
    /\ push_lead_to_crm \in Writers /\ push_lead_to_crm.call.helper = "push"
    /\ run_comps \in Writers /\ run_comps.call.helper = "run"
    /\ create_crm_opportunity \in Writers
    /\ create_crm_opportunity.call = Method("status", 201, "add", FALSE)
    /\ invite_users \in Writers /\ invite_users.call.helper = "invite"
  BY SMT DEF Writers, run_comps, push_lead_to_crm, create_crm_opportunity, invite_users,
            Tool, Method, Write, RunComps, PushToCRM, CreateCRMOpportunity, InviteUsers

(* The read that shows what a tool has made shows all of it, or a cursor.  *)
LEMMA LookOf ==
    ASSUME NEW tool, HasRead(tool), NEW look, look = ShownBy[tool.name]
    PROVE  look \in Readers /\ (look.call.does = "list" => look.call.paged = TRUE)
  <1>1. look \in {get_property_list, get_notes_for_property, get_comps,
                  list_created_folders, get_folder, get_folder_members, list_buyers,
                  list_my_buyboxes, list_buyer_buyboxes, list_presentations}
    BY SMT DEF HasRead, ShownBy
  <1>2. look \in Readers
    BY <1>1 DEF Readers
  <1>3. look.call.does = "list" => look.call.paged = TRUE
    BY <1>1 DEF get_property_list, get_notes_for_property, get_comps,
           list_created_folders, get_folder, get_folder_members, list_buyers,
           list_my_buyboxes, list_buyer_buyboxes, list_presentations, Tool, Method,
           Read, Pages, tsGet, presDo, GetSharedProperties, GetNotes, GetComps,
           ListCreatedFolders, GetFolder, GetFolderMembers, ListBuyers, listBuyBoxes,
           ListMyBuyBoxes, ListBuyerBuyBoxes, ListPresentations, listFoldersAtPath
  <1> QED BY <1>2, <1>3

(* A tool reads or writes, not both.                                       *)
LEMMA Apart ==
    ASSUME NEW tool \in AllTools
    PROVE  /\ tool \in Readers <=> tool \notin Writers
           /\ tool \in Readers <=> tool.call.does \in {"read", "list"}
           /\ tool.call.helper \in Helpers /\ tool.call.paged \in BOOLEAN
  <1>1. tool \in Readers => tool.call.does \in {"read", "list"}
                            /\ tool.call.helper \in Helpers /\ tool.call.paged \in BOOLEAN
    BY ReaderCalls DEF Helpers
  <1>2. tool \in Writers => tool.call.does \notin {"read", "list"}
                            /\ tool.call.helper \in Helpers /\ tool.call.paged \in BOOLEAN
    <2>1. SUFFICES ASSUME tool \in Writers
                   PROVE  /\ tool.call.does \notin {"read", "list"}
                          /\ tool.call.helper \in Helpers /\ tool.call.paged \in BOOLEAN
      OBVIOUS
    <2>2. PICK method \in WriteMethods : method = tool.call
      BY <2>1, WriterCalls
    <2>3. method.does \notin {"read", "list"} /\ method.helper \in Helpers /\ method.paged = FALSE
      BY <2>2 DEF WriteMethods, Method, Helpers
    <2>4. method.paged \in BOOLEAN
      BY <2>3, Zenon
    <2> QED BY <2>2, <2>3, <2>4
  <1> QED BY <1>1, <1>2 DEF AllTools

-----------------------------------------------------------------------------
(* The reading of responses. *)

(* Only tools with pages show a cursor.                                    *)
LEMMA Cursor ==
    ASSUME NEW o \in Outcome, NEW paged \in BOOLEAN
    PROVE  /\ [o EXCEPT !.more = @ /\ paged] \in Outcome
           /\ [o EXCEPT !.more = @ /\ paged].kind = o.kind
           /\ [o EXCEPT !.more = @ /\ paged].items = o.items
           /\ [o EXCEPT !.more = @ /\ paged].failed = o.failed
           /\ paged => [o EXCEPT !.more = @ /\ paged].more = o.more
  BY DEF Outcome

(* What a method makes of a response.                                      *)
Raw(method, r) ==
    CASE method.helper = "status" -> OfStatus(method.want, r)
      [] method.helper = "crm" -> OfCRM(r)
      [] method.helper = "envelope" -> OfEnvelope(r)
      [] method.helper = "boxes" -> OfBuyBoxes(r)
      [] method.helper = "run" -> OfRunComps(r)
      [] method.helper = "push" -> OfPush(r)
      [] method.helper = "removal" -> OfRemoval(r)
      [] method.helper = "invite" -> OfInvite(r)

(* It is an outcome, whatever the response.                                *)
LEMMA RawType ==
    ASSUME NEW method, method.helper \in Helpers, NEW r \in Reply
    PROVE  Raw(method, r) \in Outcome
  <1> USE DEF Raw, Outcome, Kinds, Nothing, Content, StatusError, Reply
  <1>1. CASE method.helper = "status"
    BY <1>1 DEF OfStatus
  <1>2. CASE method.helper = "crm"
    BY <1>2 DEF OfStatus, OfCRM
  <1>3. CASE method.helper = "envelope"
    BY <1>3 DEF OfEnvelope, EnvelopeError
  <1>4. CASE method.helper = "boxes"
    BY <1>4 DEF OfBuyBoxes, EnvelopeError
  <1>5. CASE method.helper = "run"
    BY <1>5 DEF OfRunComps, Billing
  <1>6. CASE method.helper = "push"
    <2>1. r.code # "none" => Lowered[r.code] \in Kinds
      BY DEF Lowered, Codes
    <2> QED BY <1>6, <2>1 DEF OfPush
  <1>7. CASE method.helper = "removal"
    BY <1>7 DEF OfRemoval
  <1>8. CASE method.helper = "invite"
    BY <1>8 DEF OfInvite, inviteUsersError
  <1> QED BY <1>1, <1>2, <1>3, <1>4, <1>5, <1>6, <1>7, <1>8 DEF Helpers

(* A method returns that, with the cursor if it has pages.                 *)
LEMMA UnderstoodIs ==
    ASSUME NEW method, method.helper \in Helpers, method.paged \in BOOLEAN, NEW r \in Reply,
           NEW o, o = Understood(method, r)
    PROVE  /\ o \in Outcome
           /\ o.kind = Raw(method, r).kind
           /\ o.items = Raw(method, r).items
           /\ o.failed = Raw(method, r).failed
           /\ method.paged => o.more = Raw(method, r).more
  <1>1. o = [Raw(method, r) EXCEPT !.more = @ /\ method.paged]
    BY DEF Understood, Raw
  <1> QED BY <1>1, RawType, Cursor

-----------------------------------------------------------------------------
(* What the backend answers, and what the client says of it. *)

(* An effect and its parts.                                                *)
LEMMA EffectIs ==
    ASSUME NEW change, NEW rp, NEW e, e = Effect(change, rp)
    PROVE  e.made = change /\ e.reply = rp
  BY DEF Effect

(* A reply of success and its parts.                                       *)
LEMMA YesIs ==
    ASSUME NEW status, NEW items
    PROVE  /\ Yes(status, items).status = status /\ Yes(status, items).body = "envelope"
           /\ Yes(status, items).code = "none" /\ Yes(status, items).state = "none"
           /\ Yes(status, items).details = "none" /\ Yes(status, items).items = items
           /\ Yes(status, items).failed = {}
           /\ Yes(status, items).success /\ ~Yes(status, items).more
  BY DEF Yes

(* The same, with a cursor.                                                *)
More(status, items) == [Yes(status, items) EXCEPT !.more = TRUE]
LEMMA YesMore ==
    ASSUME NEW status, NEW items
    PROVE  /\ More(status, items).status = status /\ More(status, items).body = "envelope"
           /\ More(status, items).items = items /\ More(status, items).failed = {}
           /\ More(status, items).success /\ More(status, items).more
  BY DEF Yes, More

(* The answers of the backend are replies.                                 *)
LEMMA YesType ==
    ASSUME NEW status \in Statuses, NEW items \in SUBSET Things
    PROVE  Yes(status, items) \in Reply
  BY DEF Yes, Reply, Codes, Billing

(* So are those with a cursor.                                             *)
LEMMA MoreType ==
    ASSUME NEW status \in Statuses, NEW items \in SUBSET Things
    PROVE  More(status, items) \in Reply
  BY DEF Yes, More, Reply, Codes, Billing

(* So are its refusals.                                                    *)
LEMMA NoType ==
    ASSUME NEW status \in Statuses, NEW code \in Codes
    PROVE  No(status, code) \in Reply
  BY DEF No, Yes, Reply, Billing

(* A request fits its intent: only what sets a value is asked for a zero,  *)
(* and a push is of a contact with its opportunity.                        *)
LEMMA FittingIntent ==
    ASSUME intent \in Scenarios, NEW i \in Agents, NEW r, Fitting(i, r)
    PROVE  /\ intent[i] \in Intent /\ r.tool \in AllTools /\ r.things \subseteq Things
           /\ intent[i].zero => r.tool.call.does = "set"
           /\ r.tool = push_lead_to_crm =>
                 intent[i].tool = push_lead_to_crm /\ r.things \subseteq {"contact", "opportunity"}
           /\ r.tool = run_comps => intent[i].tool = run_comps /\ r.things = {"comps"}
           /\ r.tool.call.does \in Adding => r.things \subseteq intent[i].things
  <1>1. intent[i] \in Intent /\ Sensible(intent[i])
    BY ScenariosAssumption
  <1>2. PICK w : w = intent[i].tool
    OBVIOUS
  <1>3. r \in Request /\ w \in AllTools
    BY <1>1, <1>2 DEF Fitting, Intent
  <1>4. HasRead(w) /\ r.tool = ShownBy[w.name] =>
            r.tool \in Readers /\ r.tool \notin Writers /\ r.tool.call.does \in {"read", "list"}
    BY LookOf, ReaderCalls, Apart DEF AllTools
  <1>5. push_lead_to_crm \notin Readers /\ run_comps \notin Readers
    BY WritersByName, Apart DEF AllTools
  <1>6. HasRead(w) => w.call.does # "set"
    BY <1>3, WriterCalls, ReaderCalls DEF AllTools
  <1>7. /\ push_lead_to_crm.call.does # "set"
        /\ create_crm_opportunity # push_lead_to_crm /\ create_crm_opportunity # run_comps
    BY WritersByName, WriterCalls DEF WriteMethods, Method
  <1>12. invite_users # push_lead_to_crm /\ invite_users # run_comps
         /\ invite_users.call.does \notin Adding
    BY WritersByName, WriterCalls DEF WriteMethods, Method, Adding
  <1>8. intent[i].zero => r.tool.call.does = "set"
    BY <1>1, <1>2, <1>6, <1>7 DEF Fitting, Sensible
  <1>9. r.tool = push_lead_to_crm =>
            intent[i].tool = push_lead_to_crm /\ r.things \subseteq {"contact", "opportunity"}
    BY <1>1, <1>2, <1>4, <1>5, <1>7, <1>12 DEF Fitting, Sensible
  <1>10. r.tool = run_comps => intent[i].tool = run_comps /\ r.things = {"comps"}
    BY <1>1, <1>2, <1>4, <1>5, <1>7, <1>12 DEF Fitting, Sensible
  <1>11. r.tool.call.does \in Adding => r.things \subseteq intent[i].things
    <2>1. r.tool \in Readers => r.tool.call.does \notin Adding
      BY ReaderCalls DEF Adding
    <2> QED BY <1>1, <1>2, <1>4, <1>12, <2>1 DEF Fitting
  <1> QED BY <1>1, <1>3, <1>8, <1>9, <1>10, <1>11 DEF Request

(* What a read is answered.                                                *)
LEMMA ReadEffect ==
    ASSUME NEW i, NEW r, r.tool \in Readers, NEW e \in Done(i, r)
    PROVE  /\ e.made \in SUBSET Things /\ e.reply \in Reply
           /\ e.reply.status = 200 /\ e.reply.body = "envelope" /\ e.reply.success
           /\ e.reply.items = e.made
           /\ \/ ~e.reply.more /\ Present \subseteq r.seen \cup e.made
              \/ e.reply.more /\ r.tool.call.does = "list" /\ ~r.next
  <1>1. Present \in SUBSET Things
    BY DEF Present
  <1>2. 200 \in Statuses
    BY DEF Statuses
  <1>3. CASE e = Effect(Present, Yes(200, Present))
    <2>1. e.made = Present /\ e.reply = Yes(200, Present)
      BY <1>3, EffectIs
    <2>2. e.reply \in Reply
      BY <1>1, <1>2, <2>1, YesType
    <2>3. /\ e.reply.status = 200 /\ e.reply.body = "envelope" /\ e.reply.success
          /\ e.reply.items = Present /\ ~e.reply.more
      BY <2>1, YesIs
    <2> QED BY <1>1, <2>1, <2>2, <2>3
  <1>4. CASE e = Effect(Present \ r.seen, Yes(200, Present \ r.seen))
    <2>1. e.made = Present \ r.seen /\ e.reply = Yes(200, Present \ r.seen)
      BY <1>4, EffectIs
    <2>2. Present \ r.seen \in SUBSET Things
      BY <1>1
    <2>3. e.reply \in Reply
      BY <1>2, <2>1, <2>2, YesType
    <2>4. /\ e.reply.status = 200 /\ e.reply.body = "envelope" /\ e.reply.success
          /\ e.reply.items = Present \ r.seen /\ ~e.reply.more
      BY <2>1, YesIs
    <2> QED BY <1>1, <2>1, <2>2, <2>3, <2>4
  <1>5. ASSUME ~r.next, r.tool.call.does = "list", NEW first \in SUBSET Present,
               e = Effect(first, More(200, first))
        PROVE  /\ e.made \in SUBSET Things /\ e.reply \in Reply
               /\ e.reply.status = 200 /\ e.reply.body = "envelope" /\ e.reply.success
               /\ e.reply.items = e.made /\ e.reply.more
    <2>1. e.made = first /\ e.reply = More(200, first)
      BY <1>5, EffectIs
    <2>2. first \in SUBSET Things
      BY <1>1
    <2>3. e.reply \in Reply
      BY <1>2, <2>1, <2>2, MoreType
    <2>4. /\ e.reply.status = 200 /\ e.reply.body = "envelope" /\ e.reply.success
          /\ e.reply.items = first /\ e.reply.more
      BY <2>1, YesMore
    <2> QED BY <2>1, <2>2, <2>3, <2>4
  <1>6. r.tool.call.does = "read" => Done(i, r) = {Effect(Present, Yes(200, Present))}
    BY DEF Done
  <1>7. r.tool.call.does = "list" => Done(i, r) = PageOf(r)
    BY DEF Done
  <1>8. e \in PageOf(r) =>
           \/ e = Effect(Present \ r.seen, Yes(200, Present \ r.seen))
           \/ e = Effect(Present, Yes(200, Present))
           \/ ~r.next /\ \E first \in SUBSET Present :
                            e = Effect(first, More(200, first))
    BY DEF PageOf, More
  <1>9. r.tool.call.does \in {"read", "list"}
    BY ReaderCalls
  <1>10. CASE e = Effect(Present, Yes(200, Present)) \/ e = Effect(Present \ r.seen, Yes(200, Present \ r.seen))
    BY <1>3, <1>4, <1>10
  <1>11. CASE /\ ~r.next /\ r.tool.call.does = "list"
              /\ \E first \in SUBSET Present :
                    e = Effect(first, More(200, first))
    BY <1>5, <1>11
  <1> QED BY <1>6, <1>7, <1>8, <1>9, <1>10, <1>11

(* A refusal and its parts.                                                *)
LEMMA NoIs ==
    ASSUME NEW status, NEW code
    PROVE  /\ No(status, code).status = status /\ No(status, code).body = "envelope"
           /\ No(status, code).code = code /\ No(status, code).state = "none"
           /\ No(status, code).details = "none" /\ No(status, code).items = {}
           /\ No(status, code).failed = {}
           /\ ~No(status, code).success /\ ~No(status, code).more
  BY DEF Yes, No

(* The statuses of refusals and failures.                                  *)
Failing == {400, 403, 404, 409, 429, 500, 502}

(* Success, with what was made.                                            *)
LEMMA SaysOK ==
    ASSUME NEW i, NEW r, NEW o, NEW m, NEW p, o.kind \in {"ok", "in_progress"},
           ~intent[i].zero => o.items = m,
           r.tool \in Writers /\ ~intent[i].zero => r.things \ m \subseteq o.failed
    PROVE  Says(i, r, o, m, p)
  BY DEF Says, LeftOut, Affirmative, Negative, Uncertain, Again

(* Neither success nor refusal.                                            *)
LEMMA SaysNothing ==
    ASSUME NEW i, NEW r, NEW o, NEW m, NEW p,
           Silent(r, o) \/ o.kind = "internal_error"
    PROVE  Says(i, r, o, m, p)
  BY DEF Says, Silent, Affirmative, Negative, Uncertain, Again

(* Nothing was made, and no success is reported.                           *)
LEMMA SaysNo ==
    ASSUME NEW i, NEW r, NEW o, NEW p, o.kind \notin Affirmative,
           o.kind \in Again => r.tool = invite_users
    PROVE  Says(i, r, o, {}, p)
  BY DEF Says, Affirmative

(* A refusal is never read as success.                                     *)
LEMMA RawNo ==
    ASSUME NEW method, method.helper \in Helpers,
           method.helper = "status" => method.want \in {200, 201},
           NEW status \in Failing, NEW code \in Codes,
           NEW o, o = Raw(method, No(status, code))
    PROVE  /\ o.kind \notin Affirmative
           /\ o.kind \in Again => method.helper = "invite"
           /\ status = 500 /\ code = "INTERNAL_ERROR" =>
                 o.kind \in Uncertain \cup {"internal_error"}
  <1>1. PICK r : r = No(status, code)
    OBVIOUS
  <1>2. /\ r.status = status /\ r.body = "envelope" /\ r.code = code /\ r.state = "none"
        /\ r.details = "none" /\ r.failed = {} /\ ~r.success
    BY <1>1, NoIs
  <1>12. status \notin 200..299
    BY DEF Failing
  <1>3. o = Raw(method, r)
    BY <1>1
  <1> USE DEF Raw, Nothing, Content, StatusError, Affirmative, Again, Uncertain, Failing
  <1>4. CASE method.helper = "status"
    BY <1>2, <1>3, <1>4, <1>12 DEF OfStatus
  <1>5. CASE method.helper = "crm"
    BY <1>2, <1>3, <1>5 DEF OfStatus, OfCRM
  <1>6. CASE method.helper = "envelope"
    BY <1>2, <1>3, <1>6 DEF OfEnvelope, EnvelopeError
  <1>7. CASE method.helper = "boxes"
    BY <1>2, <1>3, <1>7 DEF OfBuyBoxes, EnvelopeError
  <1>8. CASE method.helper = "run"
    BY <1>2, <1>3, <1>8 DEF OfRunComps
  <1>9. CASE method.helper = "push"
    <2>1. code # "none" =>
             /\ Lowered[code] \notin Affirmative \cup Again
             /\ code = "INTERNAL_ERROR" => Lowered[code] = "internal_error"
      BY DEF Lowered, Codes
    <2> QED BY <1>2, <1>3, <1>9, <2>1 DEF OfPush
  <1>10. CASE method.helper = "removal"
    BY <1>2, <1>3, <1>10, <1>12 DEF OfRemoval
  <1>11. CASE method.helper = "invite"
    BY <1>2, <1>3, <1>11, <1>12 DEF OfInvite, inviteUsersError
  <1> QED BY <1>4, <1>5, <1>6, <1>7, <1>8, <1>9, <1>10, <1>11 DEF Helpers

(* Nor is what a gateway answers.                                          *)
LEMMA GatewayOf ==
    ASSUME NEW tool \in AllTools, NEW body \in {"json", "other"},
           NEW r, r = [status |-> 502, body |-> body, success |-> FALSE,
                       code |-> "none", state |-> "none", details |-> "none",
                       items |-> {}, failed |-> {}, more |-> FALSE],
           NEW o, o = Understood(tool.call, r)
    PROVE  /\ o \in Outcome
           /\ o.kind \in Uncertain \/ (o.kind = "none_queued" /\ tool = invite_users)
  <1>1. r \in Reply
    BY DEF Reply, Statuses, Codes, Billing
  <1>2. /\ r.status = 502 /\ r.body \in {"json", "other"} /\ r.code = "none" /\ r.state = "none"
        /\ r.details = "none" /\ r.failed = {} /\ ~r.success
    OBVIOUS
  <1>3. PICK method : method = tool.call
    OBVIOUS
  <1>4. method.helper \in Helpers /\ method.paged \in BOOLEAN
    BY <1>3, Apart
  <1>5. method.helper = "status" => method.want # 502
    BY <1>3, ReaderCalls, WriterCalls DEF AllTools, WriteMethods, Method
  <1>6. o \in Outcome /\ o.kind = Raw(method, r).kind
    BY <1>1, <1>3, <1>4, UnderstoodIs
  <1> USE <1>2 DEF Raw, Nothing, Content, StatusError, Uncertain
  <1>7. CASE method.helper = "status"
    BY <1>5, <1>6, <1>7 DEF OfStatus
  <1>8. CASE method.helper = "crm"
    BY <1>6, <1>8 DEF OfStatus, OfCRM
  <1>9. CASE method.helper = "envelope"
    BY <1>6, <1>9 DEF OfEnvelope, EnvelopeError
  <1>10. CASE method.helper = "boxes"
    BY <1>6, <1>10 DEF OfBuyBoxes, EnvelopeError
  <1>11. CASE method.helper = "run"
    BY <1>6, <1>11 DEF OfRunComps
  <1>12. CASE method.helper = "push"
    BY <1>6, <1>12 DEF OfPush
  <1>13. CASE method.helper = "removal"
    BY <1>6, <1>13 DEF OfRemoval
  <1>14. CASE method.helper = "invite"
    <2>1. tool = invite_users
      BY <1>3, <1>14, ReaderCalls, WriterCalls DEF AllTools
    <2> QED BY <1>6, <1>14, <2>1 DEF OfInvite, inviteUsersError
  <1> QED BY <1>4, <1>6, <1>7, <1>8, <1>9, <1>10, <1>11, <1>12, <1>13, <1>14 DEF Helpers

(* A tool that reads returns what it was shown.                            *)
LEMMA ReadIs ==
    ASSUME intent \in Scenarios, NEW i \in Agents, NEW r, Fitting(i, r), r.tool \in Readers,
           NEW e \in Done(i, r), NEW o, o = Understood(r.tool.call, e.reply)
    PROVE  /\ e.reply \in Reply /\ e.made \in SUBSET Things /\ e.reply.success
           /\ o.kind = "ok" /\ o.items = e.made /\ ~intent[i].zero /\ r.tool \notin Writers
           /\ HasRead(intent[i].tool) => o.more \/ Present \subseteq r.seen \cup o.items
  <1>1. PICK rp : rp = e.reply
    OBVIOUS
  <1>2. /\ e.made \in SUBSET Things /\ rp \in Reply
        /\ rp.status = 200 /\ rp.body = "envelope" /\ rp.success
        /\ rp.items = e.made
        /\ \/ ~rp.more /\ Present \subseteq r.seen \cup e.made
           \/ rp.more /\ r.tool.call.does = "list" /\ ~r.next
    BY <1>1, ReadEffect
  <1>3. PICK method : method = r.tool.call
    OBVIOUS
  <1>4. /\ method.helper \in {"status", "crm", "envelope"} /\ method.helper \in Helpers
        /\ method.helper = "status" => method.want = 200
        /\ method.paged \in BOOLEAN
    BY <1>3, ReaderCalls DEF Helpers
  <1>5. Raw(method, rp) = Content("ok", rp)
    <2>1. CASE method.helper = "status"
      BY <1>2, <1>4, <2>1 DEF Raw, OfStatus
    <2>2. CASE method.helper = "crm"
      BY <1>2, <2>2 DEF Raw, OfCRM, OfStatus
    <2>3. CASE method.helper = "envelope"
      BY <1>2, <2>3 DEF Raw, OfEnvelope
    <2> QED BY <1>4, <2>1, <2>2, <2>3
  <1>6. PICK raw : raw = Raw(method, rp)
    OBVIOUS
  <1>7. raw.kind = "ok" /\ raw.items = e.made /\ (raw.more <=> rp.more)
    BY <1>2, <1>5, <1>6 DEF Content
  <1>8. /\ o.kind = raw.kind /\ o.items = raw.items /\ o.failed = raw.failed
        /\ method.paged => o.more = raw.more
    BY <1>1, <1>2, <1>3, <1>4, <1>6, UnderstoodIs
  <1>9. ~intent[i].zero /\ r.tool \notin Writers
    BY FittingIntent, ReaderCalls, Apart
  <1>11. ASSUME HasRead(intent[i].tool) PROVE method.does = "list" => method.paged = TRUE
    <2>1. PICK w : w = intent[i].tool
      OBVIOUS
    <2>2. CASE r.tool = ShownBy[w.name]
      BY <1>3, <1>11, <2>1, <2>2, LookOf
    <2>3. CASE r.tool = w
      BY <1>9, <1>11, <2>1, <2>3, ReaderCalls
    <2>4. CASE r.tool = create_crm_opportunity
      BY <1>9, <2>4, WritersByName
    <2> QED BY <2>1, <2>2, <2>3, <2>4 DEF Fitting
  <1>12. HasRead(intent[i].tool) => o.more \/ Present \subseteq r.seen \cup o.items
    BY <1>2, <1>3, <1>7, <1>8, <1>11
  <1> QED BY <1>1, <1>2, <1>7, <1>8, <1>9, <1>12

(* So it is true.                                                          *)
LEMMA ReadSays ==
    ASSUME intent \in Scenarios, NEW i \in Agents, NEW r, Fitting(i, r), r.tool \in Readers,
           NEW e \in Done(i, r), NEW o, o = Understood(r.tool.call, e.reply)
    PROVE  Says(i, r, o, e.made, e.reply)
  BY ReadIs, SaysOK

(* What is refused, whatever the method, is not reported as done.          *)
LEMMA RefusedIs ==
    ASSUME NEW i, NEW r, r.tool \in AllTools,
           NEW status \in Failing, NEW code \in Codes,
           NEW e, e = Effect({}, No(status, code)), NEW o, o = Understood(r.tool.call, e.reply)
    PROVE  /\ e.reply \in Reply /\ e.made = {}
           /\ o.kind \notin Affirmative
           /\ o.kind \in Again => r.tool = invite_users
  <1>1. PICK method : method = r.tool.call
    OBVIOUS
  <1>2. method.helper \in Helpers /\ method.paged \in BOOLEAN
    BY <1>1, Apart
  <1>0. method.helper = "status" => method.want \in {200, 201}
    BY <1>1, ReaderCalls, WriterCalls DEF AllTools, WriteMethods, Method
  <1>3. e.made = {} /\ e.reply = No(status, code)
    BY EffectIs
  <1>4. status \in Statuses
    BY DEF Statuses, Failing
  <1>5. e.reply \in Reply
    BY <1>3, <1>4, NoType
  <1>6. PICK raw : raw = Raw(method, No(status, code))
    OBVIOUS
  <1>7. o.kind = raw.kind
    BY <1>1, <1>2, <1>3, <1>5, <1>6, UnderstoodIs
  <1>8. raw.kind \notin Affirmative /\ (raw.kind \in Again => method.helper = "invite")
    BY <1>0, <1>2, <1>6, RawNo
  <1>9. method.helper = "invite" => r.tool = invite_users
    BY <1>1, ReaderCalls, WriterCalls DEF AllTools
  <1> QED BY <1>3, <1>5, <1>7, <1>8, <1>9

(* Nor is it said to be.                                                   *)
LEMMA RefusedSays ==
    ASSUME NEW i, NEW r, r.tool \in AllTools,
           NEW status \in Failing, NEW code \in Codes,
           NEW e, e = Effect({}, No(status, code)), NEW o, o = Understood(r.tool.call, e.reply)
    PROVE  Says(i, r, o, {}, e.reply)
  BY RefusedIs, SaysNo

(* Nor is a failure of the API read as success or refusal.                 *)
LEMMA BrokenIs ==
    ASSUME NEW i, NEW r, r.tool \in AllTools, NEW m,
           NEW e, e = Effect(m, No(500, "INTERNAL_ERROR")),
           NEW o, o = Understood(r.tool.call, e.reply)
    PROVE  /\ e.reply \in Reply /\ e.made = m
           /\ o.kind \in Uncertain \cup {"internal_error"}
           /\ Says(i, r, o, m, e.reply)
  <1>1. PICK method : method = r.tool.call
    OBVIOUS
  <1>2. method.helper \in Helpers /\ method.paged \in BOOLEAN
    BY <1>1, Apart
  <1>3. method.helper = "status" => method.want \in {200, 201}
    BY <1>1, ReaderCalls, WriterCalls DEF AllTools, WriteMethods, Method
  <1>4. PICK status \in Failing, code \in Codes : status = 500 /\ code = "INTERNAL_ERROR"
    BY DEF Failing, Codes
  <1>5. e.made = m /\ e.reply = No(status, code)
    BY <1>4, EffectIs
  <1>6. status \in Statuses
    BY <1>4 DEF Statuses
  <1>7. e.reply \in Reply
    BY <1>5, <1>6, NoType
  <1>8. PICK raw : raw = Raw(method, No(status, code))
    OBVIOUS
  <1>9. o.kind = raw.kind
    BY <1>1, <1>2, <1>5, <1>7, <1>8, UnderstoodIs
  <1>10. raw.kind \in Uncertain \cup {"internal_error"}
    BY <1>2, <1>3, <1>4, <1>8, RawNo
  <1>11. Silent(r, o) \/ o.kind = "internal_error"
    BY <1>9, <1>10 DEF Silent
  <1> QED BY <1>5, <1>7, <1>9, <1>10, <1>11, SaysNothing

(* Success with all that was asked for.                                    *)
LEMMA PlainIs ==
    ASSUME NEW i, NEW r, r.things \in SUBSET Things, r.tool \in AllTools,
           NEW method, method = r.tool.call, NEW status \in {200, 201},
           \/ method.helper = "status" /\ method.want = status
           \/ method.helper = "envelope",
           NEW m \in SUBSET Things, IF intent[i].zero THEN m = {} ELSE m = r.things,
           NEW e, e = Effect(m, Yes(status, r.things)), NEW o, o = Understood(method, e.reply)
    PROVE  e.reply \in Reply /\ e.made = m /\ o.kind = "ok" /\ o.items = r.things
  <1>1. method.helper \in Helpers /\ method.paged \in BOOLEAN
    BY Apart
  <1>2. e.made = m /\ e.reply = Yes(status, r.things)
    BY EffectIs
  <1>3. status \in Statuses
    BY DEF Statuses
  <1>4. e.reply \in Reply
    BY <1>2, <1>3, YesType
  <1>5. PICK rp : rp = e.reply
    OBVIOUS
  <1>6. rp.status = status /\ rp.body = "envelope" /\ rp.success /\ rp.items = r.things
    BY <1>2, <1>5, YesIs
  <1>7. Raw(method, rp) = Content("ok", rp)
    <2>1. CASE method.helper = "status" /\ method.want = status
      BY <1>6, <2>1 DEF Raw, OfStatus
    <2>2. CASE method.helper = "envelope"
      BY <1>6, <2>2 DEF Raw, OfEnvelope
    <2> QED BY <2>1, <2>2
  <1>8. o.kind = "ok" /\ o.items = r.things
    <2>1. Raw(method, rp).kind = "ok" /\ Raw(method, rp).items = r.things
      BY <1>6, <1>7 DEF Content
    <2> QED BY <1>1, <1>4, <1>5, <2>1, UnderstoodIs
  <1> QED BY <1>2, <1>4, <1>8

(* A removal.                                                              *)
LEMMA RemovalIs ==
    ASSUME NEW i, NEW r, r.things \in SUBSET Things, r.tool \in AllTools, ~intent[i].zero,
           r.tool.call.helper = "removal",
           NEW e, e = Effect(r.things, Yes(200, {})), NEW o, o = Understood(r.tool.call, e.reply)
    PROVE  e.reply \in Reply /\ e.made = r.things /\ o.kind = "removed"
  <1>1. PICK method : method = r.tool.call
    OBVIOUS
  <1>2. method.helper \in Helpers /\ method.paged \in BOOLEAN
    BY <1>1, Apart
  <1>3. e.made = r.things /\ e.reply = Yes(200, {})
    BY EffectIs
  <1>4. 200 \in Statuses /\ {} \in SUBSET Things
    BY DEF Statuses
  <1>5. e.reply \in Reply
    BY <1>3, <1>4, YesType
  <1>6. PICK rp : rp = e.reply
    OBVIOUS
  <1>7. rp.status = 200
    BY <1>3, <1>6, YesIs
  <1>8. Raw(method, rp).kind = "removed"
    BY <1>1, <1>7 DEF Raw, OfRemoval, Nothing
  <1>9. o.kind = "removed"
    BY <1>1, <1>2, <1>5, <1>6, <1>8, UnderstoodIs
  <1> QED BY <1>3, <1>5, <1>9

(* It is reported as one.                                                  *)
LEMMA RemovalSays ==
    ASSUME NEW i, NEW r, r.things \in SUBSET Things, r.tool \in AllTools, ~intent[i].zero,
           r.tool.call.helper = "removal",
           NEW e, e = Effect(r.things, Yes(200, {})), NEW o, o = Understood(r.tool.call, e.reply)
    PROVE  Says(i, r, o, r.things, e.reply)
  <1>1. o.kind = "removed"
    BY RemovalIs
  <1> QED BY <1>1 DEF Says, LeftOut, Affirmative, Negative, Uncertain, Again

(* A push that makes x.                                                    *)
LEMMA PushIs ==
    ASSUME NEW i, NEW r, r.tool = push_lead_to_crm, ~intent[i].zero,
           r.things \subseteq {"contact", "opportunity"},
           NEW x \in SUBSET Things, "contact" \in x,
           NEW e, e = Effect(x, Yes(201, x)), NEW o, o = Understood(r.tool.call, e.reply)
    PROVE  /\ e.reply \in Reply /\ e.made = x
           /\ o.kind = "created" /\ o.items = x /\ o.failed = {}
  <1>1. PICK method : method = r.tool.call
    OBVIOUS
  <1>2. method.helper = "push" /\ method.helper \in Helpers /\ method.paged \in BOOLEAN
    BY <1>1, WritersByName, Apart DEF AllTools
  <1>3. e.made = x /\ e.reply = Yes(201, x)
    BY EffectIs
  <1>4. 201 \in Statuses
    BY DEF Statuses
  <1>5. e.reply \in Reply
    BY <1>3, <1>4, YesType
  <1>6. PICK rp : rp = e.reply
    OBVIOUS
  <1>7. rp.success /\ rp.items = x /\ rp.body = "envelope" /\ rp.failed = {}
    BY <1>3, <1>6, YesIs
  <1>8. Raw(method, rp) = Content("created", rp)
    BY <1>2, <1>7 DEF Raw, OfPush
  <1>9. o.kind = "created" /\ o.items = x /\ o.failed = {}
    <2>1. /\ Raw(method, rp).kind = "created" /\ Raw(method, rp).items = x
          /\ Raw(method, rp).failed = {}
      BY <1>7, <1>8 DEF Content
    <2> QED BY <1>1, <1>2, <1>5, <1>6, <2>1, UnderstoodIs
  <1> QED BY <1>3, <1>5, <1>9

(* It says so, and what is missing is the opportunity.                     *)
LEMMA PushSays ==
    ASSUME NEW i, NEW r, r.tool = push_lead_to_crm, ~intent[i].zero,
           r.things \subseteq {"contact", "opportunity"},
           NEW x \in SUBSET Things, "contact" \in x,
           NEW e, e = Effect(x, Yes(201, x)), NEW o, o = Understood(r.tool.call, e.reply)
    PROVE  Says(i, r, o, x, e.reply)
  <1>1. o.kind = "created"
    BY PushIs, SMTT(30)
  <1>3. o.items = x
    BY PushIs
  <1>4. o.failed = {}
    BY PushIs
  <1>2. r.things \ x \subseteq {"opportunity"}
    OBVIOUS
  <1> QED BY <1>1, <1>2, <1>3, <1>4 DEF Says, Affirmative, Negative, Uncertain, Again

(* A comps job.                                                            *)
LEMMA RunIs ==
    ASSUME NEW i, NEW r, r.tool = run_comps, ~intent[i].zero, r.things = {"comps"},
           NEW e \in Run, NEW o, o = Understood(r.tool.call, e.reply)
    PROVE  /\ e.reply \in Reply
           /\ \/ e.made = {} /\ o.kind \notin Affirmative \cup Again
              \/ e.made = {"comps"} /\ o.kind = "in_progress" /\ o.items = {"comps"}
  <1>1. PICK method : method = r.tool.call
    OBVIOUS
  <1>2. /\ method.helper = "run" /\ method.helper \in Helpers /\ method.paged \in BOOLEAN
        /\ r.tool \in AllTools
    BY <1>1, WritersByName, Apart DEF AllTools
  <1>3. {"comps"} \in SUBSET Things
    BY ThingsAssumption
  <1>4. CASE e = Effect({"comps"}, [Yes(202, {"comps"}) EXCEPT !.state = "in_progress"])
    <2>1. PICK rp : rp = [Yes(202, {"comps"}) EXCEPT !.state = "in_progress"]
      OBVIOUS
    <2>2. rp \in Reply
      <3>1. 202 \in Statuses
        BY DEF Statuses
      <3>2. Yes(202, {"comps"}) \in Reply
        BY <1>3, <3>1, YesType
      <3> QED BY <2>1, <3>2 DEF Reply
    <2>3. rp.body = "envelope" /\ rp.state = "in_progress" /\ rp.items = {"comps"} /\ rp.failed = {}
      BY <2>1 DEF Yes
    <2>4. e.made = {"comps"} /\ e.reply = rp
      BY <1>4, <2>1, EffectIs
    <2>5. Raw(method, rp) = Content("in_progress", rp)
      BY <1>2, <2>3 DEF Raw, OfRunComps
    <2>6. Raw(method, rp).kind = "in_progress" /\ Raw(method, rp).items = {"comps"}
      BY <2>3, <2>5 DEF Content
    <2>7. o.kind = "in_progress" /\ o.items = {"comps"}
      BY <1>1, <1>2, <2>2, <2>4, <2>6, UnderstoodIs
    <2> QED BY <2>2, <2>4, <2>7
  <1>5. ASSUME NEW status \in {400, 409}, NEW d \in Billing,
               e = Effect({}, [No(status, "none") EXCEPT !.details = d])
        PROVE  e.reply \in Reply /\ e.made = {} /\ o.kind \notin Affirmative \cup Again
    <2>1. PICK rp : rp = [No(status, "none") EXCEPT !.details = d]
      OBVIOUS
    <2>2. rp \in Reply
      <3>1. status \in Statuses /\ "none" \in Codes
        BY DEF Statuses, Codes
      <3>2. No(status, "none") \in Reply
        BY <3>1, NoType
      <3> QED BY <2>1, <3>2 DEF Reply
    <2>3. rp.body = "envelope" /\ rp.state = "none" /\ rp.details = d /\ d # "none"
      BY <2>1 DEF No, Yes, Billing
    <2>4. e.made = {} /\ e.reply = rp
      BY <1>5, <2>1, EffectIs
    <2>5. Raw(method, rp).kind = d
      BY <1>2, <2>3 DEF Raw, OfRunComps, Nothing
    <2>6. o.kind = d
      BY <1>1, <1>2, <2>2, <2>4, <2>5, UnderstoodIs
    <2>7. d \notin Affirmative \cup Again
      BY DEF Billing, Affirmative, Again
    <2> QED BY <2>2, <2>4, <2>6, <2>7
  <1>6. CASE e = Effect({}, No(404, "PROPERTY_NOT_FOUND"))
    <2>1. "PROPERTY_NOT_FOUND" \in Codes
      BY DEF Codes
    <2>2. PICK status \in Failing, code \in Codes :
              status = 404 /\ code = "PROPERTY_NOT_FOUND"
      BY <2>1 DEF Failing
    <2>0. e = Effect({}, No(status, code)) /\ r.tool \in AllTools
      BY <1>2, <1>6, <2>2
    <2>3. r.tool # invite_users
      BY <1>1, <1>2, WritersByName
    <2> QED BY <2>0, <2>3, RefusedIs
  <1>7. "already_in_progress" \in Billing /\ "insufficient_credits" \in Billing
    BY DEF Billing
  <1>8. \/ e = Effect({}, [No(409, "none") EXCEPT !.details = "already_in_progress"])
        \/ e = Effect({"comps"}, [Yes(202, {"comps"}) EXCEPT !.state = "in_progress"])
        \/ e = Effect({}, [No(400, "none") EXCEPT !.details = "insufficient_credits"])
        \/ e = Effect({}, No(404, "PROPERTY_NOT_FOUND"))
    BY DEF Run
  <1>9. CASE e = Effect({}, [No(409, "none") EXCEPT !.details = "already_in_progress"])
    BY <1>5, <1>7, <1>9
  <1>10. CASE e = Effect({}, [No(400, "none") EXCEPT !.details = "insufficient_credits"])
    BY <1>5, <1>7, <1>10
  <1> QED BY <1>4, <1>6, <1>8, <1>9, <1>10

(* It says whether it has started.                                         *)
LEMMA RunSays ==
    ASSUME NEW i, NEW r, r.tool = run_comps, ~intent[i].zero, r.things = {"comps"},
           NEW e \in Run, NEW o, o = Understood(r.tool.call, e.reply)
    PROVE  Says(i, r, o, e.made, e.reply)
  <1>1. CASE e.made = {} /\ o.kind \notin Affirmative \cup Again
    BY <1>1, SaysNo
  <1>2. CASE e.made = {"comps"} /\ o.kind = "in_progress" /\ o.items = {"comps"}
    <2>1. r.things \ e.made \subseteq o.failed
      BY <1>2
    <2>2. o.kind = "in_progress" /\ o.items = e.made
      BY <1>2
    <2> QED BY <2>1, <2>2, SaysOK
  <1> QED BY <1>1, <1>2, RunIs

(* A tool that writes, except by parts, says what it did.                  *)
LEMMA WriteSays ==
    ASSUME intent \in Scenarios, NEW i \in Agents, NEW r, Fitting(i, r), r.tool \in Writers,
           r.tool.call.does # "part",
           NEW e \in Done(i, r), NEW o, o = Understood(r.tool.call, e.reply)
    PROVE  /\ e.reply \in Reply /\ e.made \in SUBSET Things
           /\ Says(i, r, o, e.made, e.reply)
           /\ e.made \cap Present \subseteq r.things
  <1>1. PICK method \in WriteMethods : method = r.tool.call
    BY WriterCalls
  <1>2. /\ r.tool \in AllTools /\ r.things \in SUBSET Things
        /\ intent[i].zero => method.does = "set"
    BY <1>1, FittingIntent DEF AllTools
  <1>4. ASSUME NEW status \in Failing, NEW code \in Codes,
               e = Effect({}, No(status, code))
        PROVE  e.reply \in Reply /\ e.made = {} /\ Says(i, r, o, {}, e.reply)
    <2>1. e.reply \in Reply /\ e.made = {}
      BY <1>2, <1>4, RefusedIs
    <2>2. Says(i, r, o, {}, e.reply)
      BY <1>2, <1>4, RefusedSays
    <2> QED BY <2>1, <2>2
  <1>5. ASSUME NEW status \in {200, 201}, method.helper \in {"status", "envelope"},
               method.helper = "status" => method.want = status,
               NEW m, m = IF intent[i].zero THEN {} ELSE r.things,
               e = Effect(m, Yes(status, r.things))
        PROVE  e.reply \in Reply /\ e.made = m /\ Says(i, r, o, m, e.reply)
    <2>1. m \in SUBSET Things /\ (IF intent[i].zero THEN m = {} ELSE m = r.things)
      BY <1>2, <1>5
    <2>2. e.reply \in Reply /\ e.made = m /\ o.kind = "ok" /\ o.items = r.things
      BY <1>1, <1>2, <1>5, <2>1, PlainIs, SMTT(30)
    <2>3. ~intent[i].zero => o.items = m
      BY <2>1, <2>2
    <2>4. r.tool \in Writers /\ ~intent[i].zero => r.things \ m \subseteq o.failed
      BY <2>1
    <2>5. Says(i, r, o, m, e.reply)
      BY <2>2, <2>3, <2>4, SaysOK
    <2> QED BY <2>2, <2>5
  <1>6. /\ 404 \in Failing /\ 409 \in Failing
        /\ "none" \in Codes /\ "SHARED_USER_NOT_FOUND" \in Codes /\ "ALREADY_IN_CRM" \in Codes
    BY DEF Failing, Codes
  <1>7. CASE method = Method("status", 200, "link", FALSE)
    <2>1. method.helper = "status" /\ method.want = 200 /\ method.does = "link"
      BY <1>7 DEF Method
    <2>2. \/ e = Effect({}, No(409, "none"))
          \/ e = Effect(r.things, Yes(200, r.things))
      BY <1>1, <2>1 DEF Done
    <2> QED BY <1>2, <1>4, <1>5, <1>6, <2>1, <2>2
  <1>8. CASE method.does = "add"
    <2>1. method \in {Method("status", 201, "add", FALSE), Method("envelope", 0, "add", FALSE)}
      BY <1>8 DEF WriteMethods, Method
    <2>2. method.helper \in {"status", "envelope"} /\ method.want \in {0, 201}
          /\ (method.helper = "status" => method.want = 201)
      BY <2>1 DEF Method
    <2>3. e = Effect(r.things, Yes(201, r.things))
      BY <1>1, <1>8, <2>2 DEF Done
    <2>4. ~intent[i].zero /\ method.helper # "push"
      BY <1>2, <1>8, <2>2
    <2>5. e.reply \in Reply /\ e.made = r.things /\ Says(i, r, o, r.things, e.reply)
      BY <1>5, <2>2, <2>3, <2>4
    <2> QED BY <1>2, <2>4, <2>5
  <1>9. CASE method = Method("status", 201, "attach", FALSE)
    <2>1. method.helper = "status" /\ method.want = 201 /\ method.does = "attach"
      BY <1>9 DEF Method
    <2>2. \/ e = Effect({}, No(404, "none"))
          \/ e = Effect(r.things, Yes(201, r.things))
      BY <1>1, <2>1 DEF Done
    <2> QED BY <1>2, <1>4, <1>5, <1>6, <2>1, <2>2
  <1>10. CASE method = Method("envelope", 0, "set", FALSE)
    <2>1. method.helper = "envelope" /\ method.want = 0 /\ method.does = "set"
      BY <1>10 DEF Method
    <2>2. PICK m : m = IF intent[i].zero THEN {} ELSE r.things
      OBVIOUS
    <2>3. e = Effect(m, Yes(201, r.things))
      BY <1>1, <2>1, <2>2 DEF Done
    <2>4. e.reply \in Reply /\ e.made = m /\ Says(i, r, o, m, e.reply)
      BY <1>5, <2>1, <2>2, <2>3
    <2> QED BY <1>2, <2>1, <2>2, <2>4
  <1>11. CASE method = Method("run", 0, "run", FALSE)
    <2>1. method.helper = "run" /\ method.does = "run"
      BY <1>11 DEF Method
    <2>2. r.tool = run_comps /\ ~intent[i].zero
      BY <1>1, <1>2, <2>1, WriterCalls
    <2>3. r.things = {"comps"} /\ e \in Run
      BY <1>1, <2>1, <2>2, FittingIntent DEF Done
    <2>4. e.reply \in Reply /\ e.made \in {{}, {"comps"}} /\ Says(i, r, o, e.made, e.reply)
      BY <2>2, <2>3, RunIs, RunSays
    <2> QED BY <1>2, <2>1, <2>3, <2>4
  <1>12. CASE method = Method("push", 0, "push", FALSE)
    <2>1. method.helper = "push" /\ method.does = "push"
      BY <1>12 DEF Method
    <2>2. r.tool = push_lead_to_crm /\ ~intent[i].zero /\ r.things \subseteq {"contact", "opportunity"}
      BY <1>1, <1>2, <2>1, WriterCalls, FittingIntent
    <2>3. e \in Push(r)
      BY <1>1, <2>1 DEF Done
    <2>4. CASE "contact" \in Present
      <3>1. e = Effect({}, No(409, "ALREADY_IN_CRM"))
        BY <2>3, <2>4 DEF Push
      <3> QED BY <1>2, <1>4, <1>6, <3>1
    <2>5. CASE "contact" \notin Present
      <3>1. PICK x \in {{"contact"}, {"contact"} \cup r.things} : e = Effect(x, Yes(201, x))
        BY <2>3, <2>5 DEF Push
      <3>2. x \in SUBSET Things /\ "contact" \in x /\ x \subseteq {"contact"} \cup r.things
        BY <1>2, ThingsAssumption
      <3>3. e.reply \in Reply /\ e.made = x /\ Says(i, r, o, x, e.reply) /\ o.kind = "created"
        BY <2>2, <3>1, <3>2, PushIs, PushSays
      <3> QED BY <2>5, <3>2, <3>3
    <2> QED BY <2>4, <2>5
  <1>13. CASE method = Method("removal", 200, "unlink", FALSE)
    <2>1. method.helper = "removal" /\ method.does = "unlink"
      BY <1>13 DEF Method
    <2>2. \/ e = Effect({}, No(404, "SHARED_USER_NOT_FOUND"))
          \/ e = Effect(r.things, Yes(200, {}))
      BY <1>1, <2>1 DEF Done
    <2>3. CASE e = Effect(r.things, Yes(200, {}))
      BY <1>1, <1>2, <2>1, <2>3, RemovalIs, RemovalSays
    <2>4. CASE e = Effect({}, No(404, "SHARED_USER_NOT_FOUND"))
      BY <1>4, <1>6, <2>1, <2>4
    <2> QED BY <2>2, <2>3, <2>4
  <1>14. /\ method \in {Method("status", 201, "add", FALSE), Method("envelope", 0, "add", FALSE)}
               => method.does = "add"
         /\ method \in {Method("boxes", 0, "part", FALSE), Method("invite", 0, "part", FALSE)}
               => method.does = "part"
    BY DEF Method
  <1> QED BY <1>1, <1>7, <1>8, <1>9, <1>10, <1>11, <1>12, <1>13, <1>14 DEF WriteMethods

(* Buy boxes: what was made and what failed, or less of both.              *)
LEMMA BoxesIs ==
    ASSUME NEW i, NEW r, r.things \in SUBSET Things, r.tool \in Writers,
           r.tool.call.helper = "boxes",
           NEW e \in Boxes(r), NEW o, o = Understood(r.tool.call, e.reply)
    PROVE  /\ e.reply \in Reply /\ e.made \in SUBSET Things /\ e.made \subseteq r.things
           /\ Says(i, r, o, e.made, e.reply)
  <1>1. PICK method : method = r.tool.call
    OBVIOUS
  <1>2. method.helper = "boxes" /\ method.helper \in Helpers /\ method.paged \in BOOLEAN
    BY <1>1, Apart DEF AllTools
  <1>3. PICK done \in SUBSET (r.things \ Present), body \in {"envelope", "drifted"},
             items \in SUBSET r.things, failed \in SUBSET r.things :
            /\ items \subseteq done /\ failed \subseteq r.things \ done
            /\ body = "envelope" => items = done /\ failed = r.things \ done
            /\ e = Effect(done, BoxesReply(body, done, items, failed))
    <2>0. PICK done \in SUBSET (r.things \ Present) : e \in BoxesFor(done, r.things \ done)
      BY DEF Boxes
    <2>1. \/ e = Effect(done, BoxesReply("envelope", done, done, r.things \ done))
          \/ \E items \in {{}, done}, failed \in {{}, r.things \ done} :
                e = Effect(done, BoxesReply("drifted", done, items, failed))
      BY <2>0 DEF BoxesFor
    <2>2. done \in SUBSET r.things
      OBVIOUS
    <2>3. CASE e = Effect(done, BoxesReply("envelope", done, done, r.things \ done))
      <3>1. PICK rest : rest = r.things \ done
        OBVIOUS
      <3> QED BY <2>2, <2>3, <3>1
    <2>4. CASE \E items \in {{}, done}, failed \in {{}, r.things \ done} :
                    e = Effect(done, BoxesReply("drifted", done, items, failed))
      <3>1. PICK items \in {{}, done}, failed \in {{}, r.things \ done} :
                e = Effect(done, BoxesReply("drifted", done, items, failed))
        BY <2>4
      <3> QED BY <2>2, <3>1
    <2> QED BY <2>1, <2>3, <2>4
  <1>4. PICK status \in {400, 201} : status = IF done = {} THEN 400 ELSE 201
    OBVIOUS
  <1>5. PICK rp : rp = BoxesReply(body, done, items, failed)
    OBVIOUS
  <1>6. e.made = done /\ e.reply = rp
    BY <1>3, <1>4, <1>5, EffectIs
  <1>7. /\ rp.status = status /\ rp.body = body /\ rp.items = items
        /\ rp.failed = failed /\ (rp.success <=> done # {})
    BY <1>4, <1>5 DEF Yes, BoxesReply
  <1>8. rp \in Reply
    <2>1. status \in Statuses /\ items \in SUBSET Things /\ failed \in SUBSET Things
      BY DEF Statuses
    <2>2. Yes(status, items) \in Reply
      BY <2>1, YesType
    <2>3. rp = [Yes(status, items) EXCEPT !.body = body, !.success = done # {}, !.failed = failed]
      BY <1>4, <1>5 DEF BoxesReply
    <2>4. CASE done = {}
      BY <2>1, <2>2, <2>3, <2>4 DEF Reply
    <2>5. CASE done # {}
      BY <2>1, <2>2, <2>3, <2>5 DEF Reply
    <2> QED BY <2>4, <2>5
  <1>9. rp # None
    BY <1>8, NoneAssumption
  <1>10. PICK raw : raw = Raw(method, rp)
    OBVIOUS
  <1>11. o.kind = raw.kind /\ o.items = raw.items /\ o.failed = raw.failed
    BY <1>1, <1>2, <1>6, <1>8, <1>10, UnderstoodIs
  <1>12. CASE done = {} /\ failed = {}
    <2>1. raw.kind = "refused"
      BY <1>2, <1>4, <1>7, <1>10, <1>12 DEF Raw, OfBuyBoxes, EnvelopeError, StatusError, Nothing
    <2>2. Says(i, r, o, {}, rp)
      BY <1>11, <2>1, SaysNo DEF Affirmative, Again
    <2> QED BY <1>6, <1>8, <1>12, <2>2
  <1>13. CASE ~(done = {} /\ failed = {})
    <2>1. raw = Content("ok", rp)
      BY <1>2, <1>7, <1>10, <1>13 DEF Raw, OfBuyBoxes
    <2>2. o.kind = "ok" /\ o.items = items /\ o.failed = failed
      BY <1>7, <1>11, <2>1 DEF Content
    <2>3. CASE body = "envelope"
      <3>1. o.items = done /\ r.things \ done \subseteq o.failed
        BY <1>3, <2>2, <2>3
      <3>2. o.kind \in {"ok", "in_progress"}
        BY <2>2
      <3>3. Says(i, r, o, done, rp)
        BY <3>1, <3>2, SaysOK
      <3> QED BY <1>6, <1>8, <3>3
    <2>4. CASE body = "drifted"
      <3>1. LeftOut(i, rp)
        BY <1>7, <1>9, <2>4 DEF LeftOut
      <3>2. Says(i, r, o, done, rp)
        BY <2>2, <3>1 DEF Says, Affirmative, Negative, Again
      <3> QED BY <1>6, <1>8, <3>2
    <2> QED BY <2>3, <2>4
  <1> QED BY <1>12, <1>13

(* Invitations: what was queued and what was not, or nothing.              *)
LEMMA InvitationsIs ==
    ASSUME NEW i, NEW r, r.things \in SUBSET Things, r.tool = invite_users,
           NEW e \in Invitations(r), NEW o, o = Understood(r.tool.call, e.reply)
    PROVE  /\ e.reply \in Reply /\ e.made \in SUBSET Things /\ e.made \subseteq r.things
           /\ Says(i, r, o, e.made, e.reply)
  <1>1. PICK method : method = r.tool.call
    OBVIOUS
  <1>2. /\ method.helper = "invite" /\ method.helper \in Helpers /\ method.paged \in BOOLEAN
        /\ r.tool \in AllTools
    BY <1>1, WritersByName, Apart DEF AllTools
  <1>3. CASE \E status \in {400, 429, 502} : e = Effect({}, No(status, "none"))
    <2>1. PICK status \in Failing, code \in Codes : e = Effect({}, No(status, code))
      BY <1>3 DEF Failing, Codes
    <2>2. e.reply \in Reply /\ e.made = {}
      BY <1>2, <2>1, RefusedIs
    <2>3. Says(i, r, o, {}, e.reply)
      BY <1>2, <2>1, RefusedSays
    <2> QED BY <2>2, <2>3
  <1>4. ASSUME NEW done \in (SUBSET r.things) \ {{}},
               e = Effect(done, [Yes(202, done) EXCEPT !.failed = r.things \ done])
        PROVE  /\ e.reply \in Reply /\ e.made \in SUBSET Things /\ e.made \subseteq r.things
               /\ Says(i, r, o, e.made, e.reply)
    <2>1. PICK rp : rp = [Yes(202, done) EXCEPT !.failed = r.things \ done]
      OBVIOUS
    <2>2. e.made = done /\ e.reply = rp
      BY <1>4, <2>1, EffectIs
    <2>3. rp.status = 202 /\ rp.body = "envelope" /\ rp.items = done /\ rp.failed = r.things \ done
      BY <2>1 DEF Yes
    <2>4. rp \in Reply
      <3>1. 202 \in Statuses /\ done \in SUBSET Things /\ r.things \ done \in SUBSET Things
        BY DEF Statuses
      <3>2. Yes(202, done) \in Reply
        BY <3>1, YesType
      <3> QED BY <2>1, <3>1, <3>2 DEF Reply
    <2>5. Raw(method, rp) = Content("ok", rp)
      BY <1>2, <2>3 DEF Raw, OfInvite
    <2>6. /\ Raw(method, rp).kind = "ok" /\ Raw(method, rp).items = done
          /\ Raw(method, rp).failed = r.things \ done
      BY <2>3, <2>5 DEF Content
    <2>7. o.kind = "ok" /\ o.items = done /\ o.failed = r.things \ done
      BY <1>1, <1>2, <2>2, <2>4, <2>6, UnderstoodIs
    <2>8. o.kind \in {"ok", "in_progress"} /\ o.items = done /\ r.things \ done \subseteq o.failed
      BY <2>7
    <2>9. Says(i, r, o, done, rp)
      BY <2>8, SaysOK
    <2> QED BY <2>2, <2>4, <2>9
  <1>5. \/ \E status \in {400, 429, 502} : e = Effect({}, No(status, "none"))
        \/ \E done \in (SUBSET r.things) \ {{}} :
              e = Effect(done, [Yes(202, done) EXCEPT !.failed = r.things \ done])
    BY DEF Invitations
  <1> QED BY <1>3, <1>4, <1>5

(* A tool that writes by parts says which.                                 *)
LEMMA PartSays ==
    ASSUME intent \in Scenarios, NEW i \in Agents, NEW r, Fitting(i, r), r.tool \in Writers,
           r.tool.call.does = "part",
           NEW e \in Done(i, r), NEW o, o = Understood(r.tool.call, e.reply)
    PROVE  /\ e.reply \in Reply /\ e.made \in SUBSET Things /\ e.made \subseteq r.things
           /\ Says(i, r, o, e.made, e.reply)
  <1>1. PICK method \in WriteMethods : method = r.tool.call
    BY WriterCalls
  <1>2. r.things \in SUBSET Things
    BY FittingIntent
  <1>3. method.helper \in {"boxes", "invite"}
    BY <1>1 DEF WriteMethods, Method
  <1>4. e \in IF method.helper = "boxes" THEN Boxes(r) ELSE Invitations(r)
    BY <1>1 DEF Done
  <1>5. CASE method.helper = "boxes"
    BY <1>1, <1>2, <1>4, <1>5, BoxesIs
  <1>6. CASE method.helper = "invite"
    <2>1. r.tool = invite_users
      BY <1>1, <1>6, WriterCalls
    <2> QED BY <1>2, <1>4, <1>6, <2>1, InvitationsIs
  <1> QED BY <1>3, <1>5, <1>6

(* Whatever the backend does that it was asked, the client says so.        *)
LEMMA DoneSays ==
    ASSUME intent \in Scenarios, NEW i \in Agents, NEW r, Fitting(i, r),
           NEW e \in Done(i, r), NEW o, o = Understood(r.tool.call, e.reply)
    PROVE  /\ e.reply \in Reply /\ e.made \in SUBSET Things
           /\ r.tool \in Writers => e.made \cap Present \subseteq r.things
           /\ Says(i, r, o, e.made, e.reply)
  <1>1. r.tool \in Writers \/ r.tool \in Readers
    BY FittingIntent DEF AllTools
  <1>2. CASE r.tool \in Readers
    <2>1. r.tool \notin Writers
      BY <1>2, Apart DEF AllTools
    <2> QED BY <1>2, <2>1, ReadIs, ReadSays
  <1>3. CASE r.tool \in Writers /\ r.tool.call.does = "part"
    BY <1>3, PartSays
  <1>4. CASE r.tool \in Writers /\ r.tool.call.does # "part"
    BY <1>4, WriteSays
  <1> QED BY <1>1, <1>2, <1>3, <1>4

(* Whatever it answers, if it is asked, refuses or breaks.                 *)
Answered(i, r) == Done(i, r) \cup Refused \cup Broken(i, r)

(* What breaks has done nothing, or a part of what was asked.              *)
LEMMA BrokenMade ==
    ASSUME NEW i, NEW r, NEW e \in Broken(i, r)
    PROVE  \E m : /\ e = Effect(m, No(500, "INTERNAL_ERROR"))
                  /\ m = {} \/ (r.tool \notin Readers /\ \E d \in Done(i, r) : m = d.made)
  <1>1. CASE r.tool \in Readers
    BY <1>1 DEF Broken
  <1>2. CASE r.tool \notin Readers
    BY <1>2 DEF Broken
  <1> QED BY <1>1, <1>2

(* The client says what was done, or nothing.                              *)
LEMMA Answers ==
    ASSUME intent \in Scenarios, NEW i \in Agents, NEW r, Fitting(i, r),
           NEW e \in Answered(i, r), NEW o, o = Understood(r.tool.call, e.reply)
    PROVE  /\ e.reply \in Reply /\ e.made \in SUBSET Things
           /\ r.tool \in Writers => e.made \cap Present \subseteq r.things
           /\ Says(i, r, o, e.made, e.reply)
  <1>1. r.tool \in AllTools
    BY FittingIntent
  <1>2. CASE e \in Done(i, r)
    BY <1>2, DoneSays
  <1>3. CASE e \in Refused
    <2>1. PICK status \in Failing, code \in Codes : e = Effect({}, No(status, code))
      BY <1>3 DEF Refused, Codes, Failing
    <2>2. e.reply \in Reply /\ e.made = {}
      BY <1>1, <2>1, RefusedIs
    <2>3. Says(i, r, o, {}, e.reply)
      BY <1>1, <2>1, RefusedSays
    <2> QED BY <2>2, <2>3
  <1>4. CASE e \in Broken(i, r)
    <2>1. PICK m : /\ e = Effect(m, No(500, "INTERNAL_ERROR"))
                   /\ m = {} \/ \E d \in Done(i, r) : m = d.made
      BY <1>4, BrokenMade
    <2>2. e.reply \in Reply /\ e.made = m /\ Says(i, r, o, m, e.reply)
      BY <1>1, <2>1, BrokenIs
    <2>3. m \in SUBSET Things /\ (r.tool \in Writers => m \cap Present \subseteq r.things)
      <3>1. ASSUME NEW d \in Done(i, r), m = d.made
            PROVE  m \in SUBSET Things /\ (r.tool \in Writers => m \cap Present \subseteq r.things)
        BY <3>1, DoneSays
      <3> QED BY <2>1, <3>1
    <2> QED BY <2>2, <2>3
  <1> QED BY <1>2, <1>3, <1>4 DEF Answered

(* A read that shows something shows all there is, or a cursor.            *)
LEMMA ReadAnswers ==
    ASSUME intent \in Scenarios, NEW i \in Agents, NEW r, Fitting(i, r), r.tool \in Readers,
           HasRead(intent[i].tool),
           NEW e \in Answered(i, r), NEW o, o = Understood(r.tool.call, e.reply),
           o.kind = "ok"
    PROVE  o.more \/ Present \subseteq r.seen \cup o.items
  <1>1. r.tool \in AllTools
    BY DEF AllTools
  <1>2. CASE e \in Done(i, r)
    BY <1>2, ReadIs
  <1>3. CASE e \in Refused
    <2>1. PICK status \in Failing, code \in Codes : e = Effect({}, No(status, code))
      BY <1>3 DEF Refused, Codes, Failing
    <2>2. o.kind \notin Affirmative
      BY <1>1, <2>1, RefusedIs
    <2> QED BY <2>2 DEF Affirmative
  <1>4. CASE e \in Broken(i, r)
    <2>1. PICK m : e = Effect(m, No(500, "INTERNAL_ERROR"))
      BY <1>4, BrokenMade
    <2>2. o.kind \in Uncertain \cup {"internal_error"}
      BY <1>1, <2>1, BrokenIs
    <2> QED BY <2>2 DEF Uncertain
  <1> QED BY <1>2, <1>3, <1>4 DEF Answered

-----------------------------------------------------------------------------
(* What an agent asks for next. *)

(* A request for the tool of the intent, or for the read that shows it.    *)
LEMMA FirstFits ==
    ASSUME intent \in Scenarios, NEW i \in Agents
    PROVE  /\ Fitting(i, Wish(i)) /\ Wish(i).tool = intent[i].tool
           /\ Wish(i).things = intent[i].things
           /\ HasRead(intent[i].tool) =>
                 /\ Fitting(i, Look(i)) /\ Look(i).tool \in Readers
                 /\ Look(i).tool.call.does \notin Adding
           /\ intent[i].tool.name \in LookFirst => HasRead(intent[i].tool)
  <1>1. /\ intent[i] \in Intent /\ Sensible(intent[i]) /\ intent[i].tool \in AllTools
        /\ intent[i].things \in SUBSET Things
    BY ScenariosAssumption DEF Intent
  <1>2. Wish(i) \in Request /\ Wish(i).tool = intent[i].tool /\ Wish(i).things = intent[i].things
    BY <1>1 DEF Wish, First, Request
  <1>3. Fitting(i, Wish(i))
    BY <1>1, <1>2 DEF Fitting, Sensible
  <1>4. PICK w : w = intent[i].tool
    OBVIOUS
  <1>5. ASSUME HasRead(w)
        PROVE  /\ Fitting(i, Look(i)) /\ Look(i).tool \in Readers
               /\ Look(i).tool.call.does \notin Adding
    <2>1. PICK look : look = ShownBy[w.name]
      OBVIOUS
    <2>2. look \in Readers
      BY <1>5, <2>1, LookOf
    <2>3. look \in AllTools /\ look.call.does \notin Adding /\ look # run_comps
      BY <2>2, ReaderCalls, Apart, WritersByName DEF AllTools, Adding
    <2>4. Look(i) \in Request /\ Look(i).tool = look
      BY <1>4, <2>1, <2>3 DEF Look, First, Request
    <2> QED BY <1>4, <1>5, <2>1, <2>2, <2>3, <2>4 DEF Fitting
  <1>6. w.name \in LookFirst => HasRead(w)
    BY <1>1, <1>4, ReaderCalls, WriterCalls DEF AllTools
  <1> QED BY <1>2, <1>3, <1>4, <1>5, <1>6

(* The request for an opportunity that is missing.                         *)
LEMMA RetryFits ==
    ASSUME NEW i \in Agents, intent[i].tool = push_lead_to_crm,
           "opportunity" \in intent[i].things
    PROVE  /\ Fitting(i, RetryOpportunity)
           /\ RetryOpportunity.tool = create_crm_opportunity
           /\ RetryOpportunity.things = {"opportunity"}
  <1>1. create_crm_opportunity \in AllTools /\ create_crm_opportunity # run_comps
    BY WritersByName, WriterCalls DEF AllTools, WriteMethods, Method
  <1>2. {"opportunity"} \in SUBSET Things
    BY ThingsAssumption
  <1>3. /\ RetryOpportunity \in Request
        /\ RetryOpportunity.tool = create_crm_opportunity
        /\ RetryOpportunity.things = {"opportunity"}
    BY <1>1, <1>2 DEF RetryOpportunity, First, Request
  <1> QED BY <1>1, <1>3 DEF Fitting

(* What follows a call fits as the call did.                               *)
LEMMA NextFits ==
    ASSUME Inv, NEW i \in Agents, NEW k \in 1..MaxCalls, NEW r \in NextCalls(i, k),
           k > 1 => asked[<<i, k - 1>>] # None
    PROVE  Fitting(i, r)
  <1>1. intent \in Scenarios /\ intent[i] \in Intent /\ Sensible(intent[i])
    BY ScenariosAssumption DEF Inv
  <1>2. CASE k = 1
    BY <1>1, <1>2, FirstFits DEF NextCalls, FirstCall
  <1>3. CASE k > 1
    <2>1. PICK c : c = <<i, k - 1>>
      OBVIOUS
    <2>2. c \in Calls /\ c[1] = i
      BY <1>3, <2>1, MaxCallsAssumption DEF Calls
    <2>3. PICK p, o : p = asked[c] /\ o = outcome[c]
      OBVIOUS
    <2>4. Fitting(i, p) /\ p \in Request
      BY <1>3, <2>1, <2>2, <2>3 DEF Inv, CallInv, Fitting
    <2>5. o # None /\ r \in (IF p.tool \in Readers THEN AfterRead(i, p, o) ELSE AfterWrite(i, p, o))
      BY <1>3, <2>1, <2>3 DEF NextCalls
    <2>6. o \in Outcome /\ Says(i, p, o, made[c], reply[c])
      BY <2>2, <2>3, <2>5 DEF Inv, TypeOK, CallInv
    <2>7. o.items \in SUBSET Things /\ o.failed \in SUBSET Things
      BY <2>6 DEF Outcome
    <2>8. CASE p.tool \in Readers
      <3>1. \/ r = p
            \/ r = NextPage(p, o.items)
            \/ /\ r = First(intent[i].tool, intent[i].things \ (p.seen \cup o.items))
               /\ ~(intent[i].things \subseteq p.seen \cup o.items)
        BY <2>5, <2>8 DEF AfterRead
      <3>2. CASE r = NextPage(p, o.items)
        <4>1. r \in Request /\ r.tool = p.tool /\ r.things = p.things
          BY <2>4, <2>7, <3>2 DEF NextPage, Request
        <4> QED BY <2>4, <4>1 DEF Fitting
      <3>3. CASE /\ r = First(intent[i].tool, intent[i].things \ (p.seen \cup o.items))
                 /\ ~(intent[i].things \subseteq p.seen \cup o.items)
        <4>1. /\ r \in Request /\ r.tool = intent[i].tool
              /\ r.things = intent[i].things \ (p.seen \cup o.items)
          BY <1>1, <3>3 DEF First, Request, Intent
        <4>2. r.tool = run_comps => "comps" \in r.things
          BY <1>1, <3>3, <4>1 DEF Sensible
        <4> QED BY <4>1, <4>2 DEF Fitting
      <3> QED BY <2>4, <3>1, <3>2, <3>3
    <2>9. CASE p.tool \notin Readers
      <3>1. \/ HasRead(p.tool) /\ r = Look(i)
            \/ r = p
            \/ p.tool = invite_users /\ r = First(p.tool, o.failed)
            \/ /\ r = RetryOpportunity /\ o.kind = "created"
               /\ "opportunity" \in p.things \ o.items
        BY <2>5, <2>9 DEF AfterWrite
      <3>2. p.tool \in Writers
        BY <1>1, <2>4, <2>9, FittingIntent DEF AllTools
      <3>3. CASE HasRead(p.tool) /\ r = Look(i)
        <4>1. p.tool = intent[i].tool
          BY <1>1, <2>4, <2>9, <3>2, <3>3, LookOf, WriterCalls DEF Fitting
        <4> QED BY <1>1, <3>3, <4>1, FirstFits
      <3>4. CASE p.tool = invite_users /\ r = First(p.tool, o.failed)
        <4>1. r \in Request /\ r.tool = invite_users
          BY <2>7, <3>2, <3>4 DEF First, Request, AllTools
        <4>2. invite_users # run_comps /\ invite_users # create_crm_opportunity
          BY WritersByName DEF Method
        <4>3. intent[i].tool = invite_users
          BY <2>4, <2>9, <3>4, <4>2, LookOf DEF Fitting
        <4> QED BY <4>1, <4>2, <4>3 DEF Fitting
      <3>5. CASE /\ r = RetryOpportunity /\ o.kind = "created"
                 /\ "opportunity" \in p.things \ o.items
        <4>1. p.tool = push_lead_to_crm
          BY <2>6, <3>5 DEF Says
        <4>2. intent[i].tool = push_lead_to_crm
          BY <1>1, <2>4, <4>1, FittingIntent
        <4>3. p.things \subseteq intent[i].things
          BY <1>1, <2>4, <4>1, FittingIntent, WritersByName, WriterCalls DEF WriteMethods, Method, Adding
        <4> QED BY <3>5, <4>2, <4>3, RetryFits
      <3> QED BY <2>4, <3>1, <3>3, <3>4, <3>5
    <2> QED BY <2>8, <2>9
  <1> QED BY <1>2, <1>3

(* What an agent that is not outdated adds is not there, as far as it can  *)
(* know.                                                                   *)
LEMMA NextUnknown ==
    ASSUME Inv, NEW i \in Agents, i \notin outdated, NEW k \in 1..MaxCalls, NEW r \in NextCalls(i, k),
           IF k = 1 THEN asked[<<i, 1>>] = None ELSE Last(i, k - 1),
           r.tool.call.does \in Adding, NEW t \in r.things \cap There(i)
    PROVE  UnheardOf(i, t)
  <1>1. intent \in Scenarios /\ intent[i] \in Intent /\ Sensible(intent[i]) /\ LookedInv(i)
    BY ScenariosAssumption DEF Inv
  <1>2. CASE k = 1
    <2>1. r = Wish(i)
      BY <1>1, <1>2, FirstFits DEF NextCalls, FirstCall
    <2>2. There(i) = {}
      BY <1>1, <1>2 DEF LookedInv
    <2> QED BY <2>2
  <1>3. CASE k > 1
    <2>1. PICK c : c = <<i, k - 1>>
      OBVIOUS
    <2>2. c \in Calls /\ c[1] = i /\ k - 1 \in 1..MaxCalls
      BY <1>3, <2>1, MaxCallsAssumption DEF Calls
    <2>3. PICK p, o : p = asked[c] /\ o = outcome[c]
      OBVIOUS
    <2>0. Last(i, k - 1) /\ p # None
      BY <1>3, <2>1, <2>3 DEF Last
    <2>4. Fitting(i, p)
      BY <2>0, <2>2, <2>3 DEF Inv, CallInv
    <2>5. o # None /\ r \in (IF p.tool \in Readers THEN AfterRead(i, p, o) ELSE AfterWrite(i, p, o))
      BY <1>3, <2>1, <2>3 DEF NextCalls
    <2>6. Says(i, p, o, made[c], reply[c])
      BY <2>2, <2>3, <2>5 DEF Inv, CallInv
    <2>7. /\ p.tool.call.does \in Adding /\ ~HasRead(p.tool) => Unknown(i, c)
          /\ (HasRead(intent[i].tool) /\ p.tool \in Readers /\ o.kind = "ok") => Seen(i, p, o)
      BY <1>1, <2>0, <2>1, <2>2, <2>3, <2>5 DEF LookedInv, Looked
    <2>8. CASE p.tool \in Readers
      <3>1. \/ r.tool = p.tool
            \/ /\ r = First(intent[i].tool, intent[i].things \ (p.seen \cup o.items))
               /\ o.kind = "ok" /\ ~o.more /\ intent[i].tool \notin Readers
        <4>1. \/ r = p
              \/ r = NextPage(p, o.items)
              \/ /\ r = First(intent[i].tool, intent[i].things \ (p.seen \cup o.items))
                 /\ o.kind = "ok" /\ ~o.more /\ intent[i].tool \notin Readers
          BY <2>5, <2>8 DEF AfterRead
        <4>2. r = NextPage(p, o.items) => r.tool = p.tool
          BY <2>4 DEF NextPage, Fitting, Request
        <4> QED BY <4>1, <4>2
      <3>2. r.tool # p.tool
        BY <2>8, ReaderCalls DEF Adding
      <3>3. HasRead(intent[i].tool)
        BY <2>4, <2>8, <3>1, <3>2, WritersByName, Apart DEF Fitting, AllTools
      <3>4. There(i) \subseteq p.seen \cup o.items
        BY <2>7, <2>8, <3>1, <3>2, <3>3 DEF Seen
      <3> QED BY <3>1, <3>2, <3>4 DEF First
    <2>9. CASE p.tool \notin Readers
      <3>1. p.tool \in Writers
        BY <1>1, <2>4, <2>9, FittingIntent DEF AllTools
      <3>2. \/ HasRead(p.tool) /\ r = Look(i)
            \/ ~HasRead(p.tool) /\ r = p /\ o.kind \in Uncertain
            \/ r = p /\ o.kind \in Again
            \/ p.tool = invite_users /\ r.tool = invite_users
            \/ /\ r = RetryOpportunity /\ o.kind = "created"
               /\ "opportunity" \in p.things \ o.items
        BY <2>5, <2>9 DEF AfterWrite, First
      <3>3. CASE HasRead(p.tool) /\ r = Look(i)
        <4>1. p.tool = intent[i].tool
          BY <2>4, <2>9, <3>1, <3>3, LookOf, WriterCalls DEF Fitting
        <4> QED BY <1>1, <3>3, <4>1, FirstFits
      <3>4. CASE ~HasRead(p.tool) /\ r = p /\ o.kind \in Uncertain
        <4>1. t \in made[c] \/ UnheardOf(i, t)
          BY <2>3, <2>7, <3>4 DEF Unknown
        <4>2. t \in made[c] => UnheardOf(i, t)
          BY <2>1, <2>2, <2>3, <2>5, <3>4 DEF UnheardOf
        <4> QED BY <4>1, <4>2
      <3>7. r = p /\ o.kind \in Again => p.tool = invite_users /\ r.tool = invite_users
        BY <2>6 DEF Says
      <3>5. CASE p.tool = invite_users /\ r.tool = invite_users
        BY <3>5, WritersByName, WriterCalls DEF WriteMethods, Method, Adding
      <3>6. CASE /\ r = RetryOpportunity /\ o.kind = "created"
                 /\ "opportunity" \in p.things \ o.items
        <4>1. p.tool = push_lead_to_crm
          BY <2>6, <3>6 DEF Says
        <4>2. p.tool.call.does \in Adding /\ ~HasRead(p.tool)
          BY <4>1, WritersByName, WriterCalls DEF WriteMethods, Method, Adding
        <4>4. o.items = made[c]
          BY <2>6, <3>6 DEF Says
        <4>5. t = "opportunity"
          BY <3>6 DEF RetryOpportunity, First
        <4> QED BY <2>3, <2>7, <3>6, <4>2, <4>4, <4>5 DEF Unknown
      <3> QED BY <3>2, <3>3, <3>4, <3>5, <3>6, <3>7
    <2> QED BY <2>8, <2>9
  <1> QED BY <1>2, <1>3

-----------------------------------------------------------------------------
(* The inductive invariant. *)

(* It holds at the start.                                                  *)
LEMMA Starts == Init => Inv
  <1> SUFFICES ASSUME Init PROVE Inv
    OBVIOUS
  <1>1. intent \in Scenarios /\ intent \in [Agents -> Intent]
    BY ScenariosAssumption DEF Init
  <1>2. TypeOK
    <2>1. there \in [Things -> Nat]
      BY DEF Init
    <2>2. running \in BOOLEAN
      BY Zenon DEF Init
    <2> QED BY <1>1, <2>1, <2>2 DEF Init, TypeOK
  <1>4. ASSUME NEW c \in Calls PROVE CallInv(c)
    BY <1>4 DEF CallInv, Init
  <1>5. ASSUME NEW i \in Agents PROVE OrderInv(i)
    BY <1>5 DEF OrderInv, Init, Calls
  <1>6. ASSUME NEW i \in Agents PROVE LookedInv(i)
    <2>1. i \notin outdated => There(i) = {}
      <3>1. \A t \in intent[i].things : t \in Things
        BY <1>1 DEF Intent
      <3> QED BY <3>1 DEF There, Init
    <2>2. \A k \in 1..MaxCalls : ~Last(i, k)
      BY DEF Last, Init, Calls
    <2> QED BY <2>1, <2>2 DEF LookedInv
  <1> QED BY <1>1, <1>2, <1>4, <1>5, <1>6 DEF Inv

(* What a step leaves alone stays so: a call,                              *)
LEMMA CallSame ==
    ASSUME NEW c \in Calls, CallInv(c), intent' = intent,
           asked'[c] = asked[c], wire'[c] = wire[c], reply'[c] = reply[c],
           outcome'[c] = outcome[c], made'[c] = made[c]
    PROVE  CallInv(c)'
  <1>1. PICK o : o = Understood(asked[c].tool.call, reply[c])
    OBVIOUS
  <1>2. o = Understood(asked[c].tool.call, reply[c])'
    BY <1>1
  <1>3. \A r : Fitting(c[1], r) <=> Fitting(c[1], r)'
    BY DEF Fitting
  <1>4. \A r, x, m, p : Says(c[1], r, x, m, p) <=> Says(c[1], r, x, m, p)'
    BY DEF Says, LeftOut
  <1> QED BY <1>1, <1>2, <1>3, <1>4 DEF CallInv

(* an unanswered call,                                                     *)
LEMMA UnheardSame ==
    ASSUME NEW i \in Agents, NEW t, UnheardOf(i, t),
           \A k \in 1..MaxCalls : t \in made[<<i, k>>] /\ outcome[<<i, k>>] # None =>
               /\ asked'[<<i, k>>] = asked[<<i, k>>] /\ outcome'[<<i, k>>] = outcome[<<i, k>>]
               /\ t \in made'[<<i, k>>]
    PROVE  UnheardOf(i, t)'
  BY DEF UnheardOf, HasRead

(* the last call of an agent,                                              *)
LEMMA LookedSame ==
    ASSUME NEW i \in Agents, NEW c, Looked(i, c), intent' = intent,
           There(i)' = There(i), asked'[c] = asked[c], wire'[c] = wire[c],
           reply'[c] = reply[c], outcome'[c] = outcome[c], made'[c] = made[c],
           \A t : UnheardOf(i, t) => UnheardOf(i, t)'
    PROVE  Looked(i, c)'
  <1>1. PICK o : o = Understood(asked[c].tool.call, reply[c])
    OBVIOUS
  <1>2. o = Understood(asked[c].tool.call, reply[c])'
    BY <1>1
  <1>3. Unknown(i, c) => Unknown(i, c)'
    BY DEF Unknown
  <1> QED BY <1>1, <1>2, <1>3 DEF Looked, Seen

(* an agent.                                                               *)
LEMMA AgentSame ==
    ASSUME NEW i \in Agents, LookedInv(i), intent' = intent,
           There(i)' = There(i), i \in outdated => i \in outdated',
           \A k \in 1..MaxCalls :
               /\ asked'[<<i, k>>] = asked[<<i, k>>] /\ wire'[<<i, k>>] = wire[<<i, k>>]
               /\ reply'[<<i, k>>] = reply[<<i, k>>] /\ outcome'[<<i, k>>] = outcome[<<i, k>>]
               /\ made'[<<i, k>>] = made[<<i, k>>]
    PROVE  LookedInv(i)'
  <1> SUFFICES ASSUME i \notin outdated' PROVE LookedInv(i)'
    BY DEF LookedInv
  <1>0. i \notin outdated
    OBVIOUS
  <1>1. asked'[<<i, 1>>] = None => There(i)' = {}
    BY <1>0, MaxCallsAssumption DEF LookedInv
  <1>2. ASSUME NEW k \in 1..MaxCalls, Last(i, k)'
        PROVE  Looked(i, <<i, k>>)'
    <2>0. PICK c : c = <<i, k>>
      OBVIOUS
    <2>1. Last(i, k)
      BY <1>2 DEF Last
    <2>2. Looked(i, c)
      BY <1>0, <2>0, <2>1 DEF LookedInv
    <2>3. /\ asked'[c] = asked[c] /\ wire'[c] = wire[c] /\ reply'[c] = reply[c]
          /\ outcome'[c] = outcome[c] /\ made'[c] = made[c]
      BY <2>0
    <2>4. \A t : UnheardOf(i, t) => UnheardOf(i, t)'
      BY UnheardSame
    <2> QED BY <2>0, <2>2, <2>3, <2>4, LookedSame
  <1> QED BY <1>1, <1>2 DEF LookedInv

(* A call is asked for after those before it have returned, so there is    *)
(* only one underway.                                                      *)
LEMMA OneUnderway ==
    ASSUME Inv, NEW i \in Agents, NEW k \in 1..MaxCalls, asked[<<i, k>>] # None,
           outcome[<<i, k>>] = None
    PROVE  /\ Last(i, k) /\ asked[<<i, 1>>] # None
           /\ \A l \in 1..MaxCalls : Last(i, l) => l = k
  <1>1. OrderInv(i)
    BY DEF Inv
  <1>2. 1 \in 1..MaxCalls
    BY MaxCallsAssumption
  <1>3. asked[<<i, 1>>] # None
    BY <1>1, <1>2 DEF OrderInv
  <1>4. \A l \in 1..MaxCalls : l > k => asked[<<i, l>>] = None
    BY <1>1 DEF OrderInv
  <1>5. ASSUME NEW l \in 1..MaxCalls, Last(i, l) PROVE l = k
    BY <1>4, <1>5 DEF Last
  <1> QED BY <1>3, <1>4, <1>5 DEF Last

(* A call that is asked for keeps it.                                      *)
LEMMA CallKeeps ==
    ASSUME Inv, NEW i \in Agents, NEW k \in 1..MaxCalls, Call(i, k)
    PROVE  Inv'
  <1>0. PICK c : c = <<i, k>>
    OBVIOUS
  <1>1. c \in Calls /\ c[1] = i
    BY <1>0 DEF Calls
  <1>2. PICK r \in NextCalls(i, k) :
           /\ asked' = [asked EXCEPT ![c] = r]
           /\ \/ wire' = [wire EXCEPT ![c] = "sent"] /\ outcome' = outcome
              \/ outcome' = [outcome EXCEPT ![c] = Nothing("invalid")] /\ wire' = wire
    BY <1>0 DEF Call
  <1>3. /\ asked[c] = None /\ wire[c] = "none" /\ outcome[c] = None
        /\ made[c] = {} /\ reply[c] = None
        /\ k > 1 => asked[<<i, k - 1>>] # None
    BY <1>0, <1>1 DEF Call, Inv, CallInv
  <1>4. /\ intent' = intent /\ reply' = reply /\ made' = made /\ late' = late
        /\ there' = there /\ running' = running /\ outdated' = outdated
    BY DEF Call, backend
  <1>5. Fitting(i, r) /\ r \in Request /\ r # None
    <2>1. Fitting(i, r)
      BY <1>0, <1>3, NextFits
    <2> QED BY <2>1, NoneAssumption DEF Fitting
  <1>6. Nothing("invalid") \in Outcome /\ Nothing("invalid").kind = "invalid"
    BY DEF Nothing, Outcome, Kinds
  <1>7. TypeOK /\ intent \in Scenarios
    BY DEF Inv
  <1>8. /\ asked'[c] = r /\ \A d \in Calls : d # c => asked'[d] = asked[d]
        /\ \/ wire'[c] = "sent" /\ outcome'[c] = None
           \/ wire'[c] = "none" /\ outcome'[c] = Nothing("invalid")
        /\ \A d \in Calls : d # c => wire'[d] = wire[d] /\ outcome'[d] = outcome[d]
    BY <1>1, <1>2, <1>3, <1>7 DEF TypeOK
  <1>9. TypeOK'
    BY <1>1, <1>2, <1>4, <1>5, <1>6, <1>7 DEF TypeOK
  <1>11. ASSUME NEW d \in Calls PROVE CallInv(d)'
    <2>1. CASE d # c
      BY <1>4, <1>8, <2>1, CallSame DEF Inv
    <2>2. CASE d = c
      <3>1. Says(i, r, Nothing("invalid"), {}, None)
        BY <1>6, SaysNo DEF Affirmative, Again
      <3>2. Fitting(i, r)'
        BY <1>4, <1>5 DEF Fitting
      <3>3. Says(i, r, Nothing("invalid"), {}, None)'
        BY <1>4, <3>1 DEF Says, LeftOut
      <3>4. /\ asked'[c] = r /\ made'[c] = {} /\ reply'[c] = None /\ c[1] = i
            /\ wire'[c] \in {"none", "sent"}
            /\ outcome'[c] # None => outcome'[c] = Nothing("invalid") /\ wire'[c] = "none"
            /\ wire'[c] = "none" => outcome'[c] = Nothing("invalid")
        BY <1>1, <1>3, <1>4, <1>8
      <3> QED BY <1>5, <1>6, <2>2, <3>2, <3>3, <3>4 DEF CallInv
    <2> QED BY <2>1, <2>2
  <1>12. \A j \in Agents, l \in 1..MaxCalls :
            /\ <<j, l>> \in Calls
            /\ <<j, l>> = c <=> j = i /\ l = k
    BY <1>0 DEF Calls
  <1>13. /\ \A l \in 1..MaxCalls : l > k => asked[<<i, l>>] = None
         /\ OrderInv(i)
    BY <1>0, <1>3 DEF Inv, OrderInv
  <1>14. ASSUME k > 1
         PROVE  k - 1 \in 1..MaxCalls /\ outcome[<<i, k - 1>>] # None
    BY <1>3, <1>14, MaxCallsAssumption DEF NextCalls
  <1>15. ASSUME NEW j \in Agents PROVE OrderInv(j)'
    <2>1. CASE j # i
      BY <1>8, <1>12, <2>1 DEF Inv, OrderInv
    <2>2. CASE j = i
      <3>1. ASSUME NEW m \in 1..MaxCalls, NEW l \in 1..MaxCalls, m < l, asked'[<<i, l>>] # None
            PROVE  asked'[<<i, m>>] # None /\ outcome'[<<i, m>>] # None
        <4>1. m # k
          BY <1>8, <1>12, <1>13, <3>1
        <4>2. asked'[<<i, m>>] = asked[<<i, m>>] /\ outcome'[<<i, m>>] = outcome[<<i, m>>]
          BY <1>8, <1>12, <4>1
        <4>3. CASE l # k
          <5>1. asked'[<<i, l>>] = asked[<<i, l>>]
            BY <1>8, <1>12, <4>3
          <5> QED BY <1>13, <3>1, <4>2, <5>1 DEF OrderInv
        <4>4. CASE l = k
          <5>1. k > 1
            BY <3>1, <4>4
          <5>2. CASE m = k - 1
            BY <1>3, <1>14, <4>2, <5>1, <5>2
          <5>3. CASE m # k - 1
            <6>1. m < k - 1 /\ k - 1 \in 1..MaxCalls /\ asked[<<i, k - 1>>] # None
              BY <1>3, <1>14, <3>1, <4>4, <5>1, <5>3
            <6> QED BY <1>13, <4>2, <6>1 DEF OrderInv
          <5> QED BY <5>2, <5>3
        <4> QED BY <4>3, <4>4
      <3> QED BY <2>2, <3>1 DEF OrderInv
    <2> QED BY <2>1, <2>2
  <1>16. \A j \in Agents : There(j)' = There(j)
    BY <1>4 DEF There
  <1>17. ASSUME NEW j \in Agents PROVE LookedInv(j)'
    <2>1. CASE j # i
      BY <1>4, <1>8, <1>12, <1>16, <2>1, AgentSame DEF Inv
    <2>2. CASE j = i
      <3> SUFFICES ASSUME i \notin outdated' PROVE LookedInv(i)'
        BY <2>2 DEF LookedInv
      <3>1. asked'[<<i, 1>>] # None
        <4>1. 1 \in 1..MaxCalls
          BY MaxCallsAssumption
        <4>2. CASE k = 1
          BY <1>5, <1>8, <1>12, <4>1, <4>2
        <4>3. CASE k # 1
          <5>1. asked[<<i, 1>>] # None
            BY <1>3, <1>13, <1>14, <4>1, <4>3 DEF OrderInv
          <5> QED BY <1>8, <1>12, <4>1, <4>3, <5>1
        <4> QED BY <4>2, <4>3
      <3>2. ASSUME NEW l \in 1..MaxCalls, Last(i, l)' PROVE l = k
        <4>1. asked'[<<i, k>>] # None
          BY <1>5, <1>8, <1>12
        <4>2. ~(l < k)
          BY <3>2, <4>1 DEF Last
        <4>3. ~(l > k)
          BY <1>8, <1>12, <1>13, <3>2 DEF Last
        <4> QED BY <4>2, <4>3
      <3>3. IF k = 1 THEN asked[<<i, 1>>] = None ELSE Last(i, k - 1)
        <4>1. ASSUME k > 1 PROVE Last(i, k - 1)
          <5>1. \A l \in 1..MaxCalls : l > k - 1 => l = k \/ l > k
            OBVIOUS
          <5> QED BY <1>0, <1>3, <1>13, <4>1, <5>1 DEF Last
        <4> QED BY <1>0, <1>3, <4>1
      <3>4. ASSUME r.tool.call.does \in Adding, NEW t \in r.things \cap There(i)
            PROVE  UnheardOf(i, t)'
        <4>1. UnheardOf(i, t)
          BY <1>4, <3>3, <3>4, NextUnknown
        <4> QED BY <1>3, <1>4, <1>8, <1>12, <4>1, UnheardSame
      <3>5. r.tool.call.does \in Adding => Unknown(i, c)'
        BY <1>8, <1>16, <3>4 DEF Unknown
      <3>6. Looked(i, c)'
        BY <1>6, <1>8, <3>5 DEF Looked
      <3> QED BY <1>0, <3>1, <3>2, <3>6 DEF LookedInv
    <2> QED BY <2>1, <2>2
  <1> QED BY <1>4, <1>7, <1>9, <1>11, <1>15, <1>17 DEF Inv

(* A call that returns, with what it makes of the reply or without one,    *)
(* keeps it.                                                               *)
LEMMA ReturnKeeps ==
    ASSUME Inv, NEW c \in Calls, NEW o \in Outcome, Return(c, o),
           \/ Silent(asked[c], o)
           \/ reply[c] # None /\ o = Understood(asked[c].tool.call, reply[c])
    PROVE  Inv'
  <1>0. PICK i \in Agents, k \in 1..MaxCalls : c = <<i, k>>
    BY DEF Calls
  <1>1. /\ asked[c] # None /\ outcome[c] = None /\ o # None
        /\ c[1] = i /\ CallInv(c) /\ TypeOK /\ intent \in Scenarios
    BY <1>0, NoneAssumption DEF Return, Inv
  <1>2. /\ intent' = intent /\ asked' = asked /\ wire' = wire /\ reply' = reply
        /\ made' = made /\ late' = late /\ there' = there /\ running' = running
        /\ outdated' = outdated /\ outcome' = [outcome EXCEPT ![c] = o]
    BY DEF Return, backend
  <1>3. outcome'[c] = o /\ \A d \in Calls : d # c => outcome'[d] = outcome[d]
    BY <1>1, <1>2 DEF TypeOK
  <1>4. TypeOK'
    BY <1>1, <1>2 DEF TypeOK
  <1>6. ASSUME NEW d \in Calls PROVE CallInv(d)'
    <2>1. CASE d # c
      BY <1>2, <1>3, <2>1, CallSame DEF Inv
    <2>2. CASE d = c
      <3>1. PICK r, x, m, p : /\ r = asked[c] /\ x = Understood(asked[c].tool.call, reply[c])
                              /\ m = made[c] /\ p = reply[c]
        OBVIOUS
      <3>2. Fitting(i, r) => Fitting(i, r)'
        BY <1>2 DEF Fitting
      <3>3. \A y : Says(i, r, y, m, p) => Says(i, r, y, m, p)'
        BY <1>2 DEF Says, LeftOut
      <3>4. x = Understood(asked[c].tool.call, reply[c])'
        BY <1>2, <3>1
      <3>5. wire[c] # "none"
        <4>1. Nothing("invalid") \in Outcome
          BY DEF Nothing, Outcome, Kinds
        <4> QED BY <1>1, <4>1, NoneAssumption DEF CallInv
      <3>6. Silent(r, o) \/ (wire[c] = "served" /\ o = x)
        BY <1>1, <3>1 DEF CallInv
      <3>7. Says(i, r, o, m, p)
        BY <1>1, <3>1, <3>6, SaysNothing DEF CallInv
      <3>9. wire[c] = "sent" => Silent(r, o)'
        BY <3>6 DEF Silent
      <3>10. /\ asked'[c] = r /\ wire'[c] = wire[c] /\ reply'[c] = p /\ made'[c] = m
             /\ outcome'[c] = o
        BY <1>2, <1>3, <3>1
      <3>11. CallInv(c) /\ c[1] = i /\ r # None
        BY <1>1, <3>1
      <3> QED BY <2>2, <3>1, <3>2, <3>3, <3>4, <3>5, <3>7, <3>9, <3>10, <3>11 DEF CallInv
    <2> QED BY <2>1, <2>2
  <1>7. \A j \in Agents, l \in 1..MaxCalls :
            /\ <<j, l>> \in Calls
            /\ <<j, l>> = c <=> j = i /\ l = k
    BY <1>0 DEF Calls
  <1>8. /\ Last(i, k) /\ asked[<<i, 1>>] # None
        /\ \A l \in 1..MaxCalls : Last(i, l) => l = k
    BY <1>0, <1>1, OneUnderway
  <1>9. ASSUME NEW j \in Agents PROVE OrderInv(j)'
    <2>1. OrderInv(j)
      BY DEF Inv
    <2>2. \A m \in 1..MaxCalls : outcome[<<j, m>>] # None => outcome'[<<j, m>>] = outcome[<<j, m>>]
      BY <1>1, <1>3, <1>7
    <2> QED BY <1>2, <2>1, <2>2 DEF OrderInv
  <1>10. \A j \in Agents : There(j)' = There(j)
    BY <1>2 DEF There
  <1>11. ASSUME NEW j \in Agents PROVE LookedInv(j)'
    <2>1. CASE j # i
      BY <1>2, <1>3, <1>7, <1>10, <2>1, AgentSame DEF Inv
    <2>2. CASE j = i
      <3> SUFFICES ASSUME i \notin outdated' PROVE LookedInv(i)'
        BY <2>2 DEF LookedInv
      <3>1. Looked(i, c)
        BY <1>0, <1>2, <1>8 DEF Inv, LookedInv
      <3>2. ASSUME NEW l \in 1..MaxCalls, Last(i, l)' PROVE l = k
        BY <1>2, <1>8, <3>2 DEF Last
      <3>3. \A t : UnheardOf(i, t) => UnheardOf(i, t)'
        BY <1>1, <1>2, <1>3, <1>7, UnheardSame
      <3>4. Unknown(i, c) => Unknown(i, c)'
        BY <1>2, <1>10, <3>3 DEF Unknown
      <3>5. PICK r, x : r = asked[c] /\ x = Understood(asked[c].tool.call, reply[c])
        OBVIOUS
      <3>6. o.kind = "ok" => wire[c] = "served" /\ o = x
        BY <1>1, <3>5 DEF CallInv, Silent, Uncertain
      <3>7. Seen(i, r, o) => Seen(i, r, o)'
        BY <1>10 DEF Seen
      <3>8. asked'[c] = r /\ wire'[c] = wire[c] /\ outcome'[c] = o
        BY <1>2, <1>3, <3>5
      <3>9. HasRead(intent[i].tool)' <=> HasRead(intent[i].tool)
        BY <1>2 DEF HasRead
      <3>10. Looked(i, c)'
        BY <1>1, <3>1, <3>4, <3>5, <3>6, <3>7, <3>8, <3>9 DEF Looked
      <3> QED BY <1>0, <1>2, <1>8, <3>2, <3>10 DEF LookedInv
    <2> QED BY <2>1, <2>2
  <1> QED BY <1>1, <1>2, <1>4, <1>6, <1>9, <1>11 DEF Inv

(* So do a reply that is read, none, and that of a gateway.                *)
LEMMA AnyReturnKeeps ==
    ASSUME Inv, NEW c \in Calls, Receive(c) \/ NoAnswer(c) \/ GatewayError(c)
    PROVE  Inv'
  <1>1. CASE Receive(c)
    <2>1. PICK o : o = Understood(asked[c].tool.call, reply[c])
      OBVIOUS
    <2>2. reply[c] # None /\ Return(c, o)
      BY <1>1, <2>1 DEF Receive
    <2>3. asked[c].tool \in AllTools /\ reply[c] \in Reply
      BY <2>2 DEF Return, Inv, TypeOK, Request
    <2>4. o \in Outcome
      <3>1. PICK method : method = asked[c].tool.call
        OBVIOUS
      <3>2. method.helper \in Helpers /\ method.paged \in BOOLEAN
        BY <2>3, <3>1, Apart
      <3> QED BY <2>1, <2>3, <3>1, <3>2, UnderstoodIs
    <2> QED BY <2>1, <2>2, <2>4, ReturnKeeps
  <1>2. CASE NoAnswer(c)
    <2>1. PICK o : o = Nothing("failed")
      OBVIOUS
    <2>2. o \in Outcome /\ Silent(asked[c], o) /\ Return(c, o)
      BY <1>2, <2>1 DEF NoAnswer, Nothing, Outcome, Kinds, Silent, Uncertain
    <2> QED BY <2>2, ReturnKeeps
  <1>3. CASE GatewayError(c)
    <2>1. PICK body \in {"json", "other"} :
             Return(c, Understood(asked[c].tool.call,
                             [status |-> 502, body |-> body, success |-> FALSE,
                              code |-> "none", state |-> "none", details |-> "none",
                              items |-> {}, failed |-> {}, more |-> FALSE]))
      BY <1>3 DEF GatewayError
    <2>2. PICK r : r = [status |-> 502, body |-> body, success |-> FALSE,
                        code |-> "none", state |-> "none", details |-> "none",
                        items |-> {}, failed |-> {}, more |-> FALSE]
      OBVIOUS
    <2>3. PICK o : o = Understood(asked[c].tool.call, r)
      OBVIOUS
    <2>4. Return(c, o)
      BY <2>1, <2>2, <2>3
    <2>5. asked[c].tool \in AllTools
      BY <2>4 DEF Return, Inv, TypeOK, Request
    <2>6. PICK tool \in AllTools : tool = asked[c].tool
      BY <2>5
    <2>7. o = Understood(tool.call, r)
      BY <2>3, <2>6
    <2>8. o \in Outcome /\ Silent(asked[c], o)
      BY <2>2, <2>6, <2>7, GatewayOf DEF Silent
    <2> QED BY <2>4, <2>8, ReturnKeeps
  <1> QED BY <1>1, <1>2, <1>3

(* How many there are of what a call has not made does not change.         *)
LEMMA CountedIs ==
    ASSUME TypeOK, NEW method, NEW change
    PROVE  /\ Counted(method, change) \in [Things -> Nat]
           /\ \A t \in Things : t \notin change => Counted(method, change)[t] = there[t]
           /\ method.does \in {"read", "list"} => Counted(method, change) = there
  <1>1. there \in [Things -> Nat]
    BY DEF TypeOK
  <1>2. ASSUME NEW t \in Things
        PROVE  /\ Counted(method, change)[t] \in Nat
               /\ t \notin change => Counted(method, change)[t] = there[t]
               /\ method.does \in {"read", "list"} => Counted(method, change)[t] = there[t]
    <2>1. PICK n : n = Counted(method, change)[t]
      OBVIOUS
    <2>2. CASE method.does \in {"read", "list"} \/ t \notin change
      BY <1>1, <2>1, <2>2 DEF Counted
    <2>3. CASE ~(method.does \in {"read", "list"} \/ t \notin change) /\ method.does = "unlink"
      BY <1>1, <2>1, <2>3 DEF Counted
    <2>4. CASE /\ ~(method.does \in {"read", "list"} \/ t \notin change)
               /\ method.does \in {"set", "part", "link"}
      BY <1>1, <2>1, <2>4 DEF Counted
    <2>5. CASE /\ ~(method.does \in {"read", "list"} \/ t \notin change)
               /\ method.does \notin {"unlink", "set", "part", "link"}
      BY <1>1, <2>1, <2>5 DEF Counted
    <2> QED BY <2>2, <2>3, <2>4, <2>5
  <1>3. Counted(method, change) = [t \in Things |-> Counted(method, change)[t]]
    BY DEF Counted
  <1> QED BY <1>1, <1>2, <1>3

(* What serving a call changes.                                            *)
LEMMA ServeIs ==
    ASSUME Inv, NEW i \in Agents, NEW k \in 1..MaxCalls, Serve(i, k),
           NEW c, c = <<i, k>>, NEW r, r = asked[c]
    PROVE  \E e \in Answered(i, r) :
              /\ reply' = [reply EXCEPT ![c] = e.reply]
              /\ made' = [made EXCEPT ![c] = e.made]
              /\ there' = Counted(r.tool.call, e.made)
              /\ running' \in BOOLEAN
              /\ r.tool.call.does \in {"read", "list"} =>
                    \/ outdated' = outdated
                    \/ outcome[c] = None /\ outdated' = outdated \ {i}
              /\ r.tool.call.does \notin {"read", "list"} =>
                    outdated' = outdated \cup
                         {j \in Agents : /\ e.made \cap intent[j].things # {}
                                         /\ j # i \/ outcome[c] # None}
  <1>1. PICK e \in Answered(i, r) :
              /\ reply' = [reply EXCEPT ![c] = e.reply]
              /\ made' = [made EXCEPT ![c] = e.made]
              /\ there' = Counted(r.tool.call, e.made)
              /\ running' = (running \/ (r.tool.call.does = "run" /\ e.made # {}))
              /\ outdated' =
                    IF r.tool.call.does \in {"read", "list"}
                    THEN IF e.reply.success /\ ~r.next /\ outcome[c] = None
                         THEN outdated \ {i}
                         ELSE outdated
                    ELSE outdated \cup
                         {j \in Agents : /\ e.made \cap intent[j].things # {}
                                         /\ j # i \/ outcome[c] # None}
    BY DEF Serve, Answered
  <1>2. running' \in BOOLEAN
    BY <1>1, Zenon DEF Inv, TypeOK
  <1> QED BY <1>1, <1>2

(* A call that is served keeps it.                                         *)
LEMMA ServeKeeps ==
    ASSUME Inv, NEW i \in Agents, NEW k \in 1..MaxCalls, Serve(i, k)
    PROVE  Inv'
  <1>0. PICK c, r : c = <<i, k>> /\ r = asked[c]
    OBVIOUS
  <1>1. c \in Calls /\ c[1] = i
    BY <1>0 DEF Calls
  <1>2. /\ wire[c] = "sent" /\ wire' = [wire EXCEPT ![c] = "served"]
        /\ late' = (IF outcome[c] = None THEN late ELSE late \cup {c})
        /\ intent' = intent /\ asked' = asked /\ outcome' = outcome
    BY <1>0 DEF Serve
  <1>3. PICK e \in Answered(i, r) :
              /\ reply' = [reply EXCEPT ![c] = e.reply]
              /\ made' = [made EXCEPT ![c] = e.made]
              /\ there' = Counted(r.tool.call, e.made)
              /\ running' \in BOOLEAN
              /\ r.tool.call.does \in {"read", "list"} =>
                    \/ outdated' = outdated
                    \/ outcome[c] = None /\ outdated' = outdated \ {i}
              /\ r.tool.call.does \notin {"read", "list"} =>
                    outdated' = outdated \cup
                         {j \in Agents : /\ e.made \cap intent[j].things # {}
                                         /\ j # i \/ outcome[c] # None}
    BY <1>0, ServeIs
  <1>4. /\ CallInv(c) /\ TypeOK /\ intent \in Scenarios
        /\ asked[c] # None /\ Fitting(i, r) /\ made[c] = {} /\ reply[c] = None
        /\ outcome[c] # None => Silent(r, outcome[c])
    BY <1>0, <1>1, <1>2 DEF Inv, CallInv
  <1>5. PICK o : o = Understood(r.tool.call, e.reply)
    OBVIOUS
  <1>6. e.reply \in Reply /\ e.made \in SUBSET Things /\ Says(i, r, o, e.made, e.reply)
    BY <1>4, <1>5, Answers
  <1>7. /\ wire'[c] = "served" /\ reply'[c] = e.reply /\ made'[c] = e.made
        /\ \A d \in Calls : d # c =>
              wire'[d] = wire[d] /\ reply'[d] = reply[d] /\ made'[d] = made[d]
    BY <1>1, <1>2, <1>3, <1>4 DEF TypeOK
  <1>8. /\ there' \in [Things -> Nat]
        /\ \A t \in Things : t \notin e.made => there'[t] = there[t]
        /\ r.tool.call.does \in {"read", "list"} => there' = there
    BY <1>3, <1>4, CountedIs
  <1>9. TypeOK'
    BY <1>1, <1>2, <1>3, <1>4, <1>6, <1>8 DEF TypeOK
  <1>12. ASSUME NEW d \in Calls PROVE CallInv(d)'
    <2>1. CASE d # c
      BY <1>2, <1>7, <2>1, CallSame DEF Inv
    <2>2. CASE d = c
      <3>1. Fitting(i, r)' /\ Says(i, r, o, e.made, e.reply)'
        BY <1>2, <1>4, <1>6 DEF Fitting, Says, LeftOut
      <3>2. outcome[c] # None => Says(i, r, outcome[c], e.made, e.reply)
        BY <1>4, SaysNothing
      <3>3. PICK x : x = outcome[c]
        OBVIOUS
      <3>4. x # None => Says(i, r, x, e.made, e.reply)'
        BY <1>2, <3>2, <3>3 DEF Says, LeftOut
      <3>7. /\ asked'[c] = r /\ outcome'[c] = x /\ r # None
            /\ o = Understood(asked[c].tool.call, reply[c])'
        BY <1>0, <1>2, <1>4, <1>5, <1>7, <3>3
      <3> QED BY <1>1, <1>6, <1>7, <2>2, <3>1, <3>4, <3>7 DEF CallInv
    <2> QED BY <2>1, <2>2
  <1>13. ASSUME NEW j \in Agents PROVE OrderInv(j)'
    BY <1>2 DEF Inv, OrderInv
  <1>14. \A j \in Agents, l \in 1..MaxCalls :
            /\ <<j, l>> \in Calls
            /\ <<j, l>> = c <=> j = i /\ l = k
    BY <1>0 DEF Calls
  <1>15. ASSUME NEW j \in Agents, NEW t, UnheardOf(j, t) PROVE UnheardOf(j, t)'
    BY <1>2, <1>4, <1>7, <1>14, <1>15, UnheardSame
  <1>16. r.tool \in Readers <=> r.tool.call.does \in {"read", "list"}
    BY <1>4, FittingIntent, Apart
  <1>17. ASSUME NEW j \in Agents, j # i PROVE LookedInv(j)'
    <2> SUFFICES ASSUME j \notin outdated' PROVE LookedInv(j)'
      BY DEF LookedInv
    <2>1. j \notin outdated
      BY <1>3, <1>17
    <2>2. There(j)' = There(j)
      <3>1. CASE r.tool.call.does \in {"read", "list"}
        BY <1>2, <1>8, <3>1 DEF There
      <3>2. CASE r.tool.call.does \notin {"read", "list"}
        <4>1. e.made \cap intent[j].things = {} /\ intent[j].things \subseteq Things
          BY <1>3, <1>4, <1>17, <3>2, ScenariosAssumption DEF Intent
        <4> QED BY <1>2, <1>8, <4>1 DEF There
      <3> QED BY <3>1, <3>2
    <2>3. \A l \in 1..MaxCalls :
               /\ asked'[<<j, l>>] = asked[<<j, l>>] /\ wire'[<<j, l>>] = wire[<<j, l>>]
               /\ reply'[<<j, l>>] = reply[<<j, l>>] /\ outcome'[<<j, l>>] = outcome[<<j, l>>]
               /\ made'[<<j, l>>] = made[<<j, l>>]
      BY <1>2, <1>7, <1>14, <1>17
    <2> QED BY <1>2, <2>1, <2>2, <2>3, AgentSame DEF Inv
  <1>18. LookedInv(i)'
    <2> SUFFICES ASSUME i \notin outdated' PROVE LookedInv(i)'
      BY DEF LookedInv
    <2>1. asked'[<<i, 1>>] # None
      <3>1. OrderInv(i) /\ 1 \in 1..MaxCalls
        BY MaxCallsAssumption DEF Inv
      <3> QED BY <1>0, <1>2, <1>4, <3>1 DEF OrderInv
    <2>2. outcome[c] = None => \A l \in 1..MaxCalls : Last(i, l) => l = k
      BY <1>0, <1>4, OneUnderway
    <2>3. \A l \in 1..MaxCalls : Last(i, l)' <=> Last(i, l)
      BY <1>2 DEF Last
    <2>4. (outcome[c] = None /\ i \in outdated) \/ i \notin outdated
      BY <1>3
    <2>5. HasRead(intent[i].tool)' <=> HasRead(intent[i].tool)
      BY <1>2 DEF HasRead
    <2>6. intent[i].things \subseteq Things
      BY <1>4, ScenariosAssumption DEF Intent
    <2>7. CASE r.tool \in Readers
      <3>1. there' = there /\ There(i)' = There(i)
        BY <1>2, <1>8, <1>16, <2>7 DEF There
      <3>2. ASSUME NEW l \in 1..MaxCalls, Last(i, l), l # k PROVE Looked(i, <<i, l>>)'
        <4>1. PICK d : d = <<i, l>>
          OBVIOUS
        <4>2. Looked(i, d)
          BY <2>2, <2>4, <3>2, <4>1 DEF Inv, LookedInv
        <4>3. d \in Calls /\ d # c
          BY <1>14, <3>2, <4>1
        <4> QED BY <1>2, <1>7, <1>15, <3>1, <4>1, <4>2, <4>3, LookedSame
      <3>3. ASSUME Last(i, k) PROVE Looked(i, c)'
        <4>1. r.tool.call.does \notin Adding
          BY <2>7, ReaderCalls DEF Adding
        <4>2. HasRead(intent[i].tool) /\ o.kind = "ok" => Seen(i, r, o)'
          <5>1. HasRead(intent[i].tool) /\ o.kind = "ok" => o.more \/ Present \subseteq r.seen \cup o.items
            BY <1>4, <1>5, <2>7, ReadAnswers
          <5>2. There(i) \subseteq Present
            BY <2>6 DEF There, Present
          <5> QED BY <3>1, <5>1, <5>2 DEF Seen
        <4>3. PICK x : x = outcome[c]
          OBVIOUS
        <4>4. HasRead(intent[i].tool) /\ x # None => x.kind # "ok"
          BY <1>4, <4>3 DEF Silent, Uncertain
        <4>5. asked'[c] = r /\ outcome'[c] = x /\ o = Understood(asked[c].tool.call, reply[c])'
          BY <1>0, <1>2, <1>5, <1>7, <4>3
        <4> QED BY <2>5, <4>1, <4>2, <4>4, <4>5 DEF Looked
      <3> QED BY <1>0, <2>1, <2>3, <3>2, <3>3 DEF LookedInv
    <2>8. CASE r.tool \notin Readers
      <3>1. i \notin outdated
        BY <1>3, <1>16, <2>8
      <3>2. \/ outcome[c] = None
            \/ e.made \cap intent[i].things = {}
        BY <1>3, <1>16, <2>8
      <3>3. outcome[c] # None => There(i)' = There(i)
        BY <1>2, <1>8, <2>6, <3>2 DEF There
      <3>4. ASSUME NEW l \in 1..MaxCalls, Last(i, l), l # k PROVE Looked(i, <<i, l>>)'
        <4>1. PICK d : d = <<i, l>>
          OBVIOUS
        <4>2. Looked(i, d)
          BY <3>1, <3>4, <4>1 DEF Inv, LookedInv
        <4>3. d \in Calls /\ d # c
          BY <1>14, <3>4, <4>1
        <4>4. There(i)' = There(i)
          BY <2>2, <3>3, <3>4
        <4> QED BY <1>2, <1>7, <1>15, <4>1, <4>2, <4>3, <4>4, LookedSame
      <3>5. ASSUME Last(i, k) PROVE Looked(i, c)'
        <4>1. Looked(i, c)
          BY <1>0, <3>1, <3>5 DEF Inv, LookedInv
        <4>2. ASSUME r.tool.call.does \in Adding, ~HasRead(r.tool) PROVE Unknown(i, c)'
          <5>1. Unknown(i, c)
            BY <1>0, <4>1, <4>2 DEF Looked
          <5>2. ASSUME NEW t \in r.things \cap There(i)', t \notin e.made PROVE UnheardOf(i, t)'
            <6>1. t \in There(i)
              BY <1>2, <1>8, <2>6, <5>2 DEF There
            <6>2. UnheardOf(i, t)
              BY <1>0, <1>4, <5>1, <5>2, <6>1 DEF Unknown
            <6> QED BY <1>15, <6>2
          <5> QED BY <1>0, <1>2, <1>7, <5>2 DEF Unknown
        <4>3. asked'[c] = r /\ wire'[c] = "served"
          BY <1>0, <1>2, <1>7
        <4> QED BY <2>8, <4>2, <4>3 DEF Looked
      <3> QED BY <1>0, <2>1, <2>3, <3>4, <3>5 DEF LookedInv
    <2> QED BY <2>7, <2>8
  <1> QED BY <1>2, <1>4, <1>9, <1>12, <1>13, <1>17, <1>18 DEF Inv

(* Every step keeps it.                                                    *)
LEMMA StepKeeps == Inv /\ [Next]_vars => Inv'
  <1> SUFFICES ASSUME Inv, [Next]_vars PROVE Inv'
    OBVIOUS
  <1>1. ASSUME NEW i \in Agents, NEW k \in 1..MaxCalls, Call(i, k) PROVE Inv'
    BY <1>1, CallKeeps
  <1>2. ASSUME NEW i \in Agents, NEW k \in 1..MaxCalls, Serve(i, k) PROVE Inv'
    BY <1>2, ServeKeeps
  <1>3. ASSUME NEW c \in Calls, Receive(c) \/ NoAnswer(c) \/ GatewayError(c) PROVE Inv'
    BY <1>3, AnyReturnKeeps
  <1>4. ASSUME FinishComps \/ UNCHANGED vars PROVE Inv'
    <2>1. /\ intent' = intent /\ asked' = asked /\ wire' = wire /\ reply' = reply
          /\ outcome' = outcome /\ made' = made /\ late' = late /\ there' = there
          /\ outdated' = outdated
      BY <1>4 DEF FinishComps, vars
    <2>2. running' \in BOOLEAN
      <3>1. running' = FALSE \/ running' = running
        BY <1>4 DEF FinishComps, vars
      <3> QED BY <3>1, Zenon DEF Inv, TypeOK
    <2>3. TypeOK'
      BY <2>1, <2>2 DEF Inv, TypeOK
    <2>5. ASSUME NEW c \in Calls PROVE CallInv(c)'
      BY <2>1, CallSame DEF Inv
    <2>6. ASSUME NEW i \in Agents PROVE OrderInv(i)' /\ LookedInv(i)'
      <3>1. OrderInv(i)'
        BY <2>1 DEF Inv, OrderInv
      <3>2. There(i)' = There(i)
        BY <2>1 DEF There
      <3>3. LookedInv(i)'
        BY <2>1, <3>2, AgentSame DEF Inv
      <3> QED BY <3>1, <3>3
    <2> QED BY <2>1, <2>3, <2>5, <2>6 DEF Inv
  <1> QED BY <1>1, <1>2, <1>3, <1>4 DEF Next

(* Inv holds in every reachable state.                                     *)
THEOREM Invariance == Spec => []Inv
  BY Starts, StepKeeps, PTL DEF Spec

(* The variables keep their types: whatever is answered, each method       *)
(* returns one of the outcomes, and what an agent asks for next is a       *)
(* request (client.go, every method).                                      *)
THEOREM TypeCorrect == Spec => []TypeOK
  <1>1. Inv => TypeOK
    BY DEF Inv
  <1> QED BY <1>1, Invariance, PTL

-----------------------------------------------------------------------------
(* What follows from it. *)

(* What a call has returned says what happened at the backend, whatever    *)
(* the helper that has read the response (client.go, every method), but    *)
(* for what it says wrongly: that none could be queued, and the successes  *)
(* that are Overstated.                                                    *)
THEOREM Truthful == Spec => []OutcomeIsTruthful
  <1>1. Inv => OutcomeIsTruthful
    <2> SUFFICES ASSUME Inv, NEW c \in Calls, outcome[c] # None
                 PROVE  SaysWhatHappened(c)
      BY DEF OutcomeIsTruthful
    <2>1. Says(c[1], asked[c], outcome[c], made[c], reply[c])
      BY DEF Inv, CallInv
    <2>2. LeftOut(c[1], reply[c]) <=> Overstated(c)
      BY DEF LeftOut, Overstated, Drifted
    <2> QED BY <2>1, <2>2 DEF Says, SaysWhatHappened
  <1> QED BY <1>1, Invariance, PTL

(* Nothing is made a second time but unknowingly: an agent whose things no *)
(* other has changed since it looked adds only what is not there, or what  *)
(* an unanswered call of its own has made (property.go:1139, 1142, 1162).  *)
THEOREM NoneTwice == Spec => NoDuplicates
  <1>1. Inv /\ [Next]_vars => AgainOnlyUnknowingly
    <2> SUFFICES ASSUME Inv, [Next]_vars, NEW i \in Agents, NEW k \in 1..MaxCalls,
                        NEW t \in Things, NEW c, c = <<i, k>>,
                        wire[c] = "sent", wire'[c] = "served",
                        there[t] > 0, there'[t] > there[t],
                        i \notin outdated, c \notin late'
                 PROVE  UnheardOf(i, t)
      BY DEF AgainOnlyUnknowingly
    <2>0. c \in Calls /\ TypeOK /\ there[t] \in Nat
      BY DEF Inv, TypeOK, Calls
    <2>1. Serve(i, k)
      <3>1. ASSUME NEW j \in Agents, NEW l \in 1..MaxCalls, Call(j, l) PROVE FALSE
        <4>1. wire' = wire \/ wire' = [wire EXCEPT ![<<j, l>>] = "sent"]
          BY <3>1 DEF Call
        <4> QED BY <2>0, <4>1 DEF TypeOK
      <3>2. ASSUME NEW j \in Agents, NEW l \in 1..MaxCalls, Serve(j, l) PROVE j = i /\ l = k
        <4>1. wire' = [wire EXCEPT ![<<j, l>>] = "served"]
          BY <3>2 DEF Serve
        <4> QED BY <2>0, <4>1 DEF TypeOK
      <3>3. ASSUME NEW d \in Calls, Receive(d) \/ NoAnswer(d) \/ GatewayError(d) PROVE FALSE
        BY <3>3 DEF Receive, NoAnswer, GatewayError, Return
      <3>4. ASSUME FinishComps \/ UNCHANGED vars PROVE FALSE
        BY <3>4 DEF FinishComps, vars
      <3> QED BY <3>1, <3>2, <3>3, <3>4 DEF Next
    <2>2. PICK r : r = asked[c]
      OBVIOUS
    <2>3. PICK e \in Answered(i, r) : there' = Counted(r.tool.call, e.made)
      BY <2>1, <2>2, ServeIs
    <2>4. /\ r # None /\ Fitting(i, r) /\ intent \in Scenarios /\ made[c] = {}
          /\ LookedInv(i)
      BY <2>0, <2>2 DEF Inv, CallInv
    <2>5. outcome[c] = None
      BY <2>1 DEF Serve
    <2>6. /\ r.tool.call.does \notin {"read", "list"} /\ t \in e.made
          /\ r.tool.call.does \notin {"unlink", "set", "part", "link"}
      BY <2>0, <2>3 DEF Counted
    <2>7. r.tool \in Writers /\ r.tool.call.does \in Adding
      <3>1. r.tool \in Writers
        BY <2>4, <2>6, FittingIntent, Apart DEF AllTools
      <3>2. PICK method \in WriteMethods : method = r.tool.call
        BY <3>1, WriterCalls
      <3> QED BY <2>6, <3>1, <3>2 DEF WriteMethods, Method, Adding
    <2>8. t \in r.things
      <3>1. e.made \cap Present \subseteq r.things
        BY <2>4, <2>7, Answers
      <3> QED BY <2>6, <3>1 DEF Present
    <2>9. t \in There(i)
      BY <2>4, <2>7, <2>8, FittingIntent DEF There
    <2>10. Looked(i, c)
      BY <2>2, <2>4, <2>5, OneUnderway DEF LookedInv
    <2>11. Unknown(i, c)
      BY <2>2, <2>5, <2>7, <2>10 DEF Looked
    <2> QED BY <2>2, <2>4, <2>8, <2>9, <2>11 DEF Unknown
  <1> QED BY <1>1, Invariance, PTL DEF Spec, NoDuplicates
=============================================================================

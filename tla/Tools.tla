-------------------------------- MODULE Tools --------------------------------
(***************************************************************************)
(* The methods of internal/reisearch/client.go, in the order of the file,  *)
(* each with the helper that reads its response, the status the helper     *)
(* wants and what the backend does; then the handlers of                   *)
(* internal/tools/property.go, each with the method it calls and the       *)
(* fields it refuses to go without.                                        *)
(* A "list" can be longer than a page; `paged`: the cursor of the next     *)
(* page is returned.                                                       *)
(***************************************************************************)
EXTENDS Naturals

Method(helper, want, does, paged) ==
    [helper |-> helper, want |-> want, does |-> does, paged |-> paged]

Read(want) == Method("status", want, "read", FALSE)
Pages(want) == Method("status", want, "list", TRUE)
Write(want, does) == Method("status", want, does, FALSE)

CreateNote == Write(201, "add")
ShareProperty == Write(200, "link")
GetNotes == Pages(200)
GetSharedProperties == Pages(200)
(* A list with a limit and no cursor. *)
SearchProperties == Method("status", 200, "list", FALSE)
SearchUsers == Pages(200)
CreateFolder == Write(201, "add")
GetUnreadNotifications == Pages(200)
GetComps == Read(200)
RunComps == Method("run", 0, "run", FALSE)
GetPropertyDetails == Read(200)
CreateProperty == Write(201, "add")

PushToCRM == Method("push", 0, "push", FALSE)
crmGet == Method("crm", 200, "read", FALSE)
GetCRMConnections == crmGet
GetCRMUsers == crmGet
GetCRMTags == crmGet
GetCRMPipelines == crmGet
CreateCRMOpportunity == Write(201, "add")
AddCRMNote == Write(201, "attach")
GetPropertyCallActivity == crmGet
GetCallData == Read(200)

listFoldersAtPath == Pages(200)
ListFolders == listFoldersAtPath
ListCreatedFolders == listFoldersAtPath
GetFolder == Read(200)
GetFolderMembers == Read(200)
AddPropertyToFolder == Write(200, "link")
AddFolderMember == Write(200, "link")

tsGet(does, paged) == Method("envelope", 0, does, paged)
tsWrite(does) == Method("envelope", 0, does, FALSE)
CreateBuyer == tsWrite("add")
(* Faulty variant: the cursor of the response is dropped. *)
ListBuyersFirstPage == tsGet("list", FALSE)
ListBuyers == tsGet("list", TRUE)
GetBuyer == tsGet("read", FALSE)
UpdateBuyer == tsWrite("set")
listBuyBoxes == tsGet("list", TRUE)
getBuyBox == tsGet("read", FALSE)
createBuyBoxes == Method("boxes", 0, "part", FALSE)
updateBuyBox == tsWrite("set")
ListMyBuyBoxes == listBuyBoxes
CreateMyBuyBoxes == createBuyBoxes
GetMyBuyBox == getBuyBox
UpdateMyBuyBox == updateBuyBox
ListBuyerBuyBoxes == listBuyBoxes
CreateBuyerBuyBoxes == createBuyBoxes
GetBuyerBuyBox == getBuyBox
UpdateBuyerBuyBox == updateBuyBox
GetUserBuyBoxes == listBuyBoxes
GetBuyBoxDetails == getBuyBox

presDo(want, does, paged) == Method("status", want, does, paged)
CreatePresentation == presDo(201, "add", FALSE)
ListPresentations == presDo(200, "list", TRUE)
GetPresentation == presDo(200, "read", FALSE)
UpdatePresentation == presDo(200, "update", FALSE)
PublishPresentation == presDo(200, "publish", FALSE)
UnpublishPresentation == presDo(200, "unpublish", FALSE)
GetPresentationContent == presDo(200, "read", FALSE)
(* Faulty variant: 200 is wanted, the API answers 202. *)
ExportPresentationOK == presDo(200, "export", FALSE)
ExportPresentationPDF == presDo(202, "export", FALSE)
(* Faulty variant: 202 is wanted here as well. *)
GetPDFExportAccepted == presDo(202, "poll", FALSE)
GetPDFExportStatus == presDo(200, "poll", FALSE)
ListTemplates == presDo(200, "list", TRUE)
GetTemplate == presDo(200, "read", FALSE)

RemoveSharedUser == Method("removal", 200, "unlink", FALSE)
InviteUsers == Method("invite", 0, "part", FALSE)

-----------------------------------------------------------------------------
(* The handlers, by the names of their tools. *)

Tool(name, method, needs) == [name |-> name, call |-> method, needs |-> needs]

create_property == Tool("create_property", CreateProperty, {})
add_note_for_property == Tool("add_note_for_property", CreateNote, {})
get_notes_for_property == Tool("get_notes_for_property", GetNotes, {})
get_property_details == Tool("get_property_details", GetPropertyDetails, {})
get_property_list == Tool("get_property_list", GetSharedProperties, {})
get_comps == Tool("get_comps", GetComps, {})
run_comps == Tool("run_comps", RunComps, {"propertyID"})
create_folder == Tool("create_folder", CreateFolder, {"name"})
get_unread_notifications == Tool("get_unread_notifications", GetUnreadNotifications, {})
search_properties == Tool("search_properties", SearchProperties, {})
share_property == Tool("share_property", ShareProperty, {"propertyID", "userID"})
search_users == Tool("search_users", SearchUsers, {})

push_lead_to_crm == Tool("push_lead_to_crm", PushToCRM, {"propertyID", "contactType"})
get_crm_connections == Tool("get_crm_connections", GetCRMConnections, {})
get_crm_pipelines == Tool("get_crm_pipelines", GetCRMPipelines, {})
get_crm_users == Tool("get_crm_users", GetCRMUsers, {})
get_crm_tags == Tool("get_crm_tags", GetCRMTags, {})
create_crm_opportunity == Tool("create_crm_opportunity", CreateCRMOpportunity,
                               {"pipelineId", "contactId", "name", "status"})
add_crm_note == Tool("add_crm_note", AddCRMNote, {"propertyID", "note"})

list_my_folders == Tool("list_my_folders", ListFolders, {})
get_folder == Tool("get_folder", GetFolder, {"folderID"})
list_created_folders == Tool("list_created_folders", ListCreatedFolders, {})
get_folder_members == Tool("get_folder_members", GetFolderMembers, {"folderID"})
add_property_to_folder == Tool("add_property_to_folder", AddPropertyToFolder,
                               {"folderID", "propertyID", "mode"})
add_folder_member == Tool("add_folder_member", AddFolderMember, {"folderID", "memberID"})
get_property_call_activity == Tool("get_property_call_activity",
                                   GetPropertyCallActivity, {"propertyID"})
get_call_data == Tool("get_call_data", GetCallData, {"callId", "contactId", "locationId"})

create_buyer == Tool("create_buyer", CreateBuyer, {})
list_buyers == Tool("list_buyers", ListBuyers, {})
get_buyer == Tool("get_buyer", GetBuyer, {"buyerID"})
update_buyer == Tool("update_buyer", UpdateBuyer, {"buyerID"})
list_my_buyboxes == Tool("list_my_buyboxes", ListMyBuyBoxes, {})
create_my_buyboxes == Tool("create_my_buyboxes", CreateMyBuyBoxes, {"locations"})
get_my_buybox == Tool("get_my_buybox", GetMyBuyBox, {"buyBoxId"})
update_my_buybox == Tool("update_my_buybox", UpdateMyBuyBox, {"buyBoxId"})
list_buyer_buyboxes == Tool("list_buyer_buyboxes", ListBuyerBuyBoxes, {"buyerID"})
create_buyer_buyboxes == Tool("create_buyer_buyboxes", CreateBuyerBuyBoxes,
                              {"buyerID", "locations"})
get_buyer_buybox == Tool("get_buyer_buybox", GetBuyerBuyBox, {"buyBoxId"})
update_buyer_buybox == Tool("update_buyer_buybox", UpdateBuyerBuyBox, {"buyBoxId"})
get_user_buyboxes == Tool("get_user_buyboxes", GetUserBuyBoxes, {"userId"})
get_buybox_details == Tool("get_buybox_details", GetBuyBoxDetails, {"buyBoxId"})

create_presentation == Tool("create_presentation", CreatePresentation, {"propertyID"})
list_presentations == Tool("list_presentations", ListPresentations, {})
get_presentation == Tool("get_presentation", GetPresentation, {"presentationId"})
update_presentation == Tool("update_presentation", UpdatePresentation,
                            {"presentationId", "fields"})
publish_presentation == Tool("publish_presentation", PublishPresentation,
                             {"presentationId"})
unpublish_presentation == Tool("unpublish_presentation", UnpublishPresentation,
                               {"presentationId"})
get_presentation_content == Tool("get_presentation_content", GetPresentationContent,
                                 {"presentationId"})
export_presentation_pdf == Tool("export_presentation_pdf", ExportPresentationPDF,
                                {"presentationId"})
get_pdf_export_status == Tool("get_pdf_export_status", GetPDFExportStatus,
                              {"presentationId", "jobId"})
list_templates == Tool("list_templates", ListTemplates, {})
get_template == Tool("get_template", GetTemplate, {"templateId"})

remove_property_collaborator == Tool("remove_property_collaborator", RemoveSharedUser,
                                     {"propertyID", "userID", "confirm"})

(* All the checks of the list, its people and its addresses: `valid`. *)
invite_users == Tool("invite_users", InviteUsers, {"invitations", "valid"})

Readers == {get_notes_for_property, get_property_details, get_property_list,
            get_comps, get_unread_notifications, search_properties,
            search_users, get_crm_connections, get_crm_pipelines,
            get_crm_users, get_crm_tags, list_my_folders, get_folder,
            list_created_folders, get_folder_members,
            get_property_call_activity, get_call_data, list_buyers, get_buyer,
            list_my_buyboxes, get_my_buybox, list_buyer_buyboxes,
            get_buyer_buybox, get_user_buyboxes, get_buybox_details,
            list_presentations, get_presentation, get_presentation_content,
            list_templates, get_template}

Writers == {create_property, add_note_for_property, run_comps, create_folder,
            share_property, push_lead_to_crm, create_crm_opportunity,
            add_crm_note, add_property_to_folder, add_folder_member,
            create_buyer, update_buyer, create_my_buyboxes, update_my_buybox,
            create_buyer_buyboxes, update_buyer_buybox,
            create_presentation, remove_property_collaborator, invite_users}

(* The read that shows what a tool has made, where there is one. *)
ShownBy == [create_property |-> get_property_list,
            add_note_for_property |-> get_notes_for_property,
            run_comps |-> get_comps,
            create_folder |-> list_created_folders,
            add_property_to_folder |-> get_folder,
            add_folder_member |-> get_folder_members,
            create_buyer |-> list_buyers,
            create_my_buyboxes |-> list_my_buyboxes,
            create_buyer_buyboxes |-> list_buyer_buyboxes,
            create_presentation |-> list_presentations]

(* Tools whose description asks for that read before the first call. *)
LookFirst == {"run_comps", "create_buyer"}

=============================================================================

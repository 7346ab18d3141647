------------------------------- MODULE Uploads -------------------------------
(***************************************************************************)
(* What an agent attaches to a property in several calls                   *)
(* (internal/tools/documents.go, media.go and renovation.go over the       *)
(* methods of the same files of internal/reisearch):                       *)
(*   - a document: upload URL, PUT of the bytes, confirmation;             *)
(*   - photos, which are added one by one and removed all or nothing;      *)
(*   - a render: the photo before tagged, the render saved and submitted.  *)
(* The agents of one user follow the descriptions of the tools and the     *)
(* hints of their errors.  The backend and the store of the files are the  *)
(* ones those descriptions and the client's comments tell of.  A request   *)
(* whose call has given up can still be served.                            *)
(***************************************************************************)
EXTENDS Naturals, FiniteSets

CONSTANTS
    Agents,
    Scenarios,     \* what each agent is asked for: functions to Wish
    Categories,    \* PropertyDocumentCategories
    Photos,        \* photos the property has at first
    MaxKeys,       \* bound on s3 keys
    MaxExpired,    \* bound on upload URLs that expire
    MaxFaults,     \* bound on the calls without a proper answer
    None           \* not there, not yet

ASSUME BoundsAssumption == /\ Photos \in Nat /\ MaxKeys \in Nat /\ Photos <= MaxKeys
                           /\ MaxExpired \in Nat /\ MaxFaults \in Nat

Keys == 1..MaxKeys
Types == {"typed", "untyped"}    \* the Content-Type of the URL, or another

(* A wish: a document under one of `categories`, a photo, the removal of   *)
(* `keys`, or a render of the room in the photo `keys`.                    *)
Wish == [what : {"document", "photo", "removal", "render"}, keys : SUBSET (1..Photos),
         categories : SUBSET STRING]
ASSUME ScenariosAssumption == Scenarios \subseteq [Agents -> Wish]

DocumentTools == {"list_property_documents", "get_property_document_upload_url",
                  "confirm_property_document_upload"}
MediaTools == {"upload_property_image", "remove_property_images"}
RenovationTools == {"list_property_images", "tag_property_images", "save_renovation_image",
                    "submit_property_renovation", "get_renovation_ledger"}

(* A call of a tool, or the agent's own PUT to an upload URL.  `as` is a   *)
(* category or a type of content, if the call has one.                     *)
ToolNames == DocumentTools \cup MediaTools \cup RenovationTools \cup {"PUT"}
As == {"none"} \cup Types \cup UNION {UNION {s[i].categories : i \in Agents} : s \in Scenarios}
Request == [tool : ToolNames, keys : SUBSET Keys, as : As]
C(tool, keys, as) == [tool |-> tool, keys |-> keys, as |-> as]

(* An answer of HTTP, with the message in its error if the code looks for  *)
(* it: `shows` are the keys it is about.                                   *)
Messages == {"none", "no_file_found", "not_issued", "unsupported_type", "not_fetched",
             "image_not_found"}
Reply == [status : {200, 201, 400, 403, 404, 409, 429, 500, 502},
          message : Messages, shows : SUBSET Keys]
A(status, message, shows) == [status |-> status, message |-> message, shows |-> shows]

(* What a call returns: an error names the status, except if there was no  *)
(* usable answer, and may have a hint.                                     *)
Hints == {"none", "put_it", "exact_key", "put_typed", "recorded", "no_access", "wait",
          "another_link", "nothing_removed", "maybe_added", "pick_category",
          "check_property"}
Outcome == [kind : {"ok", "refused", "trouble", "failed", "invalid"},
            hint : Hints, shows : SUBSET Keys]

ASSUME NoneAssumption == None \notin Agents \cup Types \cup Request \cup Reply \cup Outcome

VARIABLES
    wish,      \* what each agent was asked for
    asked,     \* the call it waits for or has had last, or None
    wire,      \* its request, as the server sees it
    reply,     \* the reply of the server, or None
    outcome,   \* what the call returned, or None
    key,       \* the s3_key it works with, as a set: none or one
    told,      \* what it tells its user
    ghosts,    \* requests not served when their calls returned
    faults,    \* calls without a proper answer so far
    owner,     \* whose file each key is for: an agent's, or None
    stored,    \* the bytes under each key: their type, or None
    expired,   \* keys whose upload URL has expired
    docs,      \* the documents of the property: pairs of key and category
    gallery,   \* its photos, by key
    photos,    \* all the photos ever added
    before,    \* photos tagged by the user
    after,     \* renders in the ledger
    overtaken  \* agents that listed the photos while an upload of theirs was
               \* still to be served, or whose document was recorded late

agents == <<wish, asked, wire, reply, outcome, key, told, ghosts, faults>>
files == <<owner, stored, expired>>
property == <<docs, gallery, photos, before, after>>
vars == <<agents, files, property, overtaken>>

-----------------------------------------------------------------------------
(* The server's answers, read by the client and the tools.                 *)

O(kind, hint, shows) == [kind |-> kind, hint |-> hint, shows |-> shows]

(* An error of apiDo or renoDo that names the status. *)
StatusError(r, hint) ==
    O(IF r.status \in 400..499 THEN "refused" ELSE "trouble", hint, {})

(* The hints of documentError, in its order.  The second is never given    *)
(* here: an agent confirms the keys it was issued for the property.        *)
documentError(r) ==
    IF r = None THEN "none"
    ELSE IF r.message = "no_file_found" THEN "put_it"
    ELSE IF r.message = "not_issued" THEN "exact_key"
    ELSE IF r.message = "unsupported_type" THEN "put_typed"
    ELSE IF r.status = 409 THEN "recorded"
    ELSE IF r.status = 403 THEN "no_access"
    ELSE IF r.status = 429 THEN "wait"
    ELSE "none"

(* The hints of mediaError, in its order.                                  *)
mediaError(r) ==
    IF r = None THEN "none"
    ELSE IF r.message = "not_fetched" THEN "another_link"
    ELSE IF r.status = 403 THEN "no_access"
    ELSE IF r.status = 404 /\ r.message = "image_not_found"
         THEN "nothing_removed"
    ELSE IF r.status = 429 THEN "wait"
    ELSE "none"

(* apiDo takes any 2xx; its other errors, those of a call without usable   *)
(* response (None), have no status.                                        *)
apiDo(r, hint) ==
    IF r = None THEN O("failed", "none", {})
    ELSE IF r.status \in 200..299 THEN O("ok", "none", r.shows)
    ELSE StatusError(r, hint)

(* Faulty variant: the status is not looked at.                            *)
renoDoAnyStatus(r) ==
    IF r = None THEN O("failed", "none", {}) ELSE O("ok", "none", r.shows)

(* renoDo takes 200 only.  A 200 without data is an empty result (shows    *)
(* {}): the backend here sends it for an empty list only.                  *)
renoDo(r) ==
    IF r = None THEN O("failed", "none", {})
    ELSE IF r.status = 200 THEN O("ok", "none", r.shows)
    ELSE StatusError(r, "none")

(* The five tools on it add no hint, but list_property_images for a 500.   *)
ListPropertyImages(r) ==
    IF r # None /\ r.status = 500 THEN StatusError(r, "check_property") ELSE renoDo(r)

UploadPropertyImage(r) ==
    IF r = None THEN O("failed", "maybe_added", {}) ELSE apiDo(r, mediaError(r))

(* What the caller of a tool gets for reply r of the server, or for none.  *)
Returned(tool, r) ==
    IF tool = "upload_property_image" THEN UploadPropertyImage(r)
    ELSE IF tool \in MediaTools THEN apiDo(r, mediaError(r))
    ELSE IF tool \in DocumentTools THEN apiDo(r, documentError(r))
    ELSE IF tool = "list_property_images" THEN ListPropertyImages(r)
    ELSE renoDo(r)    \* or, of the store: it must answer 200

(* Faulty variant: the category is left to the API.                        *)
AnyDocumentCategory(c) == TRUE

validateDocumentCategory(c) == c \in Categories

(* The checks of the handlers: no request is sent without its key.         *)
DocumentInput(c) ==
    c.tool = "confirm_property_document_upload" =>
        c.keys # {} /\ validateDocumentCategory(c.as)
MediaInput(c) == c.tool = "remove_property_images" => c.keys # {}
TagInput(c) == c.tool = "tag_property_images" => c.keys # {}
SubmitInput(c) == c.tool = "submit_property_renovation" => c.keys # {}

Given(c) == DocumentInput(c) /\ MediaInput(c) /\ TagInput(c) /\ SubmitInput(c)

-----------------------------------------------------------------------------
(* What an agent calls next: its last call was c (None: it has made none)  *)
(* and returned o.                                                         *)

(* The requests of the client's methods. *)
Presign == {C("get_property_document_upload_url", {}, "none")}
Put(k, types) == {C("PUT", k, type) : type \in types}
Confirm(k, categories) == {C("confirm_property_document_upload", k, c) : c \in categories}
ListDocuments == {C("list_property_documents", {}, "none")}
AddPhoto == {C("upload_property_image", {}, "none")}
ListPhotos == {C("list_property_images", {}, "none")}
RemovePhotos(keys) == {C("remove_property_images", keys, "none")}
TagPhotos(keys) == {C("tag_property_images", keys, "none")}
SaveRender == {C("save_renovation_image", {}, "none")}
SubmitRender(k) == {C("submit_property_renovation", k, "none")}
ReadLedger == {C("get_renovation_ledger", {}, "none")}

(* Faulty variant: an upload URL is taken to last for ever.                *)
AfterPutSameURL(w, c, o, k) == IF o.kind = "ok" THEN Confirm(k, w.categories) ELSE {c}

(* The PUT must answer 200; a URL that has expired is replaced.            *)
AfterPut(w, c, o, k) ==
    IF o.kind = "ok" THEN Confirm(k, w.categories)
    ELSE IF o.kind = "refused" THEN Presign
    ELSE {c}

(* Faulty variant: after a confirmation that failed all is done again.     *)
AfterConfirmAnew(w, o, k) == Presign

(* What the hint says; a confirmation is safe to retry, the user may       *)
(* choose another category.                                                *)
AfterConfirm(w, o, k) ==
    IF o.hint = "put_it" THEN Put(k, Types)
    ELSE IF o.hint = "put_typed" THEN Put(k, {"typed"})
    ELSE IF o.hint = "recorded" THEN ListDocuments
    ELSE IF o.kind = "invalid" THEN Confirm(k, w.categories \cap Categories)
    ELSE Confirm(k, w.categories)

Document(w, c, o, k) ==
    IF c = None THEN Presign
    ELSE IF c.tool = "get_property_document_upload_url"
    THEN IF o.kind = "ok" THEN Put(k, Types) ELSE Presign
    ELSE IF c.tool = "PUT" THEN AfterPut(w, c, o, k)
    ELSE IF c.tool = "confirm_property_document_upload" THEN AfterConfirm(w, o, k)
    ELSE ListDocuments

(* Faulty variant: an upload that failed is made again.                    *)
PhotoBlindly(c, o) == AddPhoto

(* "Not idempotent: each call adds another copy, so don't retry blindly -  *)
(* call list_property_images first."                                       *)
Photo(c, o) ==
    IF c = None \/ o.hint = "wait" THEN AddPhoto
    ELSE IF c.tool = "list_property_images" /\ o.kind = "ok" THEN AddPhoto
    ELSE ListPhotos

(* Keys are those listed; the error of a removal asks to list them again.  *)
Removal(w, c, o) ==
    IF c = None THEN ListPhotos
    ELSE IF c.tool = "list_property_images" /\ o.kind = "ok"
    THEN RemovePhotos(w.keys \cap o.shows)
    ELSE ListPhotos

(* Tag the photo, save the render, submit its key (to an underwriting      *)
(* version that is there: UnderwritingVersions has the others).  Whatever  *)
(* a submission returned, the ledger tells whether the render is recorded; *)
(* one that is not is submitted again, to the same version.                *)
Render(w, c, o, k) ==
    IF c = None THEN TagPhotos(w.keys)
    ELSE IF c.tool = "tag_property_images" /\ o.kind # "ok" THEN TagPhotos(w.keys)
    ELSE IF c.tool = "tag_property_images" \/ (c.tool = "save_renovation_image" /\ o.kind # "ok")
    THEN SaveRender
    ELSE IF c.tool \in {"save_renovation_image", "get_renovation_ledger"} /\ o.kind = "ok"
    THEN SubmitRender(k)
    ELSE ReadLedger

NextCalls(i) ==
    LET w == wish[i] c == asked[i] o == outcome[i] IN
    IF wire[i] # "none" \/ told[i] # "none" THEN {}    \* it waits or has told its user
    ELSE CASE w.what = "document" -> Document(w, c, o, key[i])
           [] w.what = "photo" -> Photo(c, o)
           [] w.what = "removal" -> Removal(w, c, o)
           [] w.what = "render" -> Render(w, c, o, key[i])

(* Call c of agent i returned o: its wish is done, it is refused or there  *)
(* is more to do ("none").  The success of a submission is not the end: it *)
(* "confirms the underwriting room only" (renovation.go:171).              *)
Last == {"confirm_property_document_upload", "upload_property_image",
         "remove_property_images"}
Hopeful == {"put_it", "put_typed", "recorded", "nothing_removed", "wait"}

(* What a list shows: its own document, photo or render, or no key that    *)
(* was to be removed.                                                      *)
Listed(i, o) ==
    LET own == {k \in o.shows : owner[k] = i} IN
    CASE wish[i].what \in {"document", "render"} -> key[i] \subseteq own
      [] wish[i].what = "photo" -> own # {}
      [] wish[i].what = "removal" -> wish[i].keys \cap o.shows = {}

Verdict(i, c, o) ==
    IF o.kind = "ok" /\ (\/ c.tool \in Last
                         \/ /\ c.tool \in {"list_property_documents",
                                           "list_property_images", "get_renovation_ledger"}
                            /\ Listed(i, o))
    THEN "done"
    ELSE IF o.kind = "refused" /\ o.hint \notin Hopeful /\ c.tool # "PUT"
    THEN "refused"
    ELSE "none"

-----------------------------------------------------------------------------
TypeOK ==
    /\ wish \in Scenarios
    /\ asked \in [Agents -> Request \cup {None}]
    /\ wire \in [Agents -> {"none", "sent", "served"}]
    /\ reply \in [Agents -> Reply \cup {None}]
    /\ outcome \in [Agents -> Outcome \cup {None}]
    /\ \A i \in Agents : key[i] \subseteq Keys /\ Cardinality(key[i]) <= 1
    /\ told \in [Agents -> {"none", "done", "refused"}]
    /\ faults \in 0..MaxFaults
    /\ owner \in [Keys -> Agents \cup {None}]
    /\ stored \in [Keys -> Types \cup {None}]
    /\ expired \subseteq Keys
    /\ docs \subseteq Keys \X Categories
    /\ photos \cup before \cup after \subseteq Keys
    /\ gallery \subseteq photos
    /\ overtaken \subseteq Agents

Init ==
    /\ wish \in Scenarios
    /\ asked = [i \in Agents |-> None]
    /\ wire = [i \in Agents |-> "none"]
    /\ reply = [i \in Agents |-> None]
    /\ outcome = [i \in Agents |-> None]
    /\ key = [i \in Agents |-> {}]
    /\ told = [i \in Agents |-> "none"]
    /\ ghosts = {}
    /\ faults = 0
    /\ owner = [k \in Keys |-> None]
    /\ stored = [k \in Keys |-> IF k <= Photos THEN "typed" ELSE None]
    /\ expired = {}
    /\ docs = {}
    /\ gallery = 1..Photos
    /\ photos = 1..Photos
    /\ before = {}
    /\ after = {}
    /\ overtaken = {}

(* The call of agent i returns o.                                          *)
Return(i, c, o) ==
    /\ wire' = [wire EXCEPT ![i] = "none"]
    /\ outcome' = [outcome EXCEPT ![i] = o]
    /\ told' = [told EXCEPT ![i] = Verdict(i, c, o)]
    /\ key' = IF /\ o.kind = "ok"
                 /\ c.tool \in {"get_property_document_upload_url", "save_renovation_image"}
              THEN [key EXCEPT ![i] = o.shows] ELSE key

(* A call that is not valid is answered at once.                           *)
Call(i, c) ==
    /\ asked' = [asked EXCEPT ![i] = c]
    /\ reply' = [reply EXCEPT ![i] = None]
    /\ IF Given(c)
       THEN /\ wire' = [wire EXCEPT ![i] = "sent"]
            /\ outcome' = [outcome EXCEPT ![i] = None]
            /\ UNCHANGED <<told, key>>
       ELSE Return(i, c, O("invalid", "pick_category", {}))
    /\ UNCHANGED <<wish, ghosts, faults, files, property, overtaken>>

Receive(i) ==
    /\ wire[i] = "served"
    /\ Return(i, asked[i], Returned(asked[i].tool, reply[i]))
    /\ UNCHANGED <<wish, asked, reply, ghosts, faults, files, property, overtaken>>

(* The call times out, the connection breaks, the API fails or a gateway   *)
(* answers.                                                                *)
NoAnswer(i) ==
    /\ wire[i] \in {"sent", "served"}
    /\ faults < MaxFaults
    /\ faults' = faults + 1
    /\ \E r \in {None, A(500, "none", {}), A(502, "none", {})} : Return(i, asked[i], Returned(asked[i].tool, r))
    /\ ghosts' = IF wire[i] = "sent" THEN ghosts \cup {<<i, asked[i], faults>>} ELSE ghosts
    /\ UNCHANGED <<wish, asked, reply, files, property, overtaken>>

-----------------------------------------------------------------------------
(* The backend serves call c of agent i.  If `late`, nobody hears it.      *)

Answer(i, late, r) == reply' = IF late THEN reply ELSE [reply EXCEPT ![i] = r]

Unused == {k \in Keys : k > Photos /\ owner[k] = None}

(* A new key, for a file of agent i; MaxKeys bounds them.                  *)
Mint(i, late, type, status) ==
    \E k \in Unused :
        /\ \A l \in Unused : k <= l
        /\ owner' = [owner EXCEPT ![k] = i]
        /\ stored' = [stored EXCEPT ![k] = type]
        /\ Answer(i, late, A(status, "none", {k}))

PresignServed(i, c, late) ==
    /\ c.tool = "get_property_document_upload_url"
    /\ Mint(i, late, None, 200)
    /\ UNCHANGED <<expired, property, overtaken>>

(* The store takes what it is sent while the URL is good; an upload that   *)
(* is late may have begun before.                                          *)
PutServed(i, c, late) ==
    /\ c.tool = "PUT"
    /\ IF late \/ c.keys \cap expired = {}
       THEN /\ stored' = [k \in Keys |-> IF k \in c.keys THEN c.as ELSE stored[k]]
            /\ Answer(i, late, A(200, "none", c.keys))
       ELSE /\ Answer(i, late, A(403, "none", {}))
            /\ UNCHANGED stored
    /\ UNCHANGED <<owner, expired, property, overtaken>>

(* A document that is recorded stays so, under its category.               *)
Confirmed(i, c, late, k) ==
    IF <<k, c.as>> \in docs
    THEN Answer(i, late, A(200, "none", {k})) /\ UNCHANGED docs
    ELSE IF k \in {d[1] : d \in docs}
    THEN Answer(i, late, A(409, "none", {})) /\ UNCHANGED docs
    ELSE IF stored[k] = None
    THEN Answer(i, late, A(404, "no_file_found", {})) /\ UNCHANGED docs
    ELSE IF stored[k] = "untyped"
    THEN Answer(i, late, A(400, "unsupported_type", {})) /\ UNCHANGED docs
    ELSE Answer(i, late, A(200, "none", {k})) /\ docs' = docs \cup {<<k, c.as>>}

ConfirmServed(i, c, late) ==
    /\ c.tool = "confirm_property_document_upload"
    /\ \E k \in c.keys : Confirmed(i, c, late, k)
    /\ overtaken' = IF late /\ docs' # docs THEN overtaken \cup {i} ELSE overtaken
    /\ UNCHANGED <<files, gallery, photos, before, after>>

Lists(c) ==
    IF c.tool = "list_property_documents" THEN {d[1] : d \in docs}
    ELSE IF c.tool = "list_property_images" THEN gallery
    ELSE after

ListServed(i, c, late) ==
    /\ c.tool \in {"list_property_documents", "list_property_images", "get_renovation_ledger"}
    /\ Answer(i, late, A(200, "none", Lists(c)))
    /\ overtaken' = IF /\ ~late /\ c.tool = "list_property_images"
                   /\ \E g \in ghosts : g[1] = i /\ g[2].tool = "upload_property_image"
                THEN overtaken \cup {i} ELSE overtaken
    /\ UNCHANGED <<files, property>>

AddServed(i, c, late) ==
    /\ c.tool = "upload_property_image"
    /\ Mint(i, late, "typed", 201)
    /\ gallery' = gallery \cup {k \in Keys : owner'[k] # owner[k]}
    /\ photos' = photos \cup gallery'
    /\ UNCHANGED <<expired, docs, before, after, overtaken>>

RemoveServed(i, c, late) ==
    /\ c.tool = "remove_property_images"
    /\ IF c.keys \subseteq gallery
       THEN /\ gallery' = gallery \ c.keys
            /\ Answer(i, late, A(200, "none", gallery'))
       ELSE /\ Answer(i, late, A(404, "image_not_found", {}))
            /\ UNCHANGED gallery
    /\ UNCHANGED <<files, docs, photos, before, after, overtaken>>

TagServed(i, c, late) ==
    /\ c.tool = "tag_property_images"
    /\ IF c.keys \subseteq gallery
       THEN before' = before \cup c.keys /\ Answer(i, late, A(200, "none", before'))
       ELSE Answer(i, late, A(404, "image_not_found", {})) /\ UNCHANGED before
    /\ UNCHANGED <<files, docs, gallery, photos, after, overtaken>>

SaveServed(i, c, late) ==
    /\ c.tool = "save_renovation_image"
    /\ Mint(i, late, "typed", 200)
    /\ UNCHANGED <<expired, property, overtaken>>

SubmitServed(i, c, late) ==
    /\ c.tool = "submit_property_renovation"
    /\ after' = after \cup c.keys
    /\ Answer(i, late, A(200, "none", c.keys))
    /\ UNCHANGED <<files, docs, gallery, photos, before, overtaken>>

(* The submission has changed the underwriting, but not the ledger, whose  *)
(* update is best-effort.  (One that nobody hears of is no different from  *)
(* one that is never served.)                                              *)
SubmitUnrecorded(i) ==
    /\ wire[i] = "sent"
    /\ asked[i].tool = "submit_property_renovation"
    /\ faults < MaxFaults
    /\ faults' = faults + 1
    /\ wire' = [wire EXCEPT ![i] = "served"]
    /\ Answer(i, FALSE, A(200, "none", asked[i].keys))
    /\ UNCHANGED <<wish, asked, outcome, key, told, ghosts, files, property, overtaken>>

Served(i, c, late) ==
    \/ PresignServed(i, c, late) \/ PutServed(i, c, late) \/ ConfirmServed(i, c, late)
    \/ ListServed(i, c, late) \/ AddServed(i, c, late) \/ RemoveServed(i, c, late)
    \/ TagServed(i, c, late) \/ SaveServed(i, c, late) \/ SubmitServed(i, c, late)

Serve(i) ==
    /\ wire[i] = "sent"
    /\ wire' = [wire EXCEPT ![i] = "served"]
    /\ Served(i, asked[i], FALSE)
    /\ UNCHANGED <<wish, asked, outcome, key, told, ghosts, faults>>

(* No access, too many requests, an image that cannot be fetched.          *)
Refuse(i) ==
    /\ wire[i] = "sent"
    /\ faults < MaxFaults
    /\ faults' = faults + 1
    /\ wire' = [wire EXCEPT ![i] = "served"]
    /\ \E r \in {A(403, "none", {}), A(429, "none", {}), A(400, "not_fetched", {})} :
          Answer(i, FALSE, r)
    /\ UNCHANGED <<wish, asked, outcome, key, told, ghosts, files, property, overtaken>>

ServeLate(g) ==
    /\ ghosts' = ghosts \ {g}
    /\ Served(g[1], g[2], TRUE)
    /\ UNCHANGED <<wish, asked, wire, outcome, key, told, faults>>

(* 15 minutes after it was issued.                                         *)
Expire(k) ==
    /\ owner[k] # None
    /\ wish[owner[k]].what = "document"
    /\ k \notin expired
    /\ Cardinality(expired) < MaxExpired
    /\ expired' = expired \cup {k}
    /\ UNCHANGED <<agents, owner, stored, property, overtaken>>

Idle == (\A i \in Agents : told[i] # "none") /\ UNCHANGED vars

Next ==
    \/ \E i \in Agents : \E c \in NextCalls(i) : Call(i, c)
    \/ \E i \in Agents : Receive(i) \/ NoAnswer(i) \/ Serve(i) \/ Refuse(i)
                            \/ SubmitUnrecorded(i)
    \/ \E g \in ghosts : ServeLate(g)
    \/ \E k \in Keys : Expire(k)
    \/ Idle

Spec == Init /\ [][Next]_vars

(***************************************************************************)
(* Fairness.  An agent goes on, the client returns what it receives and    *)
(* the servers serve what they are sent.  Lost replies, refusals, expiry   *)
(* and late requests are not owed.                                         *)
(***************************************************************************)
Fairness ==
    \A i \in Agents :
        /\ WF_vars(\E c \in NextCalls(i) : Call(i, c))
        /\ WF_vars(Receive(i))
        /\ WF_vars(Serve(i))

FairSpec == Spec /\ Fairness

-----------------------------------------------------------------------------
(* Properties *)

(* A file is recorded on the property once, however often its upload and   *)
(* its confirmation are repeated or made with another category, for        *)
(* documents cannot be deleted; unless a confirmation took effect after    *)
(* its call had given up, and the agent had gone on to another upload URL  *)
(* (documents.go:22, 143).                                                 *)
AttachedOnce ==
    \A i \in Agents :
        Cardinality({d \in docs : owner[d[1]] = i}) > 1 => i \in overtaken

(* What an agent tells its user is done is done: the document is recorded  *)
(* under the key it holds, the photo is there, none of the photos to be    *)
(* removed is, the render is in the ledger (which the success of a         *)
(* submission does not say) and its photo tagged (documents.go:36-57,      *)
(* media.go:24-41, renovation.go:134-185).                                 *)
DoneIsDone ==
    \A i \in Agents : told[i] = "done" =>
        CASE wish[i].what = "document" ->
                \E d \in docs : /\ {d[1]} = key[i] /\ owner[d[1]] = i
                                /\ d[2] \in wish[i].categories
          [] wish[i].what = "photo" -> \E k \in gallery : owner[k] = i
          [] wish[i].what = "removal" -> wish[i].keys \cap gallery = {}
          [] wish[i].what = "render" -> key[i] # {} /\ key[i] \subseteq after
                                          /\ wish[i].keys \subseteq before

(* A photo is there twice only if the list its agent looked at before the  *)
(* second upload was served before the first upload was (media.go:47).     *)
CopyOnlyIfOvertaken ==
    \A i \in Agents : Cardinality({k \in gallery : owner[k] = i}) > 1 => i \in overtaken

(* Every wish is fulfilled or reported as refused: no hint sends an agent  *)
(* round for ever.                                                         *)
EveryWishEnds == \A i \in Agents : <>(told[i] # "none")

=============================================================================

---------------------------- MODULE UploadsProofs ----------------------------
(***************************************************************************)
(* Proofs about Uploads, for every set of agents, every wishes and every   *)
(* bound.                                                                  *)
(*                                                                         *)
(* The inductive invariant Inv says of each agent that its call and its    *)
(* requests that are still to be served fit its wish (Fitting), that the   *)
(* answers of its call tell the truth (Truth), that a document of its is   *)
(* recorded only under the key it holds and then nothing sends it back to  *)
(* the upload (OneDocument), that it uploads a photo only when there is    *)
(* none and none on its way (OnePhoto), and that what it has told its user *)
(* is so (Told).  What others do, and late requests of its own, leave all  *)
(* that as it is: Moves lists what they may do to the property, and        *)
(* Undisturbed shows that it is enough.                                    *)
(***************************************************************************)
EXTENDS Uploads, TLAPS, FiniteSetTheorems

Own(i) == {k \in gallery : owner[k] = i}
Docs(i) == {d \in docs : owner[d[1]] = i}
Pending(i) == {g \in ghosts : g[1] = i /\ g[2].tool = "upload_property_image"}

World ==
    /\ owner \in [Keys -> Agents \cup {None}]
    /\ stored \in [Keys -> Types \cup {None}]
    /\ expired \subseteq Keys
    /\ docs \subseteq Keys \X Categories
    /\ gallery \subseteq photos /\ photos \subseteq Keys
    /\ before \subseteq Keys /\ after \subseteq Keys
    /\ \A k \in Keys : k <= Photos => owner[k] = None
    /\ \A d \in docs : owner[d[1]] # None
    /\ \A k \in gallery : k <= Photos \/ owner[k] # None

Common ==
    /\ wish \in Scenarios
    /\ asked \in [Agents -> Request \cup {None}]
    /\ wire \in [Agents -> {"none", "sent", "served"}]
    /\ reply \in [Agents -> Reply \cup {None}]
    /\ outcome \in [Agents -> Outcome \cup {None}]
    /\ key \in [Agents -> SUBSET Keys]
    /\ told \in [Agents -> {"none", "done", "refused"}]
    /\ faults \in 0..MaxFaults
    /\ overtaken \subseteq Agents

(* A call that fits the wish of agent i. *)
Fitting(i, c) ==
    /\ c \in Request
    /\ c.tool \in DocumentTools \cup {"PUT"} => wish[i].what = "document"
    /\ c.tool = "upload_property_image" => wish[i].what = "photo"
    /\ c.tool = "list_property_images" => wish[i].what \in {"photo", "removal"}
    /\ c.tool = "remove_property_images" => wish[i].what = "removal" /\ c.keys \subseteq wish[i].keys
    /\ c.tool \in RenovationTools \ {"list_property_images"} => wish[i].what = "render"
    /\ c.tool = "PUT" => c.as \in Types
    /\ c.tool = "confirm_property_document_upload" =>
          c.as \in wish[i].categories /\ \A k \in c.keys : owner[k] = i

GhostsOK ==
    \A g \in ghosts : /\ g = <<g[1], g[2], g[3]>> /\ g[1] \in Agents
                      /\ Fitting(g[1], g[2]) /\ Given(g[2])

(* The key agent i holds. *)
KeyOK(i) ==
    /\ key[i] = {} \/ \E k \in Keys : key[i] = {k}
    /\ \A k \in key[i] : owner[k] = i

(* Call c of agent i is in its place: what comes before it is done.        *)
Ready(i, c) ==
    /\ c.tool \in {"PUT", "confirm_property_document_upload", "submit_property_renovation"} =>
          c.keys = key[i]
    /\ c.tool \in {"PUT", "confirm_property_document_upload", "list_property_documents",
                   "submit_property_renovation", "get_renovation_ledger"} => key[i] # {}
    /\ c.tool = "tag_property_images" => c.keys = wish[i].keys
    /\ c.tool \in {"save_renovation_image", "submit_property_renovation",
                   "get_renovation_ledger"} => wish[i].keys \subseteq before
    /\ c.tool = "remove_property_images" => (wish[i].keys \ c.keys) \cap gallery = {}

(* Where agent i is with its wish. *)
Place(i) ==
    /\ told[i] # "none" => wire[i] = "none"
    /\ asked[i] = None => wire[i] = "none" /\ outcome[i] = None /\ told[i] = "none"
    /\ wire[i] = "served" => reply[i] # None
    /\ asked[i] # None =>
       /\ Fitting(i, asked[i]) /\ Ready(i, asked[i])
       /\ wire[i] = "none" => outcome[i] # None
       /\ wire[i] # "none" => Given(asked[i])

(* No photo of agent i is there or on its way; at most one is.             *)
Clean(i) == Own(i) = {} /\ Pending(i) = {}
Few(i) == \/ Own(i) = {} /\ (Pending(i) = {} \/ \E g \in ghosts : Pending(i) = {g})
          \/ (\E k \in Keys : Own(i) = {k}) /\ Pending(i) = {}

(* What is so once call c of agent i is answered with a 2xx that shows     *)
(* `shows`.                                                                *)
Truth(i, c, shows) ==
    /\ c.tool \in {"get_property_document_upload_url", "save_renovation_image"} =>
          \E k \in Keys : shows = {k} /\ owner[k] = i
    /\ c.tool = "confirm_property_document_upload" =>
          \E d \in docs : {d[1]} = key[i] /\ owner[d[1]] = i /\ d[2] \in wish[i].categories
    /\ c.tool = "list_property_documents" => shows \subseteq {d[1] : d \in docs}
    /\ c.tool = "upload_property_image" => Own(i) # {}
    /\ c.tool = "list_property_images" =>
          /\ \A k \in shows : k <= Photos \/ k \in gallery
          /\ \A k \in gallery : k <= Photos => k \in shows
          /\ i \notin overtaken => Clean(i) \/ \E k \in shows : owner[k] = i
    /\ c.tool = "remove_property_images" => c.keys \cap gallery = {}
    /\ c.tool = "tag_property_images" => c.keys \subseteq before
    /\ c.tool = "get_renovation_ledger" => shows \subseteq after

Heard(i) ==
    asked[i] # None =>
       /\ wire[i] = "served" /\ reply[i].status \in 200..299 =>
             Truth(i, asked[i], reply[i].shows)
       /\ wire[i] = "none" /\ outcome[i].kind = "ok" =>
             /\ Truth(i, asked[i], outcome[i].shows)
             /\ asked[i].tool \in {"get_property_document_upload_url", "save_renovation_image"} =>
                   key[i] = outcome[i].shows

(* The documents of agent i, unless it has been overtaken.                 *)
Settled(i) ==
    /\ asked[i] # None
    /\ asked[i].tool \in {"confirm_property_document_upload", "list_property_documents"}
    /\ wire[i] = "served" =>
          reply[i].message \notin {"no_file_found", "unsupported_type"}
    /\ wire[i] = "none" =>
          outcome[i].hint \notin {"put_it", "put_typed"}

OneDocument(i) ==
    /\ \A d \in Docs(i) : d[2] \in wish[i].categories
    /\ i \notin overtaken =>
          \/ Docs(i) = {}
          \/ Settled(i) /\ \E d \in docs : Docs(i) = {d} /\ key[i] = {d[1]}

(* Its photos, unless it has been overtaken.                               *)
OnePhoto(i) ==
    /\ wish[i].what # "photo" => Own(i) = {}
    /\ i \notin overtaken =>
       /\ Few(i)
       /\ asked[i] = None => Clean(i)
       /\ asked[i] # None /\ asked[i].tool = "upload_property_image" =>
             /\ wire[i] = "sent" => Clean(i)
             /\ wire[i] = "served" /\ reply[i].status = 429 => Clean(i)
       /\ asked[i] # None /\ wire[i] = "none" /\ wish[i].what = "photo" =>
             /\ outcome[i].hint = "wait" => Clean(i)
             /\ (/\ asked[i].tool = "list_property_images" /\ outcome[i].kind = "ok"
                 /\ told[i] = "none") => Clean(i)

(* What is so when agent i tells its user that its wish is done.           *)
Fulfilled(i) ==
    CASE wish[i].what = "document" ->
            \E d \in docs : /\ {d[1]} = key[i] /\ owner[d[1]] = i
                            /\ d[2] \in wish[i].categories
      [] wish[i].what = "photo" -> \E k \in gallery : owner[k] = i
      [] wish[i].what = "removal" -> wish[i].keys \cap gallery = {}
      [] wish[i].what = "render" -> key[i] # {} /\ key[i] \subseteq after
                                      /\ wish[i].keys \subseteq before

Told(i) == told[i] = "done" => Fulfilled(i)

AgentInv(i) ==
    KeyOK(i) /\ Place(i) /\ Heard(i) /\ OneDocument(i) /\ OnePhoto(i) /\ Told(i)

Inv == World /\ Common /\ GhostsOK /\ \A i \in Agents : AgentInv(i)

-----------------------------------------------------------------------------
(* What serving a request may do to the property: no owner, document, tag  *)
(* or render is lost, and of the photos only those of the beginning.       *)
Moves ==
    /\ \A k \in Keys : owner[k] # None => owner'[k] = owner[k]
    /\ docs \subseteq docs' /\ before \subseteq before' /\ after \subseteq after'
    /\ overtaken \subseteq overtaken'
    /\ \A k \in gallery' : k <= Photos => k \in gallery
    /\ \A k \in gallery : k <= Photos \/ k \in gallery'

(* Nothing of agent i is added.                                            *)
Apart(i) ==
    /\ Own(i)' = Own(i)
    /\ Docs(i)' = Docs(i)
    /\ i \in overtaken' <=> i \in overtaken

(* Key k is minted for agent j. *)
Minted(j, k) ==
    /\ k > Photos /\ owner[k] = None /\ k \notin gallery
    /\ \A d \in docs : d[1] # k
    /\ owner' = [owner EXCEPT ![k] = j]
    /\ owner' \in [Keys -> Agents \cup {None}]
    /\ stored' \in [Keys -> Types \cup {None}]

(* A new key is for the agent that asked, and for nobody before.           *)
LEMMA MintMoves ==
    ASSUME World, NEW j \in Agents, NEW late, NEW type \in Types \cup {None}, NEW status,
           Mint(j, late, type, status)
    PROVE  \E k \in Keys : Minted(j, k) /\ Answer(j, late, A(status, "none", {k}))
  <1>1. PICK k \in Unused : /\ owner' = [owner EXCEPT ![k] = j]
                            /\ stored' = [stored EXCEPT ![k] = type]
                            /\ Answer(j, late, A(status, "none", {k}))
    BY DEF Mint
  <1>2. k \in Keys /\ k > Photos /\ owner[k] = None
    BY <1>1 DEF Unused
  <1>3. /\ owner' \in [Keys -> Agents \cup {None}]
        /\ stored' \in [Keys -> Types \cup {None}]
    BY <1>1, <1>2 DEF World
  <1>4. k \notin gallery
    BY <1>2, BoundsAssumption DEF World, Keys
  <1>5. \A d \in docs : d[1] # k
    BY <1>2 DEF World
  <1> QED BY <1>1, <1>2, <1>3, <1>4, <1>5 DEF Minted

(* What is added to the property with the key is for agent j alone.        *)
LEMMA MintAlone ==
    ASSUME World, NEW j \in Agents, NEW k \in Keys, Minted(j, k),
           UNCHANGED <<expired, property, overtaken>>
    PROVE  /\ World' /\ Moves
           /\ \A i \in Agents : Apart(i)
  <1>1. World'
    BY BoundsAssumption, NoneAssumption DEF World, property, Keys, Minted
  <1>2. Moves
    BY DEF Moves, property, World, Minted
  <1>3. ASSUME NEW i \in Agents PROVE Apart(i)
    <2>1. Own(i)' = Own(i)
      BY DEF Own, property, World, Minted
    <2>2. Docs(i)' = Docs(i)
      <3>1. \A d \in docs : d[1] \in Keys
        BY DEF World
      <3> QED BY <3>1 DEF Docs, property, World, Minted
    <2> QED BY <2>1, <2>2 DEF Apart
  <1> QED BY <1>1, <1>2, <1>3

(* What request c of agent j does when it is served: Served, action by     *)
(* action.  Lasting are the tools that add nothing to what the invariant   *)
(* counts of agent j itself.                                               *)
Lasting == ToolNames \ {"confirm_property_document_upload", "upload_property_image",
                        "list_property_images"}

(* Whatever the backend serves for agent j only Moves the property, and    *)
(* leaves what the other agents hold as it is; only what can be seen later *)
(* (Lasting) may change what j holds.                                      *)
LEMMA ServedMoves ==
    ASSUME World, overtaken \subseteq Agents, wish \in Scenarios, wish' = wish,
           NEW j \in Agents, NEW c, Fitting(j, c), Given(c), NEW late \in BOOLEAN,
           Served(j, c, late)
    PROVE  /\ World' /\ Moves /\ (overtaken \subseteq Agents)'
           /\ \A i \in Agents \ {j} : Apart(i)
           /\ c.tool \in Lasting => Apart(j)
  <1>1. CASE PresignServed(j, c, late)
    <2>1. PICK k \in Keys : Minted(j, k)
      <3>1. Mint(j, late, None, 200)
        BY <1>1 DEF PresignServed
      <3>2. None \in Types \cup {None}
        BY DEF Types
      <3> QED BY <3>1, <3>2, MintMoves
    <2>2. UNCHANGED <<expired, property, overtaken>>
      BY <1>1 DEF PresignServed
    <2> QED BY <2>1, <2>2, MintAlone
  <1>2. CASE SaveServed(j, c, late)
    <2>1. PICK k \in Keys : Minted(j, k)
      <3>1. Mint(j, late, "typed", 200)
        BY <1>2 DEF SaveServed
      <3>2. "typed" \in Types \cup {None}
        BY DEF Types
      <3> QED BY <3>1, <3>2, MintMoves
    <2>2. UNCHANGED <<expired, property, overtaken>>
      BY <1>2 DEF SaveServed
    <2> QED BY <2>1, <2>2, MintAlone
  <1>3. CASE AddServed(j, c, late)
    <2>1. PICK k \in Keys : Minted(j, k)
      <3>1. Mint(j, late, "typed", 201)
        BY <1>3 DEF AddServed
      <3>2. "typed" \in Types \cup {None}
        BY DEF Types
      <3> QED BY <3>1, <3>2, MintMoves
    <2>2. UNCHANGED <<expired, docs, before, after, overtaken>>
      BY <1>3 DEF AddServed
    <2>3. gallery' = gallery \cup {k}
      <3>1. {l \in Keys : owner'[l] # owner[l]} = {k}
        BY <2>1, NoneAssumption DEF World, Minted
      <3> QED BY <1>3, <3>1 DEF AddServed
    <2>4. photos' = photos \cup gallery'
      BY <1>3 DEF AddServed
    <2>5. World'
      <3>1. j # None /\ owner'[k] = j
        BY <2>1, NoneAssumption DEF World, Minted
      <3>2. \A d \in docs : d[1] \in Keys
        BY DEF World
      <3>3. \A l \in Keys : l # k => owner'[l] = owner[l]
        BY <2>1 DEF World, Minted
      <3>4. \A l \in gallery' : l <= Photos \/ owner'[l] # None
        BY <2>3, <3>1, <3>3 DEF World
      <3>5. \A l \in Keys : l <= Photos => owner'[l] = None
        BY <2>1, <3>3, BoundsAssumption DEF World, Keys, Minted
      <3>6. \A d \in docs : owner'[d[1]] # None
        BY <3>1, <3>2, <3>3 DEF World
      <3>7. gallery' \subseteq photos' /\ photos' \subseteq Keys
        BY <2>3, <2>4 DEF World
      <3> QED BY <2>1, <2>2, <3>4, <3>5, <3>6, <3>7 DEF World, Minted
    <2>6. Moves
      BY <2>1, <2>2, <2>3, BoundsAssumption DEF Moves, World, Keys, Minted
    <2>7. ASSUME NEW i \in Agents \ {j} PROVE Apart(i)
      <3>1. Own(i)' = Own(i)
        BY <2>1, <2>3, NoneAssumption DEF Own, World, Minted
      <3>2. \A d \in docs : d[1] \in Keys
        BY DEF World
      <3>3. Docs(i)' = Docs(i)
        BY <2>1, <2>2, <3>2 DEF Docs, World, Minted
      <3> QED BY <2>2, <3>1, <3>3 DEF Apart
    <2>8. c.tool \notin Lasting
      BY <1>3 DEF AddServed, Lasting
    <2> QED BY <2>2, <2>5, <2>6, <2>7, <2>8
  <1>4. CASE PutServed(j, c, late)
    <2>1. /\ UNCHANGED <<owner, expired, property, overtaken>>
          /\ stored' \in [Keys -> Types \cup {None}]
      <3>1. c.as \in Types
        BY <1>4 DEF PutServed, Fitting
      <3>2. \/ stored' = [k \in Keys |-> IF k \in c.keys THEN c.as ELSE stored[k]]
            \/ stored' = stored
        BY <1>4 DEF PutServed
      <3>3. stored' \in [Keys -> Types \cup {None}]
        BY <3>1, <3>2 DEF World
      <3> QED BY <1>4, <3>3 DEF PutServed
    <2> QED BY <2>1 DEF World, Moves, Apart, Own, Docs, property
  <1>5. CASE ConfirmServed(j, c, late)
    <2>1. PICK k \in c.keys : Confirmed(j, c, late, k)
      BY <1>5 DEF ConfirmServed
    <2>2. k \in Keys /\ owner[k] = j /\ c.as \in Categories
      BY <1>5, <2>1 DEF ConfirmServed, Fitting, Given, DocumentInput,
                       validateDocumentCategory, Request
    <2>3. docs' = docs \/ docs' = docs \cup {<<k, c.as>>}
      BY <2>1 DEF Confirmed
    <2>4. /\ UNCHANGED <<owner, stored, expired, gallery, photos, before, after>>
          /\ overtaken' = overtaken \/ overtaken' = overtaken \cup {j}
      BY <1>5 DEF ConfirmServed, files
    <2>5. World'
      BY <2>2, <2>3, <2>4, NoneAssumption DEF World
    <2>6. Moves
      BY <2>3, <2>4 DEF Moves
    <2>7. ASSUME NEW i \in Agents \ {j} PROVE Apart(i)
      BY <2>2, <2>3, <2>4 DEF Apart, Own, Docs
    <2>8. c.tool \notin Lasting
      BY <1>5 DEF ConfirmServed, Lasting
    <2> QED BY <2>4, <2>5, <2>6, <2>7, <2>8
  <1>6. CASE ListServed(j, c, late)
    <2>1. /\ UNCHANGED <<files, property>>
          /\ overtaken' = overtaken \/ overtaken' = overtaken \cup {j}
          /\ c.tool \in Lasting => overtaken' = overtaken
      BY <1>6 DEF ListServed, Lasting
    <2> QED BY <2>1 DEF World, Moves, Apart, Own, Docs, property, files
  <1>7. CASE RemoveServed(j, c, late)
    <2>1. /\ UNCHANGED <<owner, stored, expired, docs, photos, before, after, overtaken>>
          /\ gallery' = gallery \/ gallery' = gallery \ c.keys
          /\ c.keys \subseteq 1..Photos
      BY <1>7, ScenariosAssumption DEF RemoveServed, files, Fitting, Wish
    <2>2. World' /\ Moves
      <3>1. World'
        BY <2>1 DEF World
      <3>2. Moves
        BY <2>1, BoundsAssumption DEF Moves
      <3> QED BY <3>1, <3>2
    <2>3. ASSUME NEW i \in Agents PROVE Apart(i)
      BY <2>1, NoneAssumption, BoundsAssumption DEF Apart, Own, Docs, World, Keys
    <2> QED BY <2>1, <2>2, <2>3
  <1>8. CASE TagServed(j, c, late)
    <2>1. /\ UNCHANGED <<owner, stored, expired, docs, gallery, photos, after, overtaken>>
          /\ before' = before \/ before' = before \cup c.keys
          /\ c.keys \subseteq Keys
      BY <1>8 DEF TagServed, files, Fitting, Request
    <2> QED BY <2>1 DEF World, Moves, Apart, Own, Docs
  <1>9. CASE SubmitServed(j, c, late)
    <2>1. /\ UNCHANGED <<owner, stored, expired, docs, gallery, photos, before, overtaken>>
          /\ after' = after \cup c.keys
          /\ c.keys \subseteq Keys
      BY <1>9 DEF SubmitServed, files, Fitting, Request
    <2> QED BY <2>1 DEF World, Moves, Apart, Own, Docs
  <1> QED BY <1>1, <1>2, <1>3, <1>4, <1>5, <1>6, <1>7, <1>8, <1>9 DEF Served

(* Agent i does nothing itself. *)
Waits(i) ==
    /\ wish' = wish /\ asked'[i] = asked[i] /\ wire'[i] = wire[i] /\ reply'[i] = reply[i]
    /\ outcome'[i] = outcome[i] /\ key'[i] = key[i] /\ told'[i] = told[i]

(* What may be added of agent i meanwhile: a document or a photo that was  *)
(* on its way.                                                             *)
Added(i) ==
    /\ Own(i) \subseteq Own(i)'
    /\ wish[i].what # "photo" => Own(i)' = Own(i)
    /\ \A d \in Docs(i)' : d[2] \in wish[i].categories
    /\ i \notin overtaken' => /\ Docs(i)' = Docs(i)
                              /\ Clean(i) => Clean(i)'
                              /\ Few(i) => Few(i)'

(* A call that fits its wish still does.                                   *)
LEMMA FittingStays ==
    ASSUME World, NEW i, NEW c, Fitting(i, c), Moves, wish' = wish, i # None
    PROVE  Fitting(i, c)'
  <1>1. c.keys \subseteq Keys
    BY DEF Fitting, Request
  <1>2. \A k \in c.keys : owner[k] = i => owner'[k] = i
    BY <1>1 DEF Moves
  <1> QED BY <1>2 DEF Fitting

(* What was true of a success stays true: nobody takes back what is        *)
(* another's, and photos come back only for the agent that adds them.      *)
LEMMA TruthStays ==
    ASSUME World, NEW i \in Agents, NEW c \in Request, NEW shows \in SUBSET Keys,
           Truth(i, c, shows), wish \in Scenarios, Moves, Added(i), World', Waits(i),
           Fitting(i, c)
    PROVE  Truth(i, c, shows)'
  <1>1. \A k \in Keys : owner[k] = i => owner'[k] = i
    BY NoneAssumption DEF Moves
  <1>2. \A d \in docs : d \in docs' /\ d[1] \in Keys
    BY DEF Moves, World
  <1>3. (\E k \in Keys : shows = {k} /\ owner[k] = i) =>
            (\E k \in Keys : shows = {k} /\ owner'[k] = i)
    BY <1>1
  <1>4. (\E d \in docs : {d[1]} = key[i] /\ owner[d[1]] = i /\ d[2] \in wish[i].categories) =>
        (\E d \in docs' : {d[1]} = key'[i] /\ owner'[d[1]] = i /\ d[2] \in wish'[i].categories)
    BY <1>1, <1>2 DEF Waits
  <1>5. shows \subseteq {d[1] : d \in docs} => shows \subseteq {d[1] : d \in docs'}
    BY <1>2
  <1>6. c.tool = "upload_property_image" => Own(i)' # {}
    BY DEF Truth, Added
  <1>7. c.tool = "list_property_images" =>
          /\ \A k \in shows : k <= Photos \/ k \in gallery'
          /\ \A k \in gallery' : k <= Photos => k \in shows
    BY DEF Truth, Moves
  <1>8. c.tool = "list_property_images" =>
          (i \notin overtaken' => Clean(i)' \/ \E k \in shows : owner'[k] = i)
    BY <1>1 DEF Truth, Moves, Added
  <1>9. c.tool = "remove_property_images" => c.keys \cap gallery' = {}
    BY ScenariosAssumption DEF Truth, Moves, Fitting, Wish
  <1>10. /\ c.tool = "tag_property_images" => c.keys \subseteq before'
         /\ c.tool = "get_renovation_ledger" => shows \subseteq after'
    BY DEF Truth, Moves
  <1> QED BY <1>3, <1>4, <1>5, <1>6, <1>7, <1>8, <1>9, <1>10 DEF Truth

(* What a wish is about.                                                   *)
LEMMA WishOf ==
    ASSUME wish \in Scenarios, NEW i \in Agents
    PROVE  /\ wish[i].what \in {"document", "photo", "removal", "render"}
           /\ wish[i].keys \subseteq 1..Photos
  BY ScenariosAssumption DEF Wish

(* What the others do, and what late requests of agent i do, leaves what   *)
(* the invariant says of agent i as it is.                                 *)
LEMMA Undisturbed ==
    ASSUME World, Common, NEW i \in Agents, AgentInv(i), World',
           Waits(i), Moves, Added(i)
    PROVE  AgentInv(i)'
  <1>0. i # None /\ wish \in Scenarios /\ wish' = wish
    BY NoneAssumption DEF Common, Waits
  <1>a. /\ wish[i].keys \subseteq 1..Photos
        /\ wish[i].what \in {"document", "photo", "removal", "render"}
    BY <1>0, WishOf
  <1>b. \A k \in Keys : owner[k] = i => owner'[k] = i
    BY <1>0 DEF Moves
  <1>1. KeyOK(i)'
    <2>1. key'[i] = key[i] /\ key[i] \subseteq Keys
      BY DEF Waits, Common
    <2> QED BY <2>1, <1>b DEF KeyOK, AgentInv
  <1>c. PICK c : c = asked[i]
    OBVIOUS
  <1>d. asked'[i] = c
    BY <1>c DEF Waits
  <1>e. c # None => Fitting(i, c)
    BY <1>c DEF AgentInv, Place, Ready
  <1>f. c # None => Fitting(i, c)'
    BY <1>0, <1>e, FittingStays
  <1>2. Place(i)'
    <2>1. before \subseteq before'
      BY DEF Moves
    <2>2. \A k \in 1..Photos : k \in gallery' => k \in gallery
      BY DEF Moves
    <2>3. c # None /\ c.tool = "remove_property_images" =>
            (wish[i].keys \ c.keys) \cap gallery' = {}
      BY <1>a, <1>c, <2>2 DEF AgentInv, Place, Ready
    <2>4. (c # None => Fitting(i, asked[i]))'
      BY <1>d, <1>f DEF Fitting
    <2> QED BY <1>c, <1>d, <2>1, <2>3, <2>4 DEF AgentInv, Place, Ready, Waits
  <1>3. Heard(i)'
    <2>1. PICK r : r = reply[i]
      OBVIOUS
    <2>2. PICK o : o = outcome[i]
      OBVIOUS
    <2>3. c # None => c \in Request
      BY <1>e DEF Fitting
    <2>4. ASSUME c # None, wire[i] = "served", r.status \in 200..299
          PROVE  Truth(i, c, r.shows)'
      <3>1. r.shows \subseteq Keys
        <4>1. r \in Reply
          BY <1>c, <2>1, <2>4 DEF Common, AgentInv, Place, Ready
        <4> QED BY <4>1 DEF Reply
      <3>2. Truth(i, c, r.shows)
        BY <1>c, <2>1, <2>4 DEF AgentInv, Heard
      <3> QED BY <1>0, <1>e, <2>3, <2>4, <3>1, <3>2, TruthStays
    <2>5. ASSUME c # None, wire[i] = "none", o.kind = "ok"
          PROVE  Truth(i, c, o.shows)'
      <3>1. o.shows \subseteq Keys
        BY <1>c, <2>2, <2>5 DEF Common, AgentInv, Place, Outcome
      <3>2. Truth(i, c, o.shows)
        BY <1>c, <2>2, <2>5 DEF AgentInv, Heard
      <3> QED BY <1>0, <1>e, <2>3, <2>5, <3>1, <3>2, TruthStays
    <2>6. wire'[i] = wire[i] /\ reply'[i] = r /\ outcome'[i] = o /\ key'[i] = key[i]
      BY <2>1, <2>2 DEF Waits
    <2>7. (c # None /\ wire[i] = "served" /\ reply[i].status \in 200..299 =>
              Truth(i, asked[i], reply[i].shows))'
      BY <1>d, <2>4, <2>6 DEF Truth
    <2>8. (c # None /\ wire[i] = "none" /\ outcome[i].kind = "ok" =>
              Truth(i, asked[i], outcome[i].shows))'
      BY <1>d, <2>5, <2>6 DEF Truth
    <2> QED BY <1>c, <1>d, <2>2, <2>6, <2>7, <2>8 DEF AgentInv, Heard
  <1>4. OneDocument(i)'
    <2>1. \A d \in docs : d \in docs'
      BY DEF Moves
    <2>2. Settled(i) => Settled(i)'
      BY DEF Settled, Waits
    <2> QED BY <2>1, <2>2 DEF AgentInv, OneDocument, Waits, Added, Moves
  <1>5. OnePhoto(i)'
    <2>1. i \notin overtaken' => i \notin overtaken
      BY DEF Moves
    <2> QED BY <2>1 DEF AgentInv, OnePhoto, Waits, Added
  <1>6. Told(i)'
    <2>1. told[i] = "done" => Fulfilled(i)
      BY DEF AgentInv, Told
    <2>2. CASE wish[i].what = "document"
      <3>1. \A d \in docs : d \in docs' /\ d[1] \in Keys
        BY DEF Moves, World
      <3> QED BY <1>b, <2>1, <2>2, <3>1 DEF Told, Fulfilled, Waits
    <2>3. CASE wish[i].what = "photo"
      <3>1. (\E k \in gallery : owner[k] = i) => (\E k \in gallery' : owner'[k] = i)
        BY DEF Added, Own
      <3> QED BY <2>1, <2>3, <3>1 DEF Told, Fulfilled, Waits
    <2>4. CASE wish[i].what = "removal"
      <3>1. \A k \in 1..Photos : k \in gallery' => k \in gallery
        BY DEF Moves
      <3> QED BY <1>a, <2>1, <2>4, <3>1 DEF Told, Fulfilled, Waits
    <2>5. CASE wish[i].what = "render"
      <3>1. before \subseteq before' /\ after \subseteq after'
        BY DEF Moves
      <3> QED BY <2>1, <2>5, <3>1 DEF Told, Fulfilled, Waits
    <2> QED BY <1>a, <2>2, <2>3, <2>4, <2>5
  <1> QED BY <1>1, <1>2, <1>3, <1>4, <1>5, <1>6 DEF AgentInv

-----------------------------------------------------------------------------
(* What an agent calls next fits its wish and what came before.            *)
NextOK(i, c) ==
    /\ Fitting(i, c) /\ Ready(i, c)
    /\ Settled(i) => c.tool \in {"confirm_property_document_upload", "list_property_documents"}
    /\ i \notin overtaken /\ c.tool = "upload_property_image" => Clean(i)

(* What an agent may call next fits its wish, and it uploads only what is  *)
(* not there.                                                              *)
LEMMA NextCallsFit ==
    ASSUME World, Common, NEW i \in Agents, AgentInv(i), NEW c \in NextCalls(i)
    PROVE  wire[i] = "none" /\ told[i] = "none" /\ NextOK(i, c)
  <1>0. wire[i] = "none" /\ told[i] = "none"
    BY DEF NextCalls
  <1>1. /\ wish[i].keys \subseteq Keys /\ key[i] \subseteq Keys
        /\ wish[i].categories \subseteq As
        /\ wish[i].what \in {"document", "photo", "removal", "render"}
    <2>1. wish \in Scenarios /\ wish[i] \in Wish
      BY ScenariosAssumption DEF Common
    <2>2. wish[i].categories \subseteq As
      <3>1. wish[i].categories \subseteq UNION {wish[j].categories : j \in Agents}
        OBVIOUS
      <3>2. UNION {wish[j].categories : j \in Agents}
               \in {UNION {s[j].categories : j \in Agents} : s \in Scenarios}
        BY <2>1
      <3>3. UNION {wish[j].categories : j \in Agents}
               \subseteq UNION {UNION {s[j].categories : j \in Agents} : s \in Scenarios}
        BY <3>2
      <3> QED BY <3>1, <3>3 DEF As
    <2>3. wish[i].keys \subseteq 1..Photos
      BY <2>1, WishOf DEF Common
    <2>4. key[i] \subseteq Keys
      BY DEF Common
    <2>5. wish[i].what \in {"document", "photo", "removal", "render"}
      BY <2>1, WishOf DEF Common
    <2> QED BY <2>2, <2>3, <2>4, <2>5, BoundsAssumption DEF Keys
  <1>t. "none" \in As /\ Types \subseteq As
    BY DEF As
  <1> DEFINE a == asked[i] o == outcome[i]
  <1>2. a # None => /\ Fitting(i, a) /\ Ready(i, a) /\ o \in Outcome
                    /\ o.kind = "ok" => 
                          /\ Truth(i, a, o.shows)
                          /\ a.tool \in {"get_property_document_upload_url",
                                         "save_renovation_image"} => key[i] = o.shows
    BY <1>0 DEF AgentInv, Place, Heard, Common
  <1>3. CASE wish[i].what = "document"
    <2>1. c \in Document(wish[i], a, o, key[i])
      BY <1>0, <1>3 DEF NextCalls
    <2>2. a # None => a.tool \in DocumentTools \cup {"PUT"}
      BY <1>2, <1>3 DEF Fitting, Request, ToolNames, MediaTools, RenovationTools
    <2>3. a # None /\ a.tool = "get_property_document_upload_url" /\ o.kind = "ok" =>
            key[i] # {}
      BY <1>2 DEF Truth
    <2>4. \/ c \in Presign /\ ~Settled(i)
          \/ c \in Put(key[i], Types) /\ key[i] # {} /\ ~Settled(i)
          \/ c \in Confirm(key[i], wish[i].categories) /\ key[i] # {}
          \/ c \in ListDocuments /\ key[i] # {}
      <3>1. CASE a = None
        BY <2>1, <3>1 DEF Document, Settled
      <3>2. CASE a # None /\ a.tool = "get_property_document_upload_url"
        BY <2>1, <2>3, <3>2 DEF Document, Settled
      <3>3. CASE a # None /\ a.tool = "PUT"
        <4>1. key[i] # {} /\ ~Settled(i)
          BY <1>2, <3>3 DEF Ready, Settled
        <4>2. c \in AfterPut(wish[i], a, o, key[i])
          BY <2>1, <3>3 DEF Document
        <4>3. a \in Put(key[i], Types)
          <5>1. a = [tool |-> a.tool, keys |-> a.keys, as |-> a.as]
            BY <1>2, <3>3 DEF Fitting, Request
          <5> QED BY <1>2, <3>3, <5>1 DEF Fitting, Ready, Put, C
        <4> QED BY <4>1, <4>2, <4>3 DEF AfterPut
      <3>4. CASE a # None /\ a.tool = "confirm_property_document_upload"
        <4>1. key[i] # {}
          BY <1>2, <3>4 DEF Ready
        <4>2. c \in AfterConfirm(wish[i], o, key[i])
          BY <2>1, <3>4 DEF Document
        <4>3. o.hint \in {"put_it", "put_typed"} => ~Settled(i)
          BY <1>0 DEF Settled
        <4>4. Put(key[i], {"typed"}) \subseteq Put(key[i], Types)
          BY DEF Put, Types
        <4>5. Confirm(key[i], wish[i].categories \cap Categories)
                 \subseteq Confirm(key[i], wish[i].categories)
          BY DEF Confirm
        <4> QED BY <4>1, <4>2, <4>3, <4>4, <4>5 DEF AfterConfirm
      <3>5. CASE a # None /\ a.tool = "list_property_documents"
        BY <1>2, <2>1, <3>5 DEF Document, Ready
      <3> QED BY <2>2, <3>1, <3>2, <3>3, <3>4, <3>5 DEF DocumentTools
    <2>5. \A k \in key[i] : owner[k] = i
      BY DEF AgentInv, KeyOK
    <2>6. CASE c \in Presign /\ ~Settled(i)
      <3>1. c = C("get_property_document_upload_url", {}, "none")
        BY <2>6 DEF Presign
      <3>2. c \in Request /\ c.tool = "get_property_document_upload_url" /\ c.keys = {}
        BY <3>1, <1>1, <1>t DEF C, Request, ToolNames, DocumentTools, MediaTools,
                                     RenovationTools
      <3> QED BY <1>0, <1>3, <2>6, <3>2 DEF NextOK, Fitting, Ready, DocumentTools, RenovationTools
    <2>7. CASE c \in Put(key[i], Types) /\ key[i] # {} /\ ~Settled(i)
      <3>1. PICK type \in Types : c = C("PUT", key[i], type)
        BY <2>7 DEF Put
      <3>2. c \in Request /\ c.tool = "PUT" /\ c.keys = key[i] /\ c.as \in Types
        BY <3>1, <1>1, <1>t DEF C, Request, ToolNames, DocumentTools, MediaTools,
                                     RenovationTools
      <3> QED BY <1>0, <1>1, <1>3, <2>7, <3>2 DEF NextOK, Fitting, Ready, DocumentTools, RenovationTools
    <2>8. CASE c \in Confirm(key[i], wish[i].categories) /\ key[i] # {}
      <3>1. PICK as \in wish[i].categories : c = C("confirm_property_document_upload", key[i], as)
        BY <2>8 DEF Confirm
      <3>2. /\ c \in Request /\ c.tool = "confirm_property_document_upload" /\ c.keys = key[i]
            /\ c.as \in wish[i].categories
        BY <3>1, <1>1, <1>t DEF C, Request, ToolNames, DocumentTools, MediaTools,
                                     RenovationTools
      <3> QED BY <1>0, <1>1, <1>3, <2>5, <2>8, <3>2 DEF NextOK, Fitting, Ready, DocumentTools, RenovationTools
    <2>9. CASE c \in ListDocuments /\ key[i] # {}
      <3>1. c = C("list_property_documents", {}, "none")
        BY <2>9 DEF ListDocuments
      <3>2. c \in Request /\ c.tool = "list_property_documents" /\ c.keys = {}
        BY <3>1, <1>1, <1>t DEF C, Request, ToolNames, DocumentTools, MediaTools,
                                     RenovationTools
      <3> QED BY <1>0, <1>3, <2>9, <3>2 DEF NextOK, Fitting, Ready, DocumentTools, RenovationTools
    <2> QED BY <1>0, <2>4, <2>6, <2>7, <2>8, <2>9
  <1>4. CASE wish[i].what = "photo"
    <2>1. c \in Photo(a, o)
      BY <1>0, <1>4 DEF NextCalls
    <2>2. ~Settled(i)
      BY <1>2, <1>4 DEF Settled, Fitting, DocumentTools
    <2>3. CASE c \in AddPhoto
      <3>1. i \notin overtaken => Clean(i)
        <4>1. CASE a = None
          BY <4>1 DEF AgentInv, OnePhoto
        <4>2. CASE a # None /\ o.hint = "wait"
          BY <1>0, <1>4, <4>2 DEF AgentInv, OnePhoto
        <4>3. CASE a # None /\ a.tool = "list_property_images" /\ o.kind = "ok"
          BY <1>0, <1>4, <4>3 DEF AgentInv, OnePhoto
        <4>4. c \notin ListPhotos
          <5>1. c = C("upload_property_image", {}, "none")
            BY <2>3 DEF AddPhoto
          <5>2. c.tool # "list_property_images"
            BY <5>1 DEF C
          <5>3. c \in ListPhotos => c = C("list_property_images", {}, "none")
            BY DEF ListPhotos
          <5>4. C("list_property_images", {}, "none").tool = "list_property_images"
            BY DEF C
          <5> QED BY <5>2, <5>3, <5>4
        <4> QED BY <2>1, <4>1, <4>2, <4>3, <4>4 DEF Photo
      <3>a. c = C("upload_property_image", {}, "none")
        BY <2>3 DEF AddPhoto
      <3>b. c \in Request /\ c.tool = "upload_property_image" /\ c.keys = {}
        BY <3>a, <1>1, <1>t DEF C, Request, ToolNames, DocumentTools, MediaTools,
                                     RenovationTools
      <3> QED BY <1>0, <1>4, <2>2, <2>3, <3>1, <3>b DEF NextOK, Fitting, Ready, DocumentTools,
                        RenovationTools
    <2>4. CASE c \in ListPhotos
      <3>1. c = C("list_property_images", {}, "none")
        BY <2>4 DEF ListPhotos
      <3>2. c \in Request /\ c.tool = "list_property_images" /\ c.keys = {}
        BY <3>1, <1>1, <1>t DEF C, Request, ToolNames, DocumentTools, MediaTools,
                                     RenovationTools
      <3> QED BY <1>0, <1>4, <2>2, <2>4, <3>2 DEF NextOK, Fitting, Ready, DocumentTools, RenovationTools
    <2> QED BY <2>1, <2>3, <2>4 DEF Photo
  <1>5. CASE wish[i].what = "removal"
    <2>1. c \in Removal(wish[i], a, o)
      BY <1>0, <1>5 DEF NextCalls
    <2>2. ~Settled(i)
      BY <1>2, <1>5 DEF Settled, Fitting, DocumentTools
    <2>3. CASE c \in ListPhotos
      <3>1. c = C("list_property_images", {}, "none")
        BY <2>3 DEF ListPhotos
      <3>2. c \in Request /\ c.tool = "list_property_images" /\ c.keys = {}
        BY <3>1, <1>1, <1>t DEF C, Request, ToolNames, DocumentTools, MediaTools,
                                     RenovationTools
      <3> QED BY <1>0, <1>5, <2>2, <2>3, <3>2 DEF NextOK, Fitting, Ready, DocumentTools, RenovationTools
    <2>4. CASE c \notin ListPhotos
      <3>1. /\ a # None /\ a.tool = "list_property_images" /\ o.kind = "ok"
            /\ c \in RemovePhotos(wish[i].keys \cap o.shows)
        BY <2>1, <2>4 DEF Removal
      <3>2. (wish[i].keys \ o.shows) \cap gallery = {}
        <4>1. \A k \in gallery : k <= Photos => k \in o.shows
          BY <1>2, <3>1 DEF Truth
        <4>2. wish[i].keys \subseteq 1..Photos
          BY WishOf DEF Common
        <4> QED BY <4>1, <4>2
      <3>a. c = C("remove_property_images", wish[i].keys \cap o.shows, "none")
        BY <3>1 DEF RemovePhotos
      <3>b. c \in Request /\ c.tool = "remove_property_images" /\ c.keys = wish[i].keys \cap o.shows
        BY <3>a, <1>1, <1>t DEF C, Request, ToolNames, DocumentTools, MediaTools,
                                     RenovationTools
      <3> QED BY <1>0, <1>1, <1>5, <2>2, <3>1, <3>2, <3>b DEF NextOK, Fitting, Ready, DocumentTools,
                        RenovationTools
    <2> QED BY <2>3, <2>4
  <1>6. CASE wish[i].what = "render"
    <2>1. c \in Render(wish[i], a, o, key[i])
      BY <1>0, <1>6 DEF NextCalls
    <2>2. ~Settled(i)
      BY <1>2, <1>6 DEF Settled, Fitting, DocumentTools
    <2>3. a # None => a.tool \in RenovationTools \ {"list_property_images"}
      BY <1>2, <1>6 DEF Fitting, Request, ToolNames, DocumentTools, MediaTools, RenovationTools
    <2>4. \/ c \in TagPhotos(wish[i].keys)
          \/ c \in SaveRender /\ wish[i].keys \subseteq before
          \/ c \in SubmitRender(key[i]) /\ key[i] # {} /\ wish[i].keys \subseteq before
          \/ c \in ReadLedger /\ key[i] # {} /\ wish[i].keys \subseteq before
      BY <1>2, <2>1, <2>3 DEF Render, Ready, Truth, RenovationTools
    <2>5. CASE c \in TagPhotos(wish[i].keys)
      <3>1. c = C("tag_property_images", wish[i].keys, "none")
        BY <2>5 DEF TagPhotos
      <3>2. c \in Request /\ c.tool = "tag_property_images" /\ c.keys = wish[i].keys
        BY <3>1, <1>1, <1>t DEF C, Request, ToolNames, DocumentTools, MediaTools,
                                     RenovationTools
      <3> QED BY <1>0, <1>1, <1>6, <2>2, <2>5, <3>2 DEF NextOK, Fitting, Ready, DocumentTools, RenovationTools
    <2>6. CASE c \in SaveRender /\ wish[i].keys \subseteq before
      <3>1. c = C("save_renovation_image", {}, "none")
        BY <2>6 DEF SaveRender
      <3>2. c \in Request /\ c.tool = "save_renovation_image" /\ c.keys = {}
        BY <3>1, <1>1, <1>t DEF C, Request, ToolNames, DocumentTools, MediaTools,
                                     RenovationTools
      <3> QED BY <1>0, <1>6, <2>2, <2>6, <3>2 DEF NextOK, Fitting, Ready, DocumentTools, RenovationTools
    <2>7. CASE c \in SubmitRender(key[i]) /\ key[i] # {} /\ wish[i].keys \subseteq before
      <3>1. c = C("submit_property_renovation", key[i], "none")
        BY <2>7 DEF SubmitRender
      <3>2. c \in Request /\ c.tool = "submit_property_renovation" /\ c.keys = key[i]
        BY <3>1, <1>1, <1>t DEF C, Request, ToolNames, DocumentTools, MediaTools,
                                     RenovationTools
      <3> QED BY <1>0, <1>1, <1>6, <2>2, <2>7, <3>2 DEF NextOK, Fitting, Ready, DocumentTools, RenovationTools
    <2>8. CASE c \in ReadLedger /\ key[i] # {} /\ wish[i].keys \subseteq before
      <3>1. c = C("get_renovation_ledger", {}, "none")
        BY <2>8 DEF ReadLedger
      <3>2. c \in Request /\ c.tool = "get_renovation_ledger" /\ c.keys = {}
        BY <3>1, <1>1, <1>t DEF C, Request, ToolNames, DocumentTools, MediaTools,
                                     RenovationTools
      <3> QED BY <1>0, <1>6, <2>2, <2>8, <3>2 DEF NextOK, Fitting, Ready, DocumentTools, RenovationTools
    <2> QED BY <2>4, <2>5, <2>6, <2>7, <2>8
  <1> QED BY <1>1, <1>3, <1>4, <1>5, <1>6

-----------------------------------------------------------------------------
(* What the client makes of an answer. *)
LEMMA ReturnedOf ==
    ASSUME NEW tool \in ToolNames, NEW r \in Reply, NEW o, o = Returned(tool, r)
    PROVE  /\ o \in Outcome
           /\ o.kind = "ok" => r.status \in 200..299 /\ o.shows = r.shows
           /\ o.hint = "wait" => r.status = 429
           /\ o.hint = "put_it" => r.message = "no_file_found"
           /\ o.hint = "put_typed" => r.message = "unsupported_type"
           /\ o.hint # "pick_category"
  <1>0. "none" \in Hints
    BY DEF Hints
  <1>1. r # None /\ r.status \in Nat /\ r.shows \in SUBSET Keys
    BY NoneAssumption DEF Reply
  <1>2. mediaError(r) \in {"none", "another_link", "no_access", "nothing_removed", "wait"}
    BY <1>1 DEF mediaError
  <1>3. mediaError(r) = "wait" => r.status = 429
    BY <1>1 DEF mediaError
  <1>4. documentError(r) \in {"none", "put_it", "exact_key", "put_typed", "recorded",
                              "no_access", "wait"}
    BY <1>1 DEF documentError
  <1>5. /\ documentError(r) = "wait" => r.status = 429
        /\ documentError(r) = "put_it" => r.message = "no_file_found"
        /\ documentError(r) = "put_typed" =>
              r.message = "unsupported_type"
    BY <1>1 DEF documentError
  <1>6. ASSUME NEW hint \in Hints, o = apiDo(r, hint)
        PROVE  /\ o \in Outcome
               /\ o.kind = "ok" => r.status \in 200..299 /\ o.shows = r.shows
               /\ o.hint \in {"none", hint}
    <2>1. CASE r.status \in 200..299
      <3>1. o = O("ok", "none", r.shows)
        BY <1>1, <1>6, <2>1 DEF apiDo
      <3> QED BY <1>0, <1>1, <2>1, <3>1 DEF O, Outcome
    <2>2. CASE r.status \notin 200..299
      <3>1. PICK kind \in {"refused", "trouble"} : o = O(kind, hint, {})
        BY <1>1, <1>6, <2>2 DEF apiDo, StatusError
      <3> QED BY <1>6, <3>1 DEF O, Outcome
    <2> QED BY <2>1, <2>2
  <1>7. ASSUME o = renoDo(r)
        PROVE  /\ o \in Outcome
               /\ o.kind = "ok" => r.status \in 200..299 /\ o.shows = r.shows
               /\ o.hint = "none"
    <2>1. CASE r.status = 200
      <3>1. o = O("ok", "none", r.shows)
        BY <1>1, <1>7, <2>1 DEF renoDo
      <3> QED BY <1>0, <1>1, <2>1, <3>1 DEF O, Outcome
    <2>2. CASE r.status # 200
      <3>1. PICK kind \in {"refused", "trouble"} : o = O(kind, "none", {})
        BY <1>1, <1>7, <2>2 DEF renoDo, StatusError
      <3> QED BY <1>0, <3>1 DEF O, Outcome
    <2> QED BY <2>1, <2>2
  <1>8. mediaError(r) \in Hints /\ documentError(r) \in Hints
    BY <1>2, <1>4 DEF Hints
  <1>9. CASE tool \in MediaTools
    <2>1. o = apiDo(r, mediaError(r))
      BY <1>1, <1>9 DEF Returned, UploadPropertyImage, MediaTools
    <2>2. o.hint \in {"none", mediaError(r)}
      BY <1>6, <1>8, <2>1
    <2>3. o.hint \in {"none", "another_link", "no_access", "nothing_removed", "wait"}
      BY <1>2, <2>2
    <2> QED BY <1>3, <1>6, <1>8, <2>1, <2>2, <2>3
  <1>10. CASE tool \in DocumentTools
    <2>1. o = apiDo(r, documentError(r))
      BY <1>10 DEF Returned, DocumentTools, MediaTools
    <2>2. o.hint \in {"none", documentError(r)}
      BY <1>6, <1>8, <2>1
    <2>3. o.hint # "pick_category"
      BY <1>4, <2>2
    <2> QED BY <1>5, <1>6, <1>8, <2>1, <2>2, <2>3
  <1>11. CASE tool \notin MediaTools \cup DocumentTools
    <2>1. CASE o = renoDo(r)
      BY <1>7, <2>1
    <2>2. CASE o # renoDo(r)
      <3>1. r.status = 500 /\ o = StatusError(r, "check_property")
        BY <1>11, <2>2 DEF Returned, MediaTools, ListPropertyImages
      <3>2. o = O("trouble", "check_property", {})
        BY <3>1 DEF StatusError
      <3>3. "check_property" \in Hints
        BY DEF Hints
      <3> QED BY <3>2, <3>3 DEF O, Outcome
    <2> QED BY <2>1, <2>2
  <1> QED BY <1>9, <1>10, <1>11

(* And of none, or of an error of the API or of a gateway.                 *)
LEMMA NoAnswerOf ==
    ASSUME NEW tool \in ToolNames, NEW r \in {None, A(500, "none", {}), A(502, "none", {})},
           NEW o, o = Returned(tool, r)
    PROVE  /\ o \in Outcome /\ o.kind # "ok"
           /\ o.hint \notin {"wait", "put_it", "put_typed"}
  <1>1. CASE r = None
    BY <1>1 DEF Returned, UploadPropertyImage, ListPropertyImages, apiDo, renoDo, O, Outcome, Hints
  <1>2. CASE r \in {A(500, "none", {}), A(502, "none", {})}
    <2>1. r \in Reply /\ r.status \in {500, 502} /\ r.message = "none"
      BY <1>2 DEF A, Reply, Messages
    <2>2. r.status \notin 200..299 /\ r.status # 429
      BY <2>1
    <2> QED BY <2>1, <2>2, ReturnedOf
  <1> QED BY <1>1, <1>2

-----------------------------------------------------------------------------
(* Steps that change nothing of the property.                              *)
LEMMA Unmoved ==
    ASSUME World, UNCHANGED <<files, property, overtaken>>
    PROVE  World' /\ Moves /\ \A i \in Agents : Apart(i)
  BY DEF World, Moves, Apart, Own, Docs, files, property

(* What does not touch what agent i holds adds nothing to it.              *)
LEMMA ApartAdded ==
    ASSUME NEW i \in Agents, OneDocument(i), Apart(i), Pending(i)' = Pending(i)
    PROVE  Added(i)
  <1>1. Own(i)' = Own(i) /\ Docs(i)' = Docs(i)
    BY DEF Apart
  <1>2. Clean(i) => Clean(i)'
    BY <1>1 DEF Clean
  <1>3. Few(i) => Few(i)'
    <2>1. \A g : Pending(i)' = {g} => g \in ghosts'
      BY DEF Pending
    <2> QED BY <1>1, <2>1 DEF Few
  <1> QED BY <1>1, <1>2, <1>3 DEF Added, OneDocument

(* Requests that are still to be served fit their wishes as before.        *)
LEMMA GhostsStay ==
    ASSUME World, GhostsOK, Moves, wish' = wish, ghosts' \subseteq ghosts
    PROVE  GhostsOK'
  <1>1. ASSUME NEW g \in ghosts' PROVE Fitting(g[1], g[2])' /\ Given(g[2])' /\ g[1] \in Agents
                                       /\ g = <<g[1], g[2], g[3]>>
    <2>1. g \in ghosts
      OBVIOUS
    <2>2. g[1] # None /\ Fitting(g[1], g[2]) /\ Given(g[2])
      BY <2>1, NoneAssumption DEF GhostsOK
    <2>3. Fitting(g[1], g[2])'
      BY <2>2, FittingStays
    <2>4. Given(g[2])'
      BY <2>2 DEF Given, DocumentInput, MediaInput, TagInput, SubmitInput,
                  validateDocumentCategory
    <2> QED BY <2>1, <2>3, <2>4 DEF GhostsOK
  <1> QED BY <1>1 DEF GhostsOK

(* A call that returns o, which is true. *)
LEMMA ReturnInv ==
    ASSUME World, Common, NEW i \in Agents, AgentInv(i), wire[i] # "none",
           NEW c, c = asked[i], NEW o \in Outcome, Return(i, c, o),
           UNCHANGED <<wish, asked, reply, files, property, overtaken>>,
           o.kind = "ok" => Truth(i, c, o.shows) /\ Pending(i)' = Pending(i),
           Docs(i) # {} /\ i \notin overtaken => o.hint \notin {"put_it", "put_typed"},
           i \notin overtaken => Few(i)',
           i \notin overtaken /\ wish[i].what = "photo" /\ o.hint = "wait" => Clean(i)'
    PROVE  AgentInv(i)'
  <1>1. /\ wire'[i] = "none" /\ outcome'[i] = o /\ told'[i] = Verdict(i, c, o)
        /\ asked'[i] = c /\ c # None /\ told[i] = "none"
    BY DEF Return, Common, AgentInv, Place
  <1>2. /\ c.tool \in {"get_property_document_upload_url", "save_renovation_image"} /\ o.kind = "ok"
              => key'[i] = o.shows
        /\ ~(c.tool \in {"get_property_document_upload_url", "save_renovation_image"}
             /\ o.kind = "ok") => key'[i] = key[i]
    BY DEF Return, Common
  <1>3. Fitting(i, c) /\ Ready(i, c)
    BY <1>1 DEF AgentInv, Place
  <1>4. /\ Own(i)' = Own(i) /\ Docs(i)' = Docs(i) /\ World'
    BY Unmoved DEF Apart
  <1>5. KeyOK(i)'
    BY <1>1, <1>2 DEF KeyOK, AgentInv, Truth, files
  <1>6. Place(i)'
    <2>1. Fitting(i, c)'
      BY <1>3 DEF Fitting, files
    <2>2. (Fitting(i, asked[i]))'
      BY <1>1, <2>1 DEF Fitting
    <2>3. Ready(i, c)'
      BY <1>2, <1>3 DEF Ready, property
    <2>4. (Ready(i, asked[i]))'
      BY <1>1, <2>3 DEF Ready
    <2>5. o # None
      BY NoneAssumption
    <2> QED BY <1>1, <2>2, <2>4, <2>5 DEF Place
  <1>7. Heard(i)'
    <2>1. ASSUME o.kind = "ok" PROVE Truth(i, c, o.shows)'
      <3>1. Clean(i)' <=> Clean(i)
        BY <1>4, <2>1 DEF Clean
      <3>2. c.tool = "confirm_property_document_upload" => key'[i] = key[i]
        BY <1>2
      <3> QED BY <1>4, <2>1, <3>1, <3>2 DEF Truth, files, property
    <2>2. (o.kind = "ok" => Truth(i, asked[i], outcome[i].shows))'
      BY <1>1, <2>1 DEF Truth
    <2> QED BY <1>1, <1>2, <2>2 DEF Heard
  <1>8. OneDocument(i)'
    <2>1. \A d \in Docs(i)' : d[2] \in wish'[i].categories
      BY <1>4 DEF OneDocument, AgentInv
    <2>2. CASE Docs(i) = {}
      BY <1>4, <2>1, <2>2 DEF OneDocument
    <2>3. CASE i \in overtaken
      BY <2>1, <2>3 DEF OneDocument
    <2>4. CASE Docs(i) # {} /\ i \notin overtaken
      <3>1. Settled(i) /\ \E d \in docs : Docs(i) = {d} /\ key[i] = {d[1]}
        BY <2>4 DEF OneDocument, AgentInv
      <3>2. key'[i] = key[i]
        BY <1>1, <1>2, <3>1 DEF Settled
      <3>3. Settled(i)'
        BY <1>1, <2>4, <3>1 DEF Settled
      <3>4. \E d \in docs' : Docs(i)' = {d} /\ key'[i] = {d[1]}
        BY <1>4, <3>1, <3>2 DEF property
      <3> QED BY <2>1, <3>3, <3>4 DEF OneDocument
    <2> QED BY <2>2, <2>3, <2>4
  <1>9. c.tool = "list_property_images" /\ o.kind = "ok" /\ told'[i] = "none"
           /\ wish[i].what = "photo" /\ i \notin overtaken => Clean(i)'
    <2> SUFFICES ASSUME c.tool = "list_property_images", o.kind = "ok", told'[i] = "none",
                        wish[i].what = "photo", i \notin overtaken
                 PROVE  Clean(i)'
      OBVIOUS
    <2>1. ~Listed(i, o)
      BY <1>1 DEF Verdict
    <2>2. ~\E k \in o.shows : owner[k] = i
      BY <2>1 DEF Listed
    <2>3. Clean(i)
      BY <2>2 DEF Truth
    <2> QED BY <1>4, <2>3 DEF Clean
  <1>10. OnePhoto(i)'
    BY <1>1, <1>4, <1>9 DEF OnePhoto, AgentInv
  <1>11. Told(i)'
    <2> SUFFICES ASSUME told'[i] = "done" PROVE Fulfilled(i)'
      BY DEF Told
    <2>1. /\ o.kind = "ok" /\ Truth(i, c, o.shows)
          /\ \/ c.tool \in Last
             \/ /\ c.tool \in {"list_property_documents", "list_property_images",
                               "get_renovation_ledger"}
                /\ Listed(i, o)
      BY <1>1 DEF Verdict
    <2>2. key'[i] = key[i]
      BY <1>2, <2>1 DEF Last
    <2>3. World /\ wish[i].keys \subseteq 1..Photos
      BY WishOf DEF Common
    <2>4. CASE wish[i].what = "document"
      <3>1. c.tool \in {"confirm_property_document_upload", "list_property_documents"}
        BY <1>3, <2>1, <2>4 DEF Last, Fitting, RenovationTools
      <3>2. CASE c.tool = "list_property_documents"
        <4>1. key[i] \subseteq {k \in o.shows : owner[k] = i} /\ o.shows \subseteq {d[1] : d \in docs}
          BY <2>1, <2>4, <3>2 DEF Listed, Truth, Last
        <4>2. PICK k \in Keys : key[i] = {k}
          BY <1>3, <3>2 DEF Ready, KeyOK, AgentInv
        <4>3. PICK d \in docs : d[1] = k /\ owner[k] = i
          BY <4>1, <4>2
        <4>4. d[2] \in wish[i].categories
          BY <4>3 DEF AgentInv, OneDocument, Docs
        <4> QED BY <2>2, <2>4, <4>2, <4>3, <4>4 DEF Fulfilled, files, property
      <3>3. CASE c.tool = "confirm_property_document_upload"
        BY <2>1, <2>2, <2>4, <3>3 DEF Truth, Fulfilled, files, property
      <3> QED BY <3>1, <3>2, <3>3
    <2>5. CASE wish[i].what = "photo"
      <3>1. c.tool \in {"upload_property_image", "list_property_images"}
        BY <1>3, <2>1, <2>5 DEF Last, Fitting, RenovationTools, DocumentTools
      <3>2. CASE c.tool = "upload_property_image"
        BY <2>1, <2>5, <3>2 DEF Truth, Own, Fulfilled, files, property
      <3>3. CASE c.tool = "list_property_images"
        <4>1. PICK k \in o.shows : owner[k] = i
          BY <2>1, <2>5, <3>3 DEF Listed, Last
        <4>2. k \in Keys
          BY DEF Outcome
        <4>3. k \in gallery
          BY <2>1, <3>3, <4>1, <4>2, NoneAssumption DEF Truth, World
        <4> QED BY <2>5, <4>1, <4>3 DEF Fulfilled, files, property
      <3> QED BY <3>1, <3>2, <3>3
    <2>6. CASE wish[i].what = "removal"
      <3>1. c.tool \in {"remove_property_images", "list_property_images"}
        BY <1>3, <2>1, <2>6 DEF Last, Fitting, RenovationTools, DocumentTools
      <3>2. CASE c.tool = "remove_property_images"
        BY <1>3, <2>1, <2>6, <3>2 DEF Truth, Ready, Fulfilled, files, property
      <3>3. CASE c.tool = "list_property_images"
        <4>1. wish[i].keys \cap o.shows = {}
          BY <2>1, <2>6, <3>3 DEF Listed, Last
        <4>2. \A k \in gallery : k <= Photos => k \in o.shows
          BY <2>1, <3>3 DEF Truth
        <4> QED BY <2>3, <2>6, <4>1, <4>2 DEF Fulfilled, files, property
      <3> QED BY <3>1, <3>2, <3>3
    <2>7. CASE wish[i].what = "render"
      <3>1. c.tool = "get_renovation_ledger"
        BY <1>3, <2>1, <2>7 DEF Last, Fitting, RenovationTools, DocumentTools
      <3>2. key[i] # {} /\ wish[i].keys \subseteq before
        BY <1>3, <3>1 DEF Ready
      <3>3. key[i] \subseteq after
        BY <2>1, <2>7, <3>1 DEF Listed, Truth, Last
      <3> QED BY <2>2, <2>7, <3>2, <3>3 DEF Fulfilled, files, property
    <2>8. wish[i].what \in {"document", "photo", "removal", "render"}
      BY WishOf DEF Common
    <2> QED BY <2>4, <2>5, <2>6, <2>7, <2>8
  <1> QED BY <1>5, <1>6, <1>7, <1>8, <1>10, <1>11 DEF AgentInv

-----------------------------------------------------------------------------
(* The agents' steps, one lemma for each; first, the start.                *)
LEMMA InitInv == ASSUME Init PROVE Inv
  <1>1. World
    BY BoundsAssumption DEF Init, World, Keys, Types
  <1>2. Common
    BY BoundsAssumption, NoneAssumption DEF Init, Common
  <1>3. GhostsOK
    BY DEF Init, GhostsOK
  <1>4. ASSUME NEW i \in Agents PROVE AgentInv(i)
    <2>1. asked[i] = None /\ wire[i] = "none" /\ outcome[i] = None /\ told[i] = "none"
             /\ key[i] = {} /\ docs = {} /\ ghosts = {}
      BY DEF Init
    <2>2. Own(i) = {} /\ Docs(i) = {} /\ Pending(i) = {}
      BY <1>1, <2>1, BoundsAssumption, NoneAssumption DEF Init, Own, Docs, Pending, Keys
    <2>3. KeyOK(i) /\ Heard(i) /\ Told(i)
      BY <2>1 DEF KeyOK, Heard, Told
    <2>4. Place(i)
      BY <2>1 DEF Place
    <2>5. OneDocument(i)
      BY <2>2 DEF OneDocument
    <2>6. OnePhoto(i)
      BY <2>1, <2>2 DEF OnePhoto, Clean, Few
    <2> QED BY <2>3, <2>4, <2>5, <2>6 DEF AgentInv
  <1> QED BY <1>1, <1>2, <1>3, <1>4 DEF Inv

(* A step of agent i that changes nothing of the property leaves the other *)
(* agents as they are.                                                     *)
LEMMA OthersStay ==
    ASSUME Inv, NEW i \in Agents, UNCHANGED <<wish, files, property, overtaken>>,
           \A j \in Agents \ {i} : Waits(j) /\ Pending(j)' = Pending(j)
    PROVE  World' /\ Moves /\ \A j \in Agents \ {i} : AgentInv(j)'
  <1>1. World' /\ Moves /\ \A j \in Agents : Apart(j)
    BY Unmoved DEF Inv
  <1>2. ASSUME NEW j \in Agents \ {i} PROVE AgentInv(j)'
    <2>1. AgentInv(j) /\ OneDocument(j)
      BY DEF Inv, AgentInv
    <2>2. Added(j)
      BY <1>1, <2>1, ApartAdded
    <2> QED BY <1>1, <2>1, <2>2, Undisturbed DEF Inv
  <1> QED BY <1>1, <1>2

(* A tool is called, or refuses its input.                                 *)
LEMMA CallInv ==
    ASSUME Inv, NEW i \in Agents, NEW c \in NextCalls(i), Call(i, c)
    PROVE  Inv'
  <1>1. wire[i] = "none" /\ told[i] = "none" /\ NextOK(i, c) /\ AgentInv(i) /\ World /\ Common
    BY NextCallsFit DEF Inv
  <1>2. /\ UNCHANGED <<wish, ghosts, faults, files, property, overtaken>>
        /\ asked' = [asked EXCEPT ![i] = c]
        /\ reply' = [reply EXCEPT ![i] = None]
    BY DEF Call
  <1>3. c # None /\ c \in Request /\ Fitting(i, c) /\ Ready(i, c)
    BY <1>1, NoneAssumption DEF NextOK, Fitting
  <1>4. asked'[i] = c
    BY <1>1, <1>2 DEF Common
  <1>5. \/ /\ Given(c) /\ wire' = [wire EXCEPT ![i] = "sent"]
           /\ outcome' = [outcome EXCEPT ![i] = None] /\ UNCHANGED <<told, key>>
        \/ /\ wire' = [wire EXCEPT ![i] = "none"]
           /\ outcome' = [outcome EXCEPT ![i] = O("invalid", "pick_category", {})]
           /\ UNCHANGED <<told, key>>
    <2>1. CASE Given(c)
      BY <2>1 DEF Call
    <2>2. CASE ~Given(c)
      <3>1. PICK o : o = O("invalid", "pick_category", {})
        OBVIOUS
      <3>2. Return(i, c, o)
        BY <2>2, <3>1 DEF Call
      <3>3. o.kind = "invalid"
        BY <3>1 DEF O
      <3>4. told'[i] = "none" /\ told' = [told EXCEPT ![i] = "none"] /\ key' = key
        BY <3>2, <3>3, <1>1 DEF Return, Verdict, Common
      <3>5. told' = told
        BY <1>1, <3>4 DEF Common
      <3> QED BY <3>1, <3>2, <3>4, <3>5 DEF Return
    <2> QED BY <2>1, <2>2
  <1>6. PICK o : o = O("invalid", "pick_category", {})
    OBVIOUS
  <1>7. o \in Outcome /\ o # None /\ o.kind = "invalid" /\ o.hint = "pick_category"
    BY <1>6, NoneAssumption DEF O, Outcome, Hints
  <1>8. Common'
    BY <1>1, <1>2, <1>3, <1>5, <1>6, <1>7 DEF Common
  <1>9. \A j \in Agents \ {i} : Waits(j) /\ Pending(j)' = Pending(j)
    BY <1>1, <1>2, <1>5 DEF Waits, Pending, Common
  <1>10. World' /\ Moves /\ \A j \in Agents \ {i} : AgentInv(j)'
    BY <1>2, <1>9, OthersStay
  <1>11. GhostsOK'
    BY <1>2, <1>10, GhostsStay DEF Inv
  <1>12. /\ Own(i)' = Own(i) /\ Docs(i)' = Docs(i) /\ Pending(i)' = Pending(i)
         /\ key'[i] = key[i] /\ told'[i] = "none"
    BY <1>1, <1>2, <1>5 DEF Own, Docs, Pending, files, property
  <1>13. \/ wire'[i] = "sent" /\ outcome'[i] = None /\ Given(c)
         \/ wire'[i] = "none" /\ outcome'[i] = o
    BY <1>1, <1>5, <1>6 DEF Common
  <1>14. KeyOK(i)'
    BY <1>1, <1>2, <1>12 DEF KeyOK, AgentInv, files
  <1>15. Place(i)'
    <2>1. Fitting(i, c)' /\ Ready(i, c)'
      BY <1>2, <1>3, <1>12 DEF Fitting, Ready, files, property
    <2>2. Fitting(i, asked[i])' /\ Ready(i, asked[i])'
      BY <1>4, <2>1 DEF Fitting, Ready
    <2>3. Given(c)' <=> Given(c)
      BY DEF Given, DocumentInput, MediaInput, TagInput, SubmitInput, validateDocumentCategory
    <2>4. wire'[i] # "none" => Given(asked[i])'
      BY <1>4, <1>13, <2>3 DEF Given, DocumentInput, MediaInput, TagInput, SubmitInput,
                               validateDocumentCategory
    <2> QED BY <1>3, <1>4, <1>7, <1>12, <1>13, <2>2, <2>4 DEF Place
  <1>16. Heard(i)'
    BY <1>7, <1>13 DEF Heard
  <1>17. OneDocument(i)'
    <2>1. Settled(i) => Settled(i)'
      BY <1>1, <1>3, <1>4, <1>7, <1>13 DEF NextOK, Settled
    <2> QED BY <1>1, <1>2, <1>12, <2>1 DEF AgentInv, OneDocument, property
  <1>18. OnePhoto(i)'
    <2>1. Few(i)' <=> Few(i)
      BY <1>2, <1>12 DEF Few
    <2>2. Clean(i)' <=> Clean(i)
      BY <1>12 DEF Clean
    <2> QED BY <1>1, <1>2, <1>3, <1>4, <1>7, <1>12, <1>13, <2>1, <2>2 DEF AgentInv, OnePhoto, NextOK
  <1>19. Told(i)'
    BY <1>12 DEF Told
  <1>20. AgentInv(i)'
    BY <1>14, <1>15, <1>16, <1>17, <1>18, <1>19 DEF AgentInv
  <1> QED BY <1>8, <1>10, <1>11, <1>20 DEF Inv

(* A call returns what the server answered.                                *)
LEMMA ReceiveInv ==
    ASSUME Inv, NEW i \in Agents, Receive(i)
    PROVE  Inv'
  <1>1. /\ UNCHANGED <<wish, asked, reply, ghosts, faults, files, property, overtaken>>
        /\ wire[i] = "served" /\ AgentInv(i) /\ World /\ Common
    BY DEF Receive, Inv
  <1>2. PICK c : c = asked[i]
    OBVIOUS
  <1>3. PICK r : r = reply[i]
    OBVIOUS
  <1>4. c # None /\ Fitting(i, c) /\ c.tool \in ToolNames /\ r \in Reply
    BY <1>1, <1>2, <1>3 DEF AgentInv, Place, Fitting, Request, Common
  <1>5. PICK o : o = Returned(c.tool, r)
    OBVIOUS
  <1>6. Return(i, c, o)
    BY <1>2, <1>3, <1>5 DEF Receive
  <1>7. /\ o \in Outcome
        /\ o.kind = "ok" => r.status \in 200..299 /\ o.shows = r.shows
        /\ o.hint = "wait" => r.status = 429
        /\ o.hint = "put_it" => r.message = "no_file_found"
        /\ o.hint = "put_typed" => r.message = "unsupported_type"
    BY <1>4, <1>5, ReturnedOf
  <1>8. \A j \in Agents : Pending(j)' = Pending(j) /\ Own(j)' = Own(j)
    BY <1>1 DEF Pending, Own, files, property
  <1>9. AgentInv(i)'
    <2>1. o.kind = "ok" => Truth(i, c, o.shows) /\ Pending(i)' = Pending(i)
      BY <1>1, <1>2, <1>3, <1>4, <1>7, <1>8 DEF AgentInv, Heard
    <2>2. Docs(i) # {} /\ i \notin overtaken => o.hint \notin {"put_it", "put_typed"}
      BY <1>1, <1>3, <1>7 DEF AgentInv, OneDocument, Settled
    <2>3. i \notin overtaken => Few(i)'
      BY <1>1, <1>8 DEF AgentInv, OnePhoto, Few
    <2>4. i \notin overtaken /\ wish[i].what = "photo" /\ o.hint = "wait" => Clean(i)'
      <3>1. i \notin overtaken /\ wish[i].what = "photo" /\ o.hint = "wait" =>
              c.tool = "upload_property_image"
        <4>1. c.tool = "list_property_images" => o.hint # "wait"
          BY <1>4, <1>5 DEF Returned, MediaTools, DocumentTools, ListPropertyImages, renoDo,
                            StatusError, O
        <4> QED BY <1>4, <4>1 DEF Fitting, ToolNames, DocumentTools, MediaTools, RenovationTools
      <3> QED BY <1>1, <1>2, <1>3, <1>4, <1>7, <1>8, <3>1 DEF AgentInv, OnePhoto, Clean
    <2> QED BY <1>1, <1>2, <1>6, <1>7, <2>1, <2>2, <2>3, <2>4, ReturnInv
  <1>10. \A j \in Agents \ {i} : Waits(j)
    BY <1>1, <1>6 DEF Waits, Return, Common
  <1>11. World' /\ Moves /\ \A j \in Agents \ {i} : AgentInv(j)'
    BY <1>1, <1>8, <1>10, OthersStay
  <1>12. GhostsOK'
    BY <1>1, <1>11, GhostsStay DEF Inv
  <1>13. Common'
    <2>1. wire' \in [Agents -> {"none", "sent", "served"}] /\ outcome' \in [Agents -> Outcome \cup {None}]
      BY <1>1, <1>6, <1>7 DEF Return, Common
    <2>2. told' \in [Agents -> {"none", "done", "refused"}]
      <3>1. Verdict(i, c, o) \in {"none", "done", "refused"}
        BY DEF Verdict
      <3> QED BY <1>1, <1>6, <3>1 DEF Return, Common
    <2>3. key' \in [Agents -> SUBSET Keys]
      BY <1>1, <1>6, <1>7 DEF Return, Common, Outcome
    <2> QED BY <1>1, <2>1, <2>2, <2>3 DEF Common
  <1> QED BY <1>9, <1>11, <1>12, <1>13 DEF Inv

(* A call returns without the server's answer; its request may still be    *)
(* served.                                                                 *)
LEMMA NoAnswerInv ==
    ASSUME Inv, NEW i \in Agents, NoAnswer(i)
    PROVE  Inv'
  <1>1. /\ UNCHANGED <<wish, asked, reply, files, property, overtaken>>
        /\ wire[i] \in {"sent", "served"} /\ AgentInv(i) /\ World /\ Common
        /\ faults < MaxFaults /\ faults' = faults + 1
    BY DEF NoAnswer, Inv
  <1>2. PICK c : c = asked[i]
    OBVIOUS
  <1>3. PICK r \in {None, A(500, "none", {}), A(502, "none", {})} : Return(i, c, Returned(c.tool, r))
    BY <1>2 DEF NoAnswer
  <1>4. c # None /\ Fitting(i, c) /\ Given(c) /\ c.tool \in ToolNames
    BY <1>1, <1>2 DEF AgentInv, Place, Fitting, Request
  <1>5. PICK o : o = Returned(c.tool, r)
    OBVIOUS
  <1>6. Return(i, c, o)
    BY <1>3, <1>5
  <1>7. o \in Outcome /\ o.kind # "ok" /\ o.hint \notin {"wait", "put_it", "put_typed"}
    BY <1>4, <1>5, NoAnswerOf
  <1>8. PICK g : g = <<i, c, faults>>
    OBVIOUS
  <1>9. \/ ghosts' = ghosts
        \/ ghosts' = ghosts \cup {g} /\ wire[i] = "sent"
    BY <1>2, <1>8 DEF NoAnswer
  <1>10. \A j \in Agents : Own(j)' = Own(j)
    BY <1>1 DEF Own, files, property
  <1>11. \A j \in Agents \ {i} : Pending(j)' = Pending(j)
    BY <1>8, <1>9 DEF Pending
  <1>12. i \notin overtaken => Few(i)'
    <2>1. i \notin overtaken => Few(i)
      BY <1>1 DEF AgentInv, OnePhoto
    <2>2. CASE Pending(i)' = Pending(i)
      <3>1. \A h : Pending(i)' = {h} => h \in ghosts'
        BY DEF Pending
      <3> QED BY <1>10, <2>1, <2>2, <3>1 DEF Few
    <2>3. CASE Pending(i)' # Pending(i)
      <3>1. /\ ghosts' = ghosts \cup {g} /\ wire[i] = "sent" /\ c.tool = "upload_property_image"
            /\ Pending(i)' = Pending(i) \cup {g}
        BY <1>8, <1>9, <2>3 DEF Pending
      <3>2. i \notin overtaken => Clean(i)
        BY <1>1, <1>2, <1>4, <3>1 DEF AgentInv, OnePhoto
      <3> QED BY <1>10, <3>1, <3>2 DEF Clean, Few
    <2> QED BY <2>2, <2>3
  <1>13. AgentInv(i)'
    BY <1>1, <1>2, <1>6, <1>7, <1>12, ReturnInv
  <1>14. \A j \in Agents \ {i} : Waits(j)
    BY <1>1, <1>6 DEF Waits, Return, Common
  <1>15. World' /\ Moves /\ \A j \in Agents \ {i} : AgentInv(j)'
    BY <1>1, <1>11, <1>14, OthersStay
  <1>16. GhostsOK'
    <2>1. ASSUME NEW h \in ghosts'
          PROVE  h = <<h[1], h[2], h[3]>> /\ h[1] \in Agents /\ Fitting(h[1], h[2]) /\ Given(h[2])
      BY <1>4, <1>8, <1>9 DEF Inv, GhostsOK
    <2>2. ASSUME NEW h \in ghosts' PROVE Fitting(h[1], h[2])' /\ Given(h[2])'
      BY <1>1, <2>1 DEF Fitting, files, Given, DocumentInput, MediaInput, TagInput, SubmitInput,
                    validateDocumentCategory
    <2> QED BY <2>1, <2>2 DEF GhostsOK
  <1>17. Common'
    <2>1. wire' \in [Agents -> {"none", "sent", "served"}] /\ outcome' \in [Agents -> Outcome \cup {None}]
      BY <1>1, <1>6, <1>7 DEF Return, Common
    <2>2. told' \in [Agents -> {"none", "done", "refused"}]
      <3>1. Verdict(i, c, o) \in {"none", "done", "refused"}
        BY DEF Verdict
      <3> QED BY <1>1, <1>6, <3>1 DEF Return, Common
    <2>3. key' \in [Agents -> SUBSET Keys]
      BY <1>1, <1>6, <1>7 DEF Return, Common, Outcome
    <2>4. faults' \in 0..MaxFaults
      BY <1>1, BoundsAssumption DEF Common
    <2> QED BY <1>1, <2>1, <2>2, <2>3, <2>4 DEF Common
  <1> QED BY <1>13, <1>15, <1>16, <1>17 DEF Inv

(* The server answers agent i, and the property stays as it is.            *)
LEMMA RepliedInv ==
    ASSUME Inv, NEW i \in Agents, NEW r \in Reply,
           UNCHANGED <<wish, asked, outcome, key, told, ghosts, files, property, overtaken>>,
           wire[i] = "sent", wire' = [wire EXCEPT ![i] = "served"],
           reply' = [reply EXCEPT ![i] = r], faults < MaxFaults, faults' = faults + 1,
           r.message \notin {"no_file_found", "unsupported_type"},
           r.status \in 200..299 => asked[i].tool = "submit_property_renovation"
    PROVE  Inv'
  <1>1. AgentInv(i) /\ World /\ Common
    BY DEF Inv
  <1>2. r # None
    BY NoneAssumption
  <1>3. Common'
    BY <1>1, BoundsAssumption DEF Common
  <1>4. \A j \in Agents \ {i} : Waits(j) /\ Pending(j)' = Pending(j)
    BY <1>1 DEF Waits, Pending, Common
  <1>5. World' /\ Moves /\ \A j \in Agents \ {i} : AgentInv(j)'
    BY <1>1, <1>4, OthersStay
  <1>6. GhostsOK'
    BY <1>1, <1>5, GhostsStay DEF Inv
  <1>7. wire'[i] = "served" /\ reply'[i] = r
    BY <1>1 DEF Common
  <1>8. Own(i)' = Own(i) /\ Docs(i)' = Docs(i) /\ Pending(i)' = Pending(i)
    BY <1>1 DEF Own, Docs, Pending, files, property
  <1>9. AgentInv(i)'
    <2>1. KeyOK(i)'
      BY <1>1 DEF AgentInv, KeyOK, files
    <2>2. Place(i)'
      BY <1>1, <1>2, <1>7 DEF AgentInv, Place, Fitting, Ready, files, property, Given, DocumentInput,
                        MediaInput, TagInput, SubmitInput, validateDocumentCategory
    <2>3. Heard(i)'
      <3>1. (r.status \in 200..299 => Truth(i, asked[i], r.shows))'
        BY DEF Truth
      <3> QED BY <1>7, <3>1 DEF Heard
    <2>4. OneDocument(i)'
      BY <1>1, <1>7, <1>8 DEF AgentInv, OneDocument, Settled, property
    <2>5. OnePhoto(i)'
      BY <1>1, <1>7, <1>8 DEF AgentInv, OnePhoto, Few, Clean
    <2>6. Told(i)'
      BY <1>1 DEF AgentInv, Place, Told
    <2> QED BY <2>1, <2>2, <2>3, <2>4, <2>5, <2>6 DEF AgentInv
  <1> QED BY <1>3, <1>5, <1>6, <1>9 DEF Inv

(* The server refuses.                                                     *)
LEMMA RefuseInv ==
    ASSUME Inv, NEW i \in Agents, Refuse(i)
    PROVE  Inv'
  <1>1. PICK r \in {A(403, "none", {}), A(429, "none", {}), A(400, "not_fetched", {})} :
            Answer(i, FALSE, r)
    BY DEF Refuse
  <1>2. reply' = [reply EXCEPT ![i] = r]
    BY <1>1 DEF Answer
  <1>3. /\ r \in Reply /\ r.status \notin 200..299
        /\ r.message \notin {"no_file_found", "unsupported_type"}
    BY DEF A, Reply, Messages
  <1> QED BY <1>2, <1>3, RepliedInv DEF Refuse

(* Of a submission, without the ledger.                                    *)
LEMMA UnrecordedInv ==
    ASSUME Inv, NEW i \in Agents, SubmitUnrecorded(i)
    PROVE  Inv'
  <1>1. PICK r : r = A(200, "none", asked[i].keys)
    OBVIOUS
  <1>2. reply' = [reply EXCEPT ![i] = r]
    BY <1>1 DEF SubmitUnrecorded, Answer
  <1>3. asked[i].keys \subseteq Keys
    BY DEF SubmitUnrecorded, Inv, AgentInv, Place, Fitting, Request
  <1>4. r \in Reply /\ r.message = "none"
    BY <1>1, <1>3 DEF A, Reply, Messages
  <1> QED BY <1>2, <1>4, RepliedInv DEF SubmitUnrecorded

-----------------------------------------------------------------------------
(* The backend's steps; an upload URL expires.                             *)
LEMMA ExpireInv ==
    ASSUME Inv, NEW k \in Keys, Expire(k)
    PROVE  Inv'
  <1>1. /\ UNCHANGED <<agents, owner, stored, property, overtaken>>
        /\ expired' = expired \cup {k}
    BY DEF Expire
  <1>2. World' /\ Moves /\ \A i \in Agents : Apart(i)
    BY <1>1 DEF Inv, World, Moves, Apart, Own, Docs, property
  <1>3. \A i \in Agents : Waits(i) /\ Pending(i)' = Pending(i)
    BY <1>1 DEF Waits, Pending, agents
  <1>4. Common'
    BY <1>1 DEF Inv, Common, agents
  <1>5. GhostsOK'
    BY <1>1, <1>2, GhostsStay DEF Inv, agents
  <1>6. ASSUME NEW i \in Agents PROVE AgentInv(i)'
    <2>1. Added(i)
      BY <1>2, <1>3, ApartAdded DEF Inv, AgentInv
    <2> QED BY <1>2, <1>3, <2>1, Undisturbed DEF Inv
  <1> QED BY <1>2, <1>4, <1>5, <1>6 DEF Inv

(* An answer is a reply, whatever is asked for.                            *)
LEMMA ServedAnswers ==
    ASSUME World, NEW j \in Agents, NEW c \in Request, NEW late \in BOOLEAN,
           Served(j, c, late), World'
    PROVE  \E r \in Reply : Answer(j, late, r)
  <1>1. ASSUME NEW status \in {200, 201, 400, 403, 404, 409}, NEW message \in Messages,
               NEW shows \in SUBSET Keys
        PROVE  A(status, message, shows) \in Reply
    BY DEF A, Reply
  <1>2. {"none", "no_file_found", "unsupported_type", "image_not_found"} \subseteq Messages
    BY DEF Messages
  <1>3. ASSUME NEW type \in Types \cup {None}, NEW status \in {200, 201}, Mint(j, late, type, status)
        PROVE  \E r \in Reply : Answer(j, late, r)
    <2>1. PICK k \in Keys : Answer(j, late, A(status, "none", {k}))
      BY <1>3, MintMoves
    <2> QED BY <1>1, <1>2, <2>1
  <1>4. c.keys \subseteq Keys
    BY DEF Request
  <1>5. CASE PresignServed(j, c, late)
    BY <1>3, <1>5 DEF PresignServed
  <1>6. CASE SaveServed(j, c, late)
    BY <1>3, <1>6 DEF SaveServed, Types
  <1>7. CASE AddServed(j, c, late)
    BY <1>3, <1>7 DEF AddServed, Types
  <1>8. CASE PutServed(j, c, late)
    BY <1>1, <1>2, <1>4, <1>8 DEF PutServed
  <1>9. CASE ConfirmServed(j, c, late)
    <2>1. PICK k \in c.keys : Confirmed(j, c, late, k)
      BY <1>9 DEF ConfirmServed
    <2> QED BY <1>1, <1>2, <1>4, <2>1 DEF Confirmed
  <1>10. CASE ListServed(j, c, late)
    <2>1. Lists(c) \subseteq Keys
      BY DEF Lists, World
    <2> QED BY <1>1, <1>2, <1>10, <2>1 DEF ListServed
  <1>11. CASE RemoveServed(j, c, late)
    BY <1>1, <1>2, <1>11 DEF RemoveServed, World
  <1>12. CASE TagServed(j, c, late)
    BY <1>1, <1>2, <1>12 DEF TagServed, World
  <1>13. CASE SubmitServed(j, c, late)
    BY <1>1, <1>2, <1>4, <1>13 DEF SubmitServed
  <1> QED BY <1>5, <1>6, <1>7, <1>8, <1>9, <1>10, <1>11, <1>12, <1>13 DEF Served

(* A request that was given up is served after all.                        *)
LEMMA ServeLateInv ==
    ASSUME Inv, NEW g \in ghosts, ServeLate(g)
    PROVE  Inv'
  <1>1. PICK j \in Agents : j = g[1]
    BY DEF Inv, GhostsOK
  <1>2. PICK c : c = g[2]
    OBVIOUS
  <1>3. /\ Fitting(j, c) /\ Given(c) /\ World /\ Common /\ AgentInv(j) /\ GhostsOK
        /\ g[1] = j /\ g[2] = c /\ c \in Request
    BY <1>1, <1>2 DEF Inv, GhostsOK, Fitting
  <1>4. /\ Served(j, c, TRUE) /\ ghosts' = ghosts \ {g}
        /\ UNCHANGED <<wish, asked, wire, outcome, key, told, faults>>
    BY <1>1, <1>2 DEF ServeLate
  <1>5. /\ World' /\ Moves /\ (overtaken \subseteq Agents)'
        /\ \A i \in Agents \ {j} : Apart(i)
        /\ c.tool \in Lasting => Apart(j)
    BY <1>3, <1>4, ServedMoves DEF Common
  <1>6. reply' = reply
    BY <1>3, <1>4, <1>5, ServedAnswers DEF Answer
  <1>7. Common'
    BY <1>3, <1>4, <1>5, <1>6 DEF Common
  <1>8. GhostsOK'
    BY <1>3, <1>4, <1>5, GhostsStay
  <1>9. \A i \in Agents : Waits(i)
    BY <1>4, <1>6 DEF Waits
  <1>10. \A i \in Agents : i # j \/ c.tool # "upload_property_image" => Pending(i)' = Pending(i)
    BY <1>3, <1>4 DEF Pending
  <1>11. ASSUME NEW i \in Agents \ {j} PROVE Added(i)
    BY <1>5, <1>10, ApartAdded DEF Inv, AgentInv
  <1>12. Added(j)
    <2>1. CASE c.tool \in Lasting
      <3>1. c.tool # "upload_property_image"
        BY <2>1 DEF Lasting
      <3> QED BY <1>3, <1>5, <1>10, <2>1, <3>1, ApartAdded DEF AgentInv
    <2>2. CASE c.tool = "list_property_images"
      <3>1. ListServed(j, c, TRUE)
        BY <1>4, <2>2 DEF Served, PresignServed, PutServed, ConfirmServed, AddServed, RemoveServed,
                          TagServed, SaveServed, SubmitServed
      <3>2. Apart(j)
        BY <3>1 DEF ListServed, Apart, Own, Docs, files, property
      <3>3. Pending(j)' = Pending(j)
        BY <1>10, <2>2
      <3> QED BY <1>3, <3>2, <3>3, ApartAdded DEF AgentInv
    <2>3. CASE c.tool = "confirm_property_document_upload"
      <3>1. ConfirmServed(j, c, TRUE)
        BY <1>4, <2>3 DEF Served, PresignServed, PutServed, ListServed, AddServed, RemoveServed,
                          TagServed, SaveServed, SubmitServed
      <3>2. PICK k \in c.keys : Confirmed(j, c, TRUE, k)
        BY <3>1 DEF ConfirmServed
      <3>3. docs' = docs \/ docs' = docs \cup {<<k, c.as>>}
        BY <3>2 DEF Confirmed
      <3>4. /\ UNCHANGED <<owner, gallery>>
            /\ docs' # docs => j \in overtaken'
        BY <3>1 DEF ConfirmServed, files
      <3>5. Own(j)' = Own(j) /\ Pending(j)' = Pending(j)
        BY <1>10, <2>3, <3>4 DEF Own
      <3>6. \A d \in Docs(j)' : d[2] \in wish[j].categories
        BY <1>3, <2>3, <3>3, <3>4 DEF Docs, Fitting, AgentInv, OneDocument
      <3>7. j \notin overtaken' => Docs(j)' = Docs(j)
        BY <3>4 DEF Docs
      <3>8. (Clean(j) => Clean(j)') /\ (Few(j) => Few(j)')
        <4>1. \A h : Pending(j)' = {h} => h \in ghosts'
          BY DEF Pending
        <4> QED BY <3>5, <4>1 DEF Clean, Few
      <3> QED BY <3>5, <3>6, <3>7, <3>8 DEF Added
    <2>4. CASE c.tool = "upload_property_image"
      <3>1. AddServed(j, c, TRUE)
        BY <1>4, <2>4 DEF Served, PresignServed, PutServed, ConfirmServed, ListServed, RemoveServed,
                          TagServed, SaveServed, SubmitServed
      <3>2. PICK k \in Keys : Minted(j, k)
        <4>1. Mint(j, TRUE, "typed", 201) /\ "typed" \in Types \cup {None}
          BY <3>1 DEF AddServed, Types
        <4> QED BY <1>3, <4>1, MintMoves
      <3>3. gallery' = gallery \cup {k} /\ docs' = docs /\ overtaken' = overtaken
        <4>1. {l \in Keys : owner'[l] # owner[l]} = {k}
          BY <1>3, <3>2, NoneAssumption DEF World, Minted
        <4> QED BY <3>1, <4>1 DEF AddServed
      <3>4. Own(j)' = Own(j) \cup {k}
        BY <1>3, <3>2, <3>3 DEF Own, World, Minted
      <3>5. Docs(j)' = Docs(j)
        <4>1. \A d \in docs : d[1] \in Keys
          BY <1>3 DEF World
        <4> QED BY <3>2, <3>3, <4>1 DEF Docs, World, Minted
      <3>6. g \in Pending(j) /\ Pending(j)' = Pending(j) \ {g}
        BY <1>3, <1>4, <2>4 DEF Pending
      <3>7. wish[j].what = "photo"
        BY <1>3, <2>4 DEF Fitting
      <3>8. ~Clean(j)
        BY <3>6 DEF Clean
      <3>9. Few(j) => Few(j)'
        BY <3>4, <3>6 DEF Few
      <3> QED BY <1>3, <3>3, <3>4, <3>5, <3>7, <3>8, <3>9 DEF Added, AgentInv, OneDocument
    <2> QED BY <1>3, <2>1, <2>2, <2>3, <2>4 DEF Request, Lasting
  <1>13. ASSUME NEW i \in Agents PROVE AgentInv(i)'
    <2>1. Added(i) /\ AgentInv(i)
      BY <1>11, <1>12 DEF Inv
    <2> QED BY <1>3, <1>5, <1>9, <2>1, Undisturbed
  <1> QED BY <1>5, <1>7, <1>8, <1>13 DEF Inv

(* What agent i hears of its own call is true, and what the call has added *)
(* is what the invariant allows.                                           *)
Answered(i, c, r) ==
    /\ r.status \in 200..299 => Truth(i, c, r.shows)'
    /\ \A d \in Docs(i)' : d[2] \in wish[i].categories
    /\ i \notin overtaken' =>
          \/ Docs(i)' = {}
          \/ /\ c.tool \in {"confirm_property_document_upload", "list_property_documents"}
             /\ r.message \notin {"no_file_found", "unsupported_type"}
             /\ \E d \in docs' : Docs(i)' = {d} /\ key[i] = {d[1]}
    /\ wish[i].what # "photo" => Own(i)' = {}
    /\ i \notin overtaken' => Few(i)' /\ (c.tool = "upload_property_image" => r.status = 201)

(* What the server answers a call that waits is true.                      *)
LEMMA ServedAnswered ==
    ASSUME World, World', Common, Moves, NEW i \in Agents, AgentInv(i), wire[i] = "sent",
           NEW c, c = asked[i], Fitting(i, c), Ready(i, c), Given(c),
           Served(i, c, FALSE), c.tool \in Lasting => Apart(i),
           UNCHANGED <<wish, key, ghosts>>
    PROVE  \E r \in Reply : Answer(i, FALSE, r) /\ Answered(i, c, r)
  <1>0. /\ key'[i] = key[i] /\ Pending(i)' = Pending(i) /\ c # None
        /\ c.keys \subseteq Keys
    BY DEF Pending, AgentInv, Place, Fitting, Request
  <1>1. PICK r \in Reply : Answer(i, FALSE, r)
    BY ServedAnswers DEF Fitting
  <1>2. reply' = [reply EXCEPT ![i] = r] /\ reply'[i] = r
    BY <1>1 DEF Answer, Common
  <1>3. ASSUME NEW s, Answer(i, FALSE, s) PROVE s = r
    BY <1>2, <1>3 DEF Answer, Common
  <1>4. \A status, message, shows :
           /\ A(status, message, shows).status = status
           /\ A(status, message, shows).message = message
           /\ A(status, message, shows).shows = shows
    BY DEF A
  <1>5. ASSUME c.tool \in Lasting,
               r.status \in 200..299 => Truth(i, c, r.shows)',
               c.tool # "list_property_documents" \/ r.message = "none"
        PROVE  Answered(i, c, r)
    <2>1. Own(i)' = Own(i) /\ Docs(i)' = Docs(i) /\ (i \in overtaken' <=> i \in overtaken)
      BY <1>5 DEF Apart
    <2>2. Few(i) => Few(i)'
      <3>1. \A g : Pending(i)' = {g} => g \in ghosts'
        BY DEF Pending
      <3> QED BY <1>0, <2>1, <3>1 DEF Few
    <2>3. \A d \in Docs(i)' : d[2] \in wish[i].categories
      BY <2>1 DEF AgentInv, OneDocument
    <2>4. wish[i].what # "photo" => Own(i)' = {}
      BY <2>1 DEF AgentInv, OnePhoto
    <2>5. i \notin overtaken' => Few(i)' /\ c.tool # "upload_property_image"
      BY <1>5, <2>1, <2>2 DEF AgentInv, OnePhoto, Lasting
    <2>6. i \notin overtaken' /\ Docs(i)' # {} =>
             /\ c.tool = "list_property_documents"
             /\ \E d \in docs' : Docs(i)' = {d} /\ key[i] = {d[1]}
      <3>1. i \notin overtaken /\ Docs(i) # {} =>
               Settled(i) /\ \E d \in docs : Docs(i) = {d} /\ key[i] = {d[1]}
        BY DEF AgentInv, OneDocument
      <3>2. docs \subseteq docs'
        BY DEF Moves
      <3> QED BY <1>5, <2>1, <3>1, <3>2 DEF Settled, Lasting
    <2> QED BY <1>5, <2>3, <2>4, <2>5, <2>6 DEF Answered
  <1>6. CASE PresignServed(i, c, FALSE) \/ SaveServed(i, c, FALSE)
    <2>1. c.tool \in {"get_property_document_upload_url", "save_renovation_image"}
      BY <1>6 DEF PresignServed, SaveServed
    <2>2. Mint(i, FALSE, None, 200) \/ Mint(i, FALSE, "typed", 200)
      BY <1>6 DEF PresignServed, SaveServed
    <2>3. PICK k \in Keys : Minted(i, k) /\ Answer(i, FALSE, A(200, "none", {k}))
      <3>1. None \in Types \cup {None} /\ "typed" \in Types \cup {None}
        BY DEF Types
      <3>2. CASE Mint(i, FALSE, None, 200)
        BY <3>1, <3>2, MintMoves
      <3>3. CASE Mint(i, FALSE, "typed", 200)
        BY <3>1, <3>3, MintMoves
      <3> QED BY <2>2, <3>2, <3>3
    <2>4. r.shows = {k} /\ owner'[k] = i
      <3>1. r = A(200, "none", {k})
        BY <1>3, <2>3
      <3>2. r.shows = {k}
        BY <1>4, <3>1
      <3> QED BY <2>3, <3>2 DEF Minted, World
    <2>5. Truth(i, c, r.shows)'
      BY <2>1, <2>4 DEF Truth
    <2>6. c.tool \in Lasting
      BY <2>1 DEF Lasting, ToolNames, DocumentTools, RenovationTools
    <2> QED BY <1>1, <1>5, <2>1, <2>5, <2>6
  <1>7. CASE PutServed(i, c, FALSE)
    <2>1. c.tool = "PUT"
      BY <1>7 DEF PutServed
    <2>2. Truth(i, c, r.shows)'
      BY <2>1 DEF Truth
    <2>3. c.tool \in Lasting
      BY <2>1 DEF Lasting, ToolNames
    <2> QED BY <1>1, <1>5, <2>1, <2>2, <2>3
  <1>8. CASE RemoveServed(i, c, FALSE)
    <2>1. c.tool = "remove_property_images"
      BY <1>8 DEF RemoveServed
    <2>2. r.status \in 200..299 => gallery' = gallery \ c.keys
      <3>1. CASE c.keys \subseteq gallery
        BY <1>8, <3>1 DEF RemoveServed
      <3>2. CASE ~(c.keys \subseteq gallery)
        <4>1. r = A(404, "image_not_found", {})
          BY <1>3, <1>8, <3>2 DEF RemoveServed
        <4>2. r.status = 404
          BY <1>4, <4>1
        <4> QED BY <4>2
      <3> QED BY <3>1, <3>2
    <2>3. r.status \in 200..299 => Truth(i, c, r.shows)'
      BY <2>1, <2>2 DEF Truth
    <2>4. c.tool \in Lasting
      BY <2>1 DEF Lasting, ToolNames, MediaTools
    <2> QED BY <1>1, <1>5, <2>1, <2>3, <2>4
  <1>9. CASE TagServed(i, c, FALSE)
    <2>1. c.tool = "tag_property_images"
      BY <1>9 DEF TagServed
    <2>2. r.status \in 200..299 => before' = before \cup c.keys
      <3>1. CASE c.keys \subseteq gallery
        BY <1>9, <3>1 DEF TagServed
      <3>2. CASE ~(c.keys \subseteq gallery)
        <4>1. r = A(404, "image_not_found", {})
          BY <1>3, <1>9, <3>2 DEF TagServed
        <4>2. r.status = 404
          BY <1>4, <4>1
        <4> QED BY <4>2
      <3> QED BY <3>1, <3>2
    <2>3. r.status \in 200..299 => Truth(i, c, r.shows)'
      BY <2>1, <2>2 DEF Truth
    <2>4. c.tool \in Lasting
      BY <2>1 DEF Lasting, ToolNames, RenovationTools
    <2> QED BY <1>1, <1>5, <2>1, <2>3, <2>4
  <1>10. CASE SubmitServed(i, c, FALSE)
    <2>1. c.tool = "submit_property_renovation" /\ after' = after \cup c.keys
      BY <1>10 DEF SubmitServed
    <2>2. Truth(i, c, r.shows)'
      BY <2>1 DEF Truth
    <2>3. c.tool \in Lasting
      BY <2>1 DEF Lasting, ToolNames, RenovationTools
    <2> QED BY <1>1, <1>5, <2>1, <2>2, <2>3
  <1>11. CASE ListServed(i, c, FALSE)
    <2>1. r = A(200, "none", Lists(c))
      BY <1>3, <1>11 DEF ListServed
    <2>2. r.shows = Lists(c) /\ r.message = "none" /\ r.status = 200
      BY <1>4, <2>1
    <2>3. UNCHANGED <<files, property>>
      BY <1>11 DEF ListServed
    <2>4. CASE c.tool = "list_property_documents"
      <3>1. r.shows \subseteq {d[1] : d \in docs'}
        BY <2>2, <2>3, <2>4 DEF Lists, property
      <3>2. Truth(i, c, r.shows)'
        BY <2>4, <3>1 DEF Truth
      <3>3. c.tool \in Lasting
        BY <2>4 DEF Lasting, ToolNames, DocumentTools
      <3> QED BY <1>1, <1>5, <2>2, <3>2, <3>3
    <2>5. CASE c.tool = "get_renovation_ledger"
      <3>1. r.shows = after'
        BY <2>2, <2>3, <2>5 DEF Lists, property
      <3>2. Truth(i, c, r.shows)'
        BY <2>5, <3>1 DEF Truth
      <3>3. c.tool \in Lasting
        BY <2>5 DEF Lasting, ToolNames, RenovationTools
      <3> QED BY <1>1, <1>5, <2>2, <2>5, <3>2, <3>3
    <2>6. CASE c.tool = "list_property_images"
      <3>1. r.shows = gallery /\ gallery' = gallery
        BY <2>2, <2>3, <2>6 DEF Lists, property
      <3>2. Own(i)' = Own(i) /\ Docs(i)' = Docs(i) /\ docs' = docs
        BY <2>3 DEF Own, Docs, files, property
      <3>3. i \notin overtaken' => i \notin overtaken /\ Pending(i) = {}
        BY <1>11, <2>6 DEF ListServed, Pending
      <3>4. i \notin overtaken' => Clean(i)' \/ \E k \in r.shows : owner'[k] = i
        BY <1>0, <2>3, <3>1, <3>2, <3>3 DEF Clean, Own, files
      <3>5. Truth(i, c, r.shows)'
        BY <2>6, <3>1, <3>4 DEF Truth
      <3>6. i \notin overtaken' => Few(i)'
        BY <1>0, <3>2, <3>3 DEF AgentInv, OnePhoto, Few
      <3>7. i \notin overtaken => Docs(i) = {}
        BY <2>6 DEF AgentInv, OneDocument, Settled
      <3> QED BY <1>1, <2>6, <3>2, <3>3, <3>5, <3>6, <3>7 DEF Answered, AgentInv, OneDocument, OnePhoto
    <2> QED BY <1>11, <2>4, <2>5, <2>6 DEF ListServed
  <1>12. CASE AddServed(i, c, FALSE)
    <2>1. c.tool = "upload_property_image" /\ wish[i].what = "photo"
      BY <1>12 DEF AddServed, Fitting
    <2>2. PICK k \in Keys : Minted(i, k) /\ Answer(i, FALSE, A(201, "none", {k}))
      <3>1. Mint(i, FALSE, "typed", 201) /\ "typed" \in Types \cup {None}
        BY <1>12 DEF AddServed, Types
      <3> QED BY <3>1, MintMoves
    <2>3. r.status = 201
      <3>1. r = A(201, "none", {k})
        BY <1>3, <2>2
      <3> QED BY <1>4, <3>1
    <2>4. gallery' = gallery \cup {k} /\ docs' = docs /\ overtaken' = overtaken
      <3>1. {l \in Keys : owner'[l] # owner[l]} = {k}
        BY <2>2, NoneAssumption DEF World, Minted
      <3> QED BY <1>12, <3>1 DEF AddServed
    <2>5. Own(i)' = Own(i) \cup {k}
      BY <2>2, <2>4 DEF Own, World, Minted
    <2>6. Docs(i)' = Docs(i)
      <3>1. \A d \in docs : d[1] \in Keys
        BY DEF World
      <3> QED BY <2>2, <2>4, <3>1 DEF Docs, World, Minted
    <2>7. i \notin overtaken => Clean(i) /\ Docs(i) = {}
      BY <2>1 DEF AgentInv, OnePhoto, OneDocument, Settled
    <2>8. Truth(i, c, r.shows)'
      BY <2>1, <2>5 DEF Truth
    <2>9. i \notin overtaken => Few(i)'
      BY <1>0, <2>5, <2>7 DEF Few, Clean
    <2>10. \A d \in Docs(i)' : d[2] \in wish[i].categories
      BY <2>6 DEF AgentInv, OneDocument
    <2>11. i \notin overtaken' => Docs(i)' = {} /\ Few(i)'
      BY <2>4, <2>6, <2>7, <2>9
    <2>12. Answered(i, c, r)
      BY <2>1, <2>3, <2>8, <2>10, <2>11 DEF Answered
    <2> QED BY <1>1, <2>12
  <1>13. CASE ConfirmServed(i, c, FALSE)
    <2>1. c.tool = "confirm_property_document_upload" /\ c.keys = key[i] /\ wish[i].what = "document"
      BY <1>13 DEF ConfirmServed, Ready, Fitting, DocumentTools
    <2>2. PICK k \in c.keys : Confirmed(i, c, FALSE, k)
      BY <1>13 DEF ConfirmServed
    <2>3. key[i] = {k} /\ owner[k] = i /\ c.as \in wish[i].categories /\ k \in Keys
      BY <1>0, <2>1, <2>2 DEF AgentInv, KeyOK, Fitting
    <2>4. UNCHANGED <<owner, gallery, overtaken>>
      BY <1>13 DEF ConfirmServed, files
    <2>5. docs' = docs \/ docs' = docs \cup {<<k, c.as>>}
      BY <2>2 DEF Confirmed
    <2>6. \A d \in Docs(i)' : d[2] \in wish[i].categories
      BY <2>3, <2>4, <2>5 DEF Docs, AgentInv, OneDocument
    <2>7. Own(i)' = Own(i) /\ (Few(i) => Few(i)')
      <3>1. Own(i)' = Own(i)
        BY <2>4 DEF Own
      <3>2. \A g : Pending(i)' = {g} => g \in ghosts'
        BY DEF Pending
      <3> QED BY <1>0, <3>1, <3>2 DEF Few
    <2>8. r.status \in 200..299 => <<k, c.as>> \in docs'
      <3>1. CASE docs' = docs \cup {<<k, c.as>>} \/ <<k, c.as>> \in docs
        BY <2>5, <3>1
      <3>2. CASE ~(docs' = docs \cup {<<k, c.as>>} \/ <<k, c.as>> \in docs)
        <4>1. \/ r = A(409, "none", {}) \/ r = A(404, "no_file_found", {})
              \/ r = A(400, "unsupported_type", {})
          BY <1>3, <2>2, <3>2 DEF Confirmed
        <4>2. r.status \in {409, 404, 400}
          BY <1>4, <4>1
        <4> QED BY <4>2
      <3> QED BY <3>1, <3>2
    <2>9. r.status \in 200..299 => Truth(i, c, r.shows)'
      BY <1>0, <2>1, <2>3, <2>4, <2>8 DEF Truth
    <2>10. i \notin overtaken /\ Docs(i)' # {} =>
             /\ r.message \notin {"no_file_found", "unsupported_type"}
             /\ \E d \in docs' : Docs(i)' = {d} /\ key[i] = {d[1]}
      <3> SUFFICES ASSUME i \notin overtaken, Docs(i)' # {}
                   PROVE  /\ r.message \notin {"no_file_found", "unsupported_type"}
                          /\ \E d \in docs' : Docs(i)' = {d} /\ key[i] = {d[1]}
        OBVIOUS
      <3>1. CASE Docs(i) # {}
        <4>1. PICK d \in docs : Docs(i) = {d} /\ key[i] = {d[1]}
          BY <3>1 DEF AgentInv, OneDocument
        <4>2. d[1] = k
          BY <2>3, <4>1
        <4>3. docs' = docs /\ (r = A(200, "none", {k}) \/ r = A(409, "none", {}))
          BY <1>3, <2>2, <4>2 DEF Confirmed
        <4>4. r.message = "none"
          BY <1>4, <4>3
        <4> QED BY <2>4, <4>1, <4>3, <4>4 DEF Docs
      <3>2. CASE Docs(i) = {}
        <4>1. docs' # docs
          BY <2>4, <3>2 DEF Docs
        <4>2. docs' = docs \cup {<<k, c.as>>} /\ r = A(200, "none", {k})
          BY <1>3, <2>2, <4>1 DEF Confirmed
        <4>3. r.message = "none"
          BY <1>4, <4>2
        <4>4. Docs(i)' = {<<k, c.as>>}
          BY <2>3, <2>4, <3>2, <4>2 DEF Docs
        <4>5. <<k, c.as>> \in docs' /\ <<k, c.as>>[1] = k
          BY <4>2
        <4> QED BY <2>3, <4>3, <4>4, <4>5
      <3> QED BY <3>1, <3>2
    <2> QED BY <1>1, <2>1, <2>4, <2>6, <2>7, <2>9, <2>10 DEF Answered, AgentInv, OnePhoto
  <1> QED BY <1>6, <1>7, <1>8, <1>9, <1>10, <1>11, <1>12, <1>13 DEF Served

(* The server serves a call that waits.                                    *)
LEMMA ServeInv ==
    ASSUME Inv, NEW i \in Agents, Serve(i)
    PROVE  Inv'
  <1>1. /\ UNCHANGED <<wish, asked, outcome, key, told, ghosts, faults>>
        /\ wire[i] = "sent" /\ AgentInv(i) /\ World /\ Common
        /\ wire' = [wire EXCEPT ![i] = "served"]
    BY DEF Serve, Inv
  <1>2. PICK c : c = asked[i]
    OBVIOUS
  <1>3. c # None /\ Fitting(i, c) /\ Ready(i, c) /\ Given(c) /\ Served(i, c, FALSE)
    BY <1>1, <1>2 DEF AgentInv, Place, Serve
  <1>4. /\ World' /\ Moves /\ (overtaken \subseteq Agents)'
        /\ \A j \in Agents \ {i} : Apart(j)
        /\ c.tool \in Lasting => Apart(i)
    BY <1>1, <1>3, ServedMoves DEF Common
  <1>5. PICK r \in Reply : Answer(i, FALSE, r) /\ Answered(i, c, r)
    BY <1>1, <1>2, <1>3, <1>4, ServedAnswered
  <1>6. reply' = [reply EXCEPT ![i] = r] /\ r # None
    BY <1>5, NoneAssumption DEF Answer
  <1>7. Common'
    BY <1>1, <1>4, <1>6 DEF Common
  <1>8. GhostsOK'
    BY <1>1, <1>4, GhostsStay DEF Inv
  <1>9. ASSUME NEW j \in Agents \ {i} PROVE AgentInv(j)'
    <2>1. Waits(j) /\ Pending(j)' = Pending(j)
      BY <1>1, <1>6 DEF Waits, Pending, Common
    <2>2. AgentInv(j) /\ OneDocument(j)
      BY DEF Inv, AgentInv
    <2>3. Added(j)
      BY <1>4, <2>1, <2>2, ApartAdded
    <2> QED BY <1>1, <1>4, <2>1, <2>2, <2>3, Undisturbed
  <1>10. wire'[i] = "served" /\ reply'[i] = r /\ asked'[i] = c /\ key'[i] = key[i]
    BY <1>1, <1>2, <1>6 DEF Common
  <1>11. AgentInv(i)'
    <2>1. \A k \in Keys : owner[k] = i => owner'[k] = i
      BY <1>4, NoneAssumption DEF Moves
    <2>2. KeyOK(i)'
      BY <1>1, <1>10, <2>1 DEF AgentInv, KeyOK, Common
    <2>3. Place(i)'
      <3>1. Fitting(i, c)'
        BY <1>1, <1>3, <1>4, FittingStays, NoneAssumption
      <3>2. Ready(i, c)'
        <4>1. before \subseteq before' /\ \A k \in gallery' : k <= Photos => k \in gallery
          BY <1>4 DEF Moves
        <4>2. wish[i].keys \subseteq 1..Photos
          BY <1>1, WishOf DEF Common
        <4> QED BY <1>1, <1>3, <4>1, <4>2 DEF Ready
      <3>3. (Fitting(i, asked[i]) /\ Ready(i, asked[i]))'
        BY <1>10, <3>1, <3>2 DEF Fitting, Ready
      <3>4. (Given(asked[i]))'
        BY <1>3, <1>10 DEF Given, DocumentInput, MediaInput, TagInput, SubmitInput,
                           validateDocumentCategory
      <3>5. told'[i] = "none"
        BY <1>1 DEF AgentInv, Place, Common
      <3> QED BY <1>3, <1>6, <1>10, <3>3, <3>4, <3>5 DEF Place
    <2>4. Heard(i)'
      <3>1. (reply[i].status \in 200..299 => Truth(i, asked[i], reply[i].shows))'
        BY <1>5, <1>10 DEF Answered, Truth
      <3> QED BY <1>10, <3>1 DEF Heard
    <2>5. OneDocument(i)'
      <3>1. c.tool \in {"confirm_property_document_upload", "list_property_documents"} /\
              r.message \notin {"no_file_found", "unsupported_type"} => Settled(i)'
        BY <1>3, <1>10 DEF Settled
      <3> QED BY <1>1, <1>5, <1>10, <3>1 DEF Answered, OneDocument
    <2>6. OnePhoto(i)'
      BY <1>1, <1>3, <1>5, <1>10 DEF Answered, OnePhoto
    <2>7. Told(i)'
      BY <1>1 DEF AgentInv, Place, Told
    <2> QED BY <2>2, <2>3, <2>4, <2>5, <2>6, <2>7 DEF AgentInv
  <1> QED BY <1>4, <1>7, <1>8, <1>9, <1>11 DEF Inv

-----------------------------------------------------------------------------
(* A step keeps Inv.                                                       *)
LEMMA StepInv == ASSUME Inv, [Next]_vars PROVE Inv'
  <1>1. ASSUME NEW i \in Agents, NEW c \in NextCalls(i), Call(i, c) PROVE Inv'
    BY <1>1, CallInv
  <1>2. ASSUME NEW i \in Agents, Receive(i) PROVE Inv'
    BY <1>2, ReceiveInv
  <1>3. ASSUME NEW i \in Agents, NoAnswer(i) PROVE Inv'
    BY <1>3, NoAnswerInv
  <1>4. ASSUME NEW i \in Agents, Serve(i) PROVE Inv'
    BY <1>4, ServeInv
  <1>5. ASSUME NEW i \in Agents, Refuse(i) PROVE Inv'
    BY <1>5, RefuseInv
  <1>6. ASSUME NEW g \in ghosts, ServeLate(g) PROVE Inv'
    BY <1>6, ServeLateInv
  <1>7. ASSUME NEW k \in Keys, Expire(k) PROVE Inv'
    BY <1>7, ExpireInv
  <1>9. ASSUME NEW i \in Agents, SubmitUnrecorded(i) PROVE Inv'
    BY <1>9, UnrecordedInv
  <1>8. CASE UNCHANGED vars
    <2>1. UNCHANGED <<files, property, overtaken>> /\ UNCHANGED agents
      BY <1>8 DEF vars
    <2>2. World' /\ Moves /\ \A i \in Agents : Apart(i)
      BY <2>1, Unmoved DEF Inv
    <2>3. \A i \in Agents : Waits(i) /\ Pending(i)' = Pending(i)
      BY <2>1 DEF Waits, Pending, agents
    <2>4. Common'
      BY <2>1 DEF Inv, Common, agents
    <2>5. GhostsOK'
      BY <2>1, <2>2, GhostsStay DEF Inv, agents
    <2>6. ASSUME NEW i \in Agents PROVE AgentInv(i)'
      <3>1. Added(i)
        BY <2>2, <2>3, ApartAdded DEF Inv, AgentInv
      <3> QED BY <2>2, <2>3, <3>1, Undisturbed DEF Inv
    <2> QED BY <2>2, <2>4, <2>5, <2>6 DEF Inv
  <1> QED BY <1>1, <1>2, <1>3, <1>4, <1>5, <1>6, <1>7, <1>8, <1>9 DEF Next, Idle

(* Inv is an inductive invariant of Uploads: whatever is lost, late,       *)
(* or done by others, calls fit their wishes and what is told is so.       *)
THEOREM Invariance == Spec => []Inv
  <1>1. Init => Inv
    BY InitInv
  <1>2. Inv /\ [Next]_vars => Inv'
    BY StepInv
  <1> QED BY <1>1, <1>2, PTL DEF Spec

(* Type correctness: every document is recorded under one of the           *)
(* categories of PropertyDocumentCategories (the check of                  *)
(* documents.go:141), an agent holds at most one key.                      *)
THEOREM TypeCorrect == Spec => []TypeOK
  <1>1. ASSUME Inv PROVE TypeOK
    <2>1. ASSUME NEW i \in Agents PROVE key[i] \subseteq Keys /\ Cardinality(key[i]) <= 1
      <3>1. key[i] = {} \/ \E k \in Keys : key[i] = {k}
        BY <1>1 DEF Inv, AgentInv, KeyOK
      <3>2. Cardinality(key[i]) \in {0, 1}
        BY <3>1, FS_EmptySet, FS_Singleton
      <3> QED BY <1>1, <3>2 DEF Inv, Common
    <2> QED BY <1>1, <2>1 DEF Inv, Common, World, TypeOK
  <1> QED BY <1>1, Invariance, PTL

(* A file is recorded once, however often the upload and the confirmation  *)
(* are repeated, unless a confirmation took effect after its call had      *)
(* given up (documents.go:22, 143).                                        *)
THEOREM RecordedOnce == Spec => []AttachedOnce
  <1>1. ASSUME Inv PROVE AttachedOnce
    <2>1. ASSUME NEW i \in Agents, i \notin overtaken PROVE ~(Cardinality(Docs(i)) > 1)
      <3>1. Docs(i) = {} \/ \E d \in docs : Docs(i) = {d}
        BY <1>1, <2>1 DEF Inv, AgentInv, OneDocument
      <3>2. Cardinality(Docs(i)) \in {0, 1}
        BY <3>1, FS_EmptySet, FS_Singleton
      <3> QED BY <3>2
    <2> QED BY <2>1 DEF AttachedOnce, Docs
  <1> QED BY <1>1, Invariance, PTL

(* What an agent tells its user is done is done: the truth of each answer  *)
(* outlives what others do before the user hears of it.  A render is done  *)
(* when the ledger shows it, for a submission's success does not say so    *)
(* (documents.go:36-57, media.go:24-41, renovation.go:134-185).            *)
THEOREM ToldIsDone == Spec => []DoneIsDone
  <1>1. Inv => DoneIsDone
    BY DEF Inv, AgentInv, Told, Fulfilled, DoneIsDone
  <1> QED BY <1>1, Invariance, PTL

(* A photo is there twice only if its agent looked while an upload of its  *)
(* own was still to be served (media.go:47).                               *)
THEOREM TwiceOnlyIfOvertaken == Spec => []CopyOnlyIfOvertaken
  <1>1. ASSUME Inv PROVE CopyOnlyIfOvertaken
    <2>1. ASSUME NEW i \in Agents, i \notin overtaken PROVE ~(Cardinality(Own(i)) > 1)
      <3>1. Own(i) = {} \/ \E k \in Keys : Own(i) = {k}
        BY <1>1, <2>1 DEF Inv, AgentInv, OnePhoto, Few
      <3>2. Cardinality(Own(i)) \in {0, 1}
        BY <3>1, FS_EmptySet, FS_Singleton
      <3> QED BY <3>2
    <2> QED BY <2>1 DEF CopyOnlyIfOvertaken, Own
  <1> QED BY <1>1, Invariance, PTL

=============================================================================

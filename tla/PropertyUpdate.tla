--------------------------- MODULE PropertyUpdate ---------------------------
(***************************************************************************)
(* update_property (internal/tools/property_update.go over                 *)
(* internal/reisearch/property_update.go), called by agents that each want *)
(* to add an item to a list of one property.  A list is replaced whole, so *)
(* an agent reads the property, makes the new list and sends it, with the  *)
(* version it read in If-Match; a careless one leaves the version out,     *)
(* which the tool allows.                                                  *)
(*                                                                         *)
(* A request can be applied although its call has given up after 15 s, and *)
(* an agent that got no answer may repeat its call or read again.          *)
(***************************************************************************)
EXTENDS Naturals

CONSTANTS
    Agents,
    Careless,     \* agents that pass no expectedVersion
    Tags,         \* an agent has a request in flight for each of its tags
    None,         \* no call or no reply
    MaxRepeats,   \* bound on calls repeated without reading again
    MaxVersion    \* bound on the versions of the property

ASSUME CarelessAssumption == Careless \subseteq Agents
ASSUME NoneAssumption == None \notin Tags \cup {"ok", "stale", "refused"}
ASSUME BoundsAssumption == MaxRepeats \in Nat /\ MaxVersion \in Nat \ {0}

Versions == 1..MaxVersion
Unchecked == 0    \* an expectedVersion of 0 is no If-Match

(* The body sends the whole list.                                          *)
Request == [from : Agents, tag : Tags, expected : Versions \cup {Unchecked},
            list : SUBSET Agents, dryRun : BOOLEAN]

VARIABLES
    version,    \* updatedAt of the property
    list,       \* its list
    pc,         \* where each agent is
    seen,       \* version and list each agent read last
    call,       \* tag of the call each agent waits for
    dry,        \* whether that call is a dry run
    flight,     \* requests on their way to the backend
    reply,      \* reply to the call each agent waits for
    repeats,    \* calls each agent repeated
    asked,      \* agents that called without dryRun
    added       \* agents whose item was saved at some time

vars == <<version, list, pc, seen, call, dry, flight, reply, repeats, asked,
          added>>

TypeOK ==
    /\ version \in Versions
    /\ list \in SUBSET Agents
    /\ pc \in [Agents -> {"idle", "read", "waiting", "unsure", "done"}]
    /\ seen \in [Agents -> [version : Versions, list : SUBSET Agents]]
    /\ call \in [Agents -> Tags \cup {None}]
    /\ dry \in [Agents -> BOOLEAN]
    /\ flight \in SUBSET Request
    /\ reply \in [Agents -> {None, "ok", "stale", "refused"}]
    /\ repeats \in [Agents -> 0..MaxRepeats]
    /\ asked \in SUBSET Agents
    /\ added \in SUBSET Agents

Init ==
    /\ version = 1
    /\ list = {}
    /\ pc = [i \in Agents |-> "idle"]
    /\ seen = [i \in Agents |-> [version |-> 1, list |-> {}]]
    /\ call = [i \in Agents |-> None]
    /\ dry = [i \in Agents |-> FALSE]
    /\ flight = {}
    /\ reply = [i \in Agents |-> None]
    /\ repeats = [i \in Agents |-> 0]
    /\ asked = {}
    /\ added = {}

-----------------------------------------------------------------------------

(* get_property_details; an agent that finds its item is done.             *)
GetPropertyDetails(i) ==
    /\ pc[i] \in {"idle", "unsure"}
    /\ seen' = [seen EXCEPT ![i] = [version |-> version, list |-> list]]
    /\ pc' = [pc EXCEPT ![i] = IF i \in list THEN "done" ELSE "read"]
    /\ UNCHANGED <<version, list, call, dry, flight, reply, repeats, asked,
                   added>>

(* Faulty variant: the version of the moment is sent, not the one read.    *)
IfMatchLatest(i) == IF i \in Careless THEN Unchecked ELSE version

(* The If-Match header, absent for an expectedVersion of 0.                *)
IfMatch(i) == IF i \in Careless THEN Unchecked ELSE seen[i].version

(* update_property with the item added to the list that was read.  A call  *)
(* whose fate is not known may be repeated as it was.                      *)
UpdateProperty(i, dryRun) ==
    /\ \/ pc[i] = "read" /\ UNCHANGED repeats
       \/ /\ pc[i] = "unsure" /\ dryRun = dry[i]
          /\ repeats[i] < MaxRepeats
          /\ repeats' = [repeats EXCEPT ![i] = @ + 1]
    /\ \E tag \in Tags :
          /\ \A q \in flight : q.from = i => q.tag # tag
          /\ call' = [call EXCEPT ![i] = tag]
          /\ flight' = flight \cup
                {[from |-> i, tag |-> tag, expected |-> IfMatch(i),
                  list |-> seen[i].list \cup {i}, dryRun |-> dryRun]}
    /\ dry' = [dry EXCEPT ![i] = dryRun]
    /\ asked' = IF dryRun THEN asked ELSE asked \cup {i}
    /\ pc' = [pc EXCEPT ![i] = "waiting"]
    /\ UNCHANGED <<version, list, seen, reply, added>>

(* Faulty variant: the reply is handed on as it is.                        *)
ReceiveRaw(i) ==
    /\ pc[i] = "waiting"
    /\ reply[i] # None
    /\ pc' = [pc EXCEPT ![i] = reply[i]]
    /\ reply' = [reply EXCEPT ![i] = None]
    /\ call' = [call EXCEPT ![i] = None]
    /\ UNCHANGED <<version, list, seen, dry, flight, repeats, asked,
                   added>>

(* The result of the call.  "The property changed since you read it [...]  *)
(* Call get_property_details again" and the other refusals lead back to    *)
(* the start, a dry run to the update.                                     *)
Receive(i) ==
    /\ pc[i] = "waiting"
    /\ reply[i] # None
    /\ pc' = [pc EXCEPT ![i] = IF reply[i] # "ok" THEN "idle"
                                ELSE IF dry[i] THEN "read" ELSE "done"]
    /\ reply' = [reply EXCEPT ![i] = None]
    /\ call' = [call EXCEPT ![i] = None]
    /\ UNCHANGED <<version, list, seen, dry, flight, repeats, asked,
                   added>>

(* No API answer, or a 5xx: whether the update is saved is not known.      *)
NoAnswer(i) ==
    /\ pc[i] = "waiting"
    /\ pc' = [pc EXCEPT ![i] = "unsure"]
    /\ reply' = [reply EXCEPT ![i] = None]
    /\ call' = [call EXCEPT ![i] = None]
    /\ UNCHANGED <<version, list, seen, dry, flight, repeats, asked,
                   added>>

-----------------------------------------------------------------------------
(* The API, from how the client uses it. *)

Reply(q, outcome) ==
    /\ flight' = flight \ {q}
    /\ reply' = IF call[q.from] = q.tag
                THEN [reply EXCEPT ![q.from] = outcome] ELSE reply

(* If-Match is compared and the update saved in one step; an update that   *)
(* changes nothing leaves the version.                                     *)
Serve(q) ==
    LET current == q.expected \in {Unchecked, version}
        saves == current /\ ~q.dryRun /\ q.list # list
    IN  /\ Reply(q, IF current THEN "ok" ELSE "stale")
        /\ IF saves
           THEN /\ version < MaxVersion
                /\ version' = version + 1
                /\ list' = q.list
                /\ added' = added \cup {q.from}
           ELSE UNCHANGED <<version, list, added>>
        /\ UNCHANGED <<pc, seen, call, dry, repeats, asked>>

(* 400, 403, 404 or 429: nothing is saved.                                 *)
Refuse(q) ==
    /\ Reply(q, "refused")
    /\ UNCHANGED <<version, list, pc, seen, call, dry, repeats, asked,
                   added>>

Next ==
    \/ \E i \in Agents :
          \/ GetPropertyDetails(i)
          \/ \E dryRun \in BOOLEAN : UpdateProperty(i, dryRun)
          \/ Receive(i)
          \/ NoAnswer(i)
    \/ \E q \in flight : Serve(q) \/ Refuse(q)

Spec == Init /\ [][Next]_vars

-----------------------------------------------------------------------------
(* Properties *)

(* The updates of agents that pass the version they read are atomic        *)
(* additions to the list, and an agent that takes its item for saved is    *)
(* right, whatever is lost, late or repeated (property_update.go:137-147,  *)
(* tools/property_update.go:25-43).                                        *)
Told == {i \in Agents : pc[i] = "done"}

Promise == INSTANCE SharedList WITH told <- Told

KeepsPromise == Promise!Spec

=============================================================================

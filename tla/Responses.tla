------------------------------ MODULE Responses ------------------------------
(***************************************************************************)
(* How the client turns an HTTP response into what a tool returns          *)
(* (internal/reisearch/client.go, apiDo of underwriting.go, and            *)
(* invitations.go).  The helpers do not agree on what success is: some ask *)
(* for one status, some do not look at the status and read the envelope.   *)
(***************************************************************************)
EXTENDS Naturals

CONSTANT Things      \* what a response can be about

(* `body` is the standard envelope, an envelope whose data or error has    *)
(* not the shape the method decodes ("drifted"), other JSON (of what is in *)
(* front of the API) or no JSON.  The other fields are those of the        *)
(* envelope, "none" or empty if not there: `state` is data.status,         *)
(* `details` that of its error, `items` what data holds, `failed` the list *)
(* some creates put in `error`, `more` a cursor of a next page; of a       *)
(* drifted envelope they hold what can still be decoded.                   *)
Statuses == {200, 201, 202, 400, 403, 404, 409, 429, 500, 502}
Codes == {"none", "ALREADY_IN_CRM", "CONFLICT", "FORBIDDEN", "INTERNAL_ERROR",
          "PROPERTY_NOT_FOUND", "SHARED_USER_NOT_FOUND"}
Billing == {"already_in_progress", "insufficient_credits"}
Reply == [status : Statuses, body : {"envelope", "drifted", "json", "other"},
          success : BOOLEAN, code : Codes, state : {"none", "in_progress"},
          details : Billing \cup {"none"}, items : SUBSET Things,
          failed : SUBSET Things, more : BOOLEAN]

(* What a client method returns: "ok" with data, the statuses some methods *)
(* make of an outcome, and errors: "refused" with a 4xx in its text,       *)
(* "trouble" with another status, "failed" without a usable response, and  *)
(* what invite_users says instead of some of them.                         *)
Lowered == [ALREADY_IN_CRM |-> "already_in_crm", CONFLICT |-> "conflict",
            FORBIDDEN |-> "forbidden", INTERNAL_ERROR |-> "internal_error",
            PROPERTY_NOT_FOUND |-> "property_not_found",
            SHARED_USER_NOT_FOUND |-> "shared_user_not_found"]
Kinds == {"ok", "created", "in_progress", "removed", "already_removed",
          "already_in_crm", "conflict", "forbidden", "internal_error",
          "property_not_found", "shared_user_not_found", "invalid",
          "none_queued", "rate_limited", "refused", "trouble", "failed"} \cup Billing
Outcome == [kind : Kinds, items : SUBSET Things, failed : SUBSET Things, more : BOOLEAN]

Nothing(kind) == [kind |-> kind, items |-> {}, failed |-> {}, more |-> FALSE]

Content(kind, r) ==
    [kind |-> kind, items |-> r.items, failed |-> r.failed, more |-> r.more]

StatusError(status) ==
    Nothing(IF status \in 400..499 THEN "refused" ELSE "trouble")

(* Methods that ask for one status: `want`. *)
OfStatus(want, r) ==
    IF r.status # want THEN StatusError(r.status)
    ELSE IF r.body \in {"envelope", "json"} THEN Content("ok", r)
    ELSE Nothing("failed")

(* crmGet: the data must be there. *)
OfCRM(r) ==
    IF r.status = 200 /\ r.body # "envelope" THEN Nothing("failed") ELSE OfStatus(200, r)

(* The error of the buyer methods has the status the envelope names: 0 if  *)
(* the body is no envelope.                                                *)
EnvelopeError(r) ==
    StatusError(IF r.body \in {"envelope", "drifted"} THEN r.status ELSE 0)

(* Faulty variant: the data is read whatever `success` is. *)
OfAnyEnvelope(r) ==
    IF r.body = "other" THEN Nothing("failed") ELSE Content("ok", r)

(* tsGet, and what the callers of tsWrite do with its envelope: the status *)
(* is not looked at, `success` is; then the data must be of their type.    *)
OfEnvelope(r) ==
    IF r.body = "other" THEN Nothing("failed")
    ELSE IF ~r.success THEN EnvelopeError(r)
    ELSE IF r.body = "drifted" THEN Nothing("failed")
    ELSE Content("ok", r)

(* createBuyBoxes: an error only if no location is reported as failed; the *)
(* errors of decoding the two lists are dropped, so that of a drifted      *)
(* envelope it returns what is left as if it were all.                     *)
OfBuyBoxes(r) ==
    IF r.body = "other" THEN Nothing("failed")
    ELSE IF ~r.success /\ r.failed = {} THEN EnvelopeError(r)
    ELSE Content("ok", r)

(* Faulty variant: an empty status in `data` is taken for a status. *)
OfRunCompsEmpty(r) ==
    IF r.body = "other" THEN Nothing("failed")
    ELSE IF r.success THEN Content(r.state, r)
    ELSE IF r.details # "none" THEN Nothing(r.details)
    ELSE IF r.code = "PROPERTY_NOT_FOUND" THEN Nothing("property_not_found")
    ELSE Content(r.state, r)

(* RunComps: the status of the job from `data` or from `error.details`.    *)
OfRunComps(r) ==
    IF r.body \in {"drifted", "other"} THEN Nothing("failed")
    ELSE IF r.state # "none" THEN Content(r.state, r)
    ELSE IF r.details # "none" THEN Nothing(r.details)
    ELSE IF r.code = "PROPERTY_NOT_FOUND" THEN Nothing("property_not_found")
    ELSE Nothing("failed")

(* PushToCRM: any error code becomes a status, in lower case. *)
OfPush(r) ==
    IF r.body \in {"drifted", "other"} THEN Nothing("failed")
    ELSE IF r.success /\ r.items # {} THEN Content("created", r)
    ELSE IF r.code # "none" THEN Nothing(Lowered[r.code])
    ELSE Nothing("failed")

(* RemoveSharedUser: a user who is no collaborator is a success, whatever  *)
(* the status.                                                             *)
OfRemoval(r) ==
    IF r.status = 200 THEN Nothing("removed")
    ELSE IF r.body = "envelope" /\ r.code = "SHARED_USER_NOT_FOUND"
    THEN Nothing("already_removed")
    ELSE StatusError(r.status)

(* inviteUsersError: of any 502, whoever answered, it says that "none      *)
(* could be queued (temporary)"; of a 429, to wait; of a 400, that nothing *)
(* was.  Its other errors are those of apiDo.                              *)
inviteUsersError(status) ==
    IF status = 502 THEN Nothing("none_queued")
    ELSE IF status = 429 THEN Nothing("rate_limited")
    ELSE StatusError(status)

(* InviteUsers over apiDo: any 2xx. *)
OfInvite(r) ==
    IF r.status \notin 200..299 THEN inviteUsersError(r.status)
    ELSE IF r.body = "envelope" THEN Content("ok", r)
    ELSE Nothing("failed")

=============================================================================

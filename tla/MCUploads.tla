------------------------------ MODULE MCUploads ------------------------------
(* TLC instance of Uploads: two agents of a user on one property with two  *)
(* photos.                                                                 *)
EXTENDS Uploads

CONSTANTS a1, a2

MCAgents == {a1, a2}
MCCategories == {"inspectionReport", "additionalDocuments"}

Attach == [what |-> "document", keys |-> {},
           categories |-> {"inspectionReport", "additionalDocuments", "misc"}]
Add == [what |-> "photo", keys |-> {}, categories |-> {}]
Remove(keys) == [what |-> "removal", keys |-> keys, categories |-> {}]
Stage(photo) == [what |-> "render", keys |-> {photo}, categories |-> {}]
Both(v, w) == [i \in MCAgents |-> IF i = a1 THEN v ELSE w]

MCScenarios ==
    { Both(Attach, Remove({})), Both(Add, Remove({1})), Both(Add, Add),
      Both(Remove({1, 2}), Remove({2})), Both(Stage(1), Remove({1})) }

=============================================================================

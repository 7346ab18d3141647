----------------------------- MODULE MCToolCalls -----------------------------
(* TLC instance of ToolCalls: every tool called by one agent, every tool   *)
(* with required fields called without them, and two agents where their    *)
(* tools meet at the backend.                                              *)
EXTENDS ToolCalls

CONSTANTS a1, a2

MCAgents == {a1, a2}
MCThings == {"contact", "opportunity", "comps", "x", "y"}
MCInitially == {"y"}
MCMaxCalls == 3

Wants(tool, things, calls) ==
    [tool |-> tool, given |-> tool.needs, things |-> things, zero |-> FALSE,
     calls |-> calls]

Idle == Wants(get_comps, {}, 0)
Alone(w) == [i \in MCAgents |-> IF i = a1 THEN w ELSE Idle]
Both(v, w) == [i \in MCAgents |-> IF i = a1 THEN v ELSE w]

ThingsOf(tool) ==
    CASE tool = run_comps -> {"comps"}
      [] tool = push_lead_to_crm -> {"contact", "opportunity"}
      [] tool = create_crm_opportunity -> {"opportunity"}
      [] tool.call.does \in {"part", "link"} -> {"x", "y"}
      [] tool.call.does = "unlink" -> {"y"}
      [] OTHER -> {"x"}

MCScenarios ==
    {Alone(Wants(tool, {"x"}, 2)) : tool \in Readers}
    \cup {Alone(Wants(tool, {"y"}, 2)) : tool \in {list_buyers, get_folder}}
    \cup {Alone(Wants(tool, ThingsOf(tool), 3)) : tool \in Writers}
    \cup {Alone(Wants(tool, {"y"}, 3)) : tool \in {create_buyer, create_folder}}
    \cup {Alone([Wants(tool, ThingsOf(tool), 2) EXCEPT !.given = {}]) :
             tool \in {t \in AllTools : t.needs # {}}}
    \cup {Alone([Wants(tool, {"y"}, 2) EXCEPT !.zero = TRUE]) :
             tool \in {t \in Writers : t.call.does = "set"}}
    \cup {Both(Wants(run_comps, {"comps"}, 2), Wants(run_comps, {"comps"}, 2)),
          Both(Wants(create_buyer, {"x"}, 2), Wants(create_buyer, {"x"}, 2)),
          Both(Wants(push_lead_to_crm, {"contact", "opportunity"}, 3),
               Wants(push_lead_to_crm, {"contact"}, 1)),
          Both(Wants(push_lead_to_crm, {"contact"}, 2), Wants(add_crm_note, {"x"}, 2)),
          Both(Wants(create_my_buyboxes, {"x", "y"}, 2), Wants(create_my_buyboxes, {"x"}, 1)),
          Both(Wants(share_property, {"x"}, 2), Wants(remove_property_collaborator, {"x"}, 2))}

=============================================================================

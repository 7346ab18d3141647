--------------------------- MODULE MCPresentations ---------------------------
(* TLC instance of Presentations: two agents that share, export or update  *)
(* one presentation.                                                       *)
EXTENDS Presentations

CONSTANTS a1, a2

MCAgents == {a1, a2}
MCFields == {"title", "width"}
MCSettings == {"password", "noPdf"}
MCDenials == {"noPdf"}
MCJobs == {"job1", "job2", "job3", "job4"}
MCThings == MCFields \cup MCSettings \cup MCJobs
                \cup {"link", "processing", "ready", "failed"}

Wants(tool, things) == [tool |-> tool, things |-> things]
Both(v, w) == [i \in MCAgents |-> IF i = a1 THEN v ELSE w]

Exports == << Wants(export_presentation_pdf, {}) >>
Protects == << Wants(publish_presentation, {"password", "noPdf"}),
               Wants(publish_presentation, {"password"}) >>
Withdraws == << Wants(publish_presentation, {"noPdf"}),
                Wants(unpublish_presentation, {}) >>
MCScenarios ==
    { Both(Exports, << Wants(update_presentation, {"title"}) >>),
      Both(Protects, Withdraws), Both(Exports \o Exports, << Wants(publish_presentation, {}) >>),
      Both(<< Wants(update_presentation, {"title", "width"}) >>,
           << Wants(update_presentation, {"title"}),
              Wants(update_presentation, {"width"}) >>) }

=============================================================================

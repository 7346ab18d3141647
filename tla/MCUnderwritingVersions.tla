----------------------- MODULE MCUnderwritingVersions -----------------------
(* TLC instance of UnderwritingVersions: two agents, two versions to begin *)
(* with, one per strategy, and the inputs that make the tools meet.        *)
EXTENDS UnderwritingVersions, Sequences, TLC

CONSTANTS a1, a2, coLiving, fixFlip, base, other

MCAgents == {a1, a2}
Symmetry == Permutations(MCAgents)
MCStrategies == {coLiving, fixFlip}
MCNames == {base, other}

MCInitial ==
    << [strategy |-> coLiving, name |-> base, cells |-> {"section", "room"}],
       [strategy |-> fixFlip, name |-> base, cells |-> {"room"}] >>

Given(tool, strategy, version, createNew, name) ==
    [tool |-> tool, complete |-> TRUE, strategy |-> strategy, version |-> version,
     createNew |-> createNew, name |-> name]

MCInputs ==
    { Given("create_section", coLiving, None, TRUE, other),
      Given("create_section", coLiving, 1, FALSE, None),
      Given("update_section", coLiving, None, TRUE, None),
      Given("update_section", coLiving, 2, FALSE, None),
      Given("upsert_room", fixFlip, None, TRUE, None),
      Given("upsert_room", coLiving, 1, FALSE, None),
      Given("submit_renovation", coLiving, None, TRUE, other),
      Given("delete_room", coLiving, None, FALSE, None),
      Given("delete_room", coLiving, 1, FALSE, None),
      Given("clone", coLiving, 1, FALSE, other),
      Given("clone", coLiving, None, FALSE, None),
      Given("rename", coLiving, 1, FALSE, other),
      Given("rename", coLiving, 1, FALSE, base),
      Given("rename", coLiving, 3, FALSE, base),
      Given("deal_score", fixFlip, 2, FALSE, None),
      Given("delete_version", coLiving, 1, FALSE, None),
      [Given("rename", coLiving, 1, FALSE, base) EXCEPT !.complete = FALSE] }

=============================================================================

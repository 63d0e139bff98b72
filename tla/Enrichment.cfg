SPECIFICATION EnrichmentFairSpec
CONSTANTS g1 = g1 g2 = g2 g3 = g3
          Runs = {g1, g2, g3}
          Providers = {"wayback"}
          AnswerValues = {"v1", "v2"}
          MaxSnapshots = 3
          Scenarios <- AllScenarios
PROPERTIES EnrichmentEnds ComparesWithPrevious AlertsOnlyOnChange

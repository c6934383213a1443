\* As Evaluation.cfg; a report does not need fairness.
CONSTANTS
    q1 = q1
    q2 = q2
    m1 = m1
    m2 = m2
    Chunks = {1, 2, 3}
    Memories = {m1, m2}
    Queries = {q1, q2}
    Type <- MCType
    Admitted <- MCAdmitted
    Similarity <- MCSimilarity
    Relevance <- MCRelevance
    Mentions <- MCMentions
    Deployments <- MCDeployments
    MaxRetries = 2
    Brackets <- MCBrackets
    Numbers = {0, 1, 3}
    Terms = {"lag"}
    Requests <- MCRequests
    Datasets <- MCDatasets
    Title <- MCTitle
    None = None
SPECIFICATION Spec
INVARIANT RecallMeasuresRetrieval

SPECIFICATION ContextSpec
CONSTANTS
    Backends = {"sqlite", "postgres", "mysql", "mssql", "oracle", "informix"}
    Conditions <- MCConditions
    ColumnTerms <- MCColumnTerms
    Subqueries <- MCSubqueries
    Pages = {0, 3}
    Updates <- MCUpdates
    Arguments <- MCArguments
    Budget = 7
    Odd = {}
    CallBackends = {"sqlite", "postgres", "mysql", "mssql", "oracle", "informix"}
    Declarations <- MCDeclarations
    Values = {"1", "2"}
    Ids = {"1", "2", "3"}
    ChunkSizes = {0}
    MaxCalls = 3
    Overlooked = {}
INVARIANTS TypeOK StatementMeansQuery CallTypeOK CommandMeansEntities InsertAnswersItsRow
CHECK_DEADLOCK FALSE

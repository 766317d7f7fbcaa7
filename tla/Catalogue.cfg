SPECIFICATION MCSpec
CONSTANTS
    Rows = {1, 2, 3, 4}
    Tables = {"city", "monument"}
    TableOf <- MCTableOf
    Asked = {1, 3}
    MaxLimit = 2
    MaxClock = 2
    NameRank <- MCNameRank
    MaxSuggestions = 2
    Order <- MCOrder
    Favorites <- MCFavorites
    Picks <- MCPicks
    None = None
VIEW Relevant
INVARIANTS NoRepeats NoSkips NoEmptyPage
    AnswersWerePublished SuggestionsMissOnlyCutRows StubFindsSomething

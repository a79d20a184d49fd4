SPECIFICATION Spec
CONSTANTS
    Humans <- Alice
    Channels <- TwoRooms
    General = "#general"
    Home = "#bot"
    Targets <- EveryTarget
    Texts <- Chat
    MaxMessages = 3
    MaxMoves = 1
INVARIANTS
    AnswersFollowQuestions
PROPERTIES
    ListsStayClose
    EveryCommandAnswered
CHECK_DEADLOCK FALSE

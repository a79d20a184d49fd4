SPECIFICATION BoundedTold
CONSTANTS
    Fd <- ThreeFds
    Topic = {}
    NoTopic = NoTopic
    Key = {}
    NoKey = NoKey
    Limit = {}
    Nick = {alice, bob, ircbot}
    NoNick = NoNick
    Bot = ircbot
    VariantOf = {}
    ChannelName = {general}
    General = general
SYMMETRY HumanNicks
INVARIANTS
    ViewsTrue
    NoDuplicates
    RanksAreMembers
    HalfOperatorsHaveOperator
    AtMostTwoOperators
PROPERTIES
    OperatorLossNeedsNoHeir
    OperatorGain
    SeniorityKept

SPECIFICATION Spec
CONSTANTS
    Timeout = 1
    Subprotocols <- SomeSubprotocols
    Picks <- SomePicks
    Words <- SomeWords
    Cases <- SomeCases
    Answers <- SomeAnswers
INVARIANTS
    RoutedOnce
    HopsStay
    UriWhole
    InTime
    OfferForwarded
    SwitchAgreed
PROPERTIES
    Ends
    SocketReleased

SPECIFICATION FairChainSpec
INVARIANTS NotFoundIsGenuine StatusHasItsCause
PROPERTIES GatewayAnswers ProviderEnds

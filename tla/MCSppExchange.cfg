SPECIFICATION Exchange
CONSTANT Command = {"battery", "ports", "write"}
CONSTANT None = None
CONSTANT Links = {l1, l2}
CONSTANT Cuts = {1, 8}
CONSTANT Counters = 2
CONSTANT KindOf <- MCKindOf
INVARIANT NobodyForgotten
INVARIANT AnswersAreOwn
INVARIANT PromisesMatch
PROPERTY ImplementsLine
PROPERTY EverySendSettles

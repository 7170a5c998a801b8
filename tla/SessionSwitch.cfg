SPECIFICATION Spec
CONSTANT MaxSessions = 2
INVARIANTS StateOfOneSession FinalizesWhatIsAsked DealsAreRecorded

SPECIFICATION Spec
CONSTANT MaxSessions = 2
PROPERTY SecretsKeptUntilFinal

------------------------------ MODULE MCLifecycle -----------------------------
EXTENDS Lifecycle

MCRoles == {"buyer", "seller"}
MCProcesses == MCRoles \X (1..2)
MCFromBefore == (MCRoles \X {"evidence", "private-state"}) \ {<<"buyer", "evidence">>}
MCRoleOf == [p \in MCProcesses |-> p[1]]
=============================================================================

--------------------------- MODULE MCDaemonViews ---------------------------
(* Small instances of DaemonViews. *)
EXTENDS DaemonViews

\* A client that has no use for these two: of the events it is shown, only those of
\* the operations that publish them leave a gap in the ids.
mcWants == [c \in Clients |-> Topics \ {"backup.created", "integrations.changed"}]
=============================================================================

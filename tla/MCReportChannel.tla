--------------------------- MODULE MCReportChannel ---------------------------
(* TLC instances of ReportChannel: what one execution reports. *)
EXTENDS ReportChannel

\* DROPPABLE_TYPES (connection.ts:64)
DroppableOrder == <<"run-event", "run-artifact">>

\* A console line, a patch, an artifact and the completion.
MixedScript == <<"run-event", "run-patch", "run-artifact", "run-complete">>

\* The shortest stream with a frame to lose.
ShortScript == <<"run-event", "run-patch", "run-complete">>

\* A patch the cap must keep, below console lines it may drop.
PatchFirstScript == <<"run-patch", "run-event", "run-event", "run-complete">>

=============================================================================

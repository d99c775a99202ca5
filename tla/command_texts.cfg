INIT MCInit
NEXT MCNext
INVARIANTS
    PlansAreSound
    RewritingsAreSound
    GuardsAreSteady
\* A text of the greatest length is not continued.
CHECK_DEADLOCK FALSE

------------------------------- MODULE MCXhci -------------------------------
EXTENDS Xhci

EndpointsDef == [p \in Ports |-> <<1, 2, 0>>[p]]
=============================================================================

--------------------------- MODULE MCAutomounter ---------------------------
EXTENDS Automounter
MCOptions ==
    {[enabled |-> TRUE,  login |-> TRUE,  attach |-> FALSE, unknown |-> FALSE],
     [enabled |-> FALSE, login |-> FALSE, attach |-> TRUE,  unknown |-> TRUE]}
=============================================================================

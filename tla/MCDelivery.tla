----------------------------- MODULE MCDelivery ------------------------------
EXTENDS Delivery

\* Hooks around the router, and composites whose members are observed, edited
\* or routed.
SmallStacks ==
    {<<"after", "before", "route">>, <<"composite", "observe">>,
     <<"composite", "before">>, <<"composite", "route">>}
==============================================================================

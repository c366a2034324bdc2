--------------------------- MODULE MCEndpointSync ---------------------------
\* Instances of EndpointSync: an old and a new container of one service, on one
\* managed network or on two, with a name in lower case or not.
EXTENDS EndpointSync, TLC

Redeployed == [c \in ContainerIds |-> <<"web">>]
Capitalised == [c \in ContainerIds |-> <<"Web">>]
LowerCase == ("web" :> "web") @@ ("Web" :> "web") @@ [n \in Namespaces |-> n]
OneNetwork == {{"prod"}}
TwoNetworks == {{"prod", "stage"}}
=============================================================================

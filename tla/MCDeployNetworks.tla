-------------------------- MODULE MCDeployNetworks --------------------------
(* A small instance of DeployNetworks for TLC: two networks that share a node,  *)
(* one with another, and one without a key.                                     *)
EXTENDS DeployNetworks

CONSTANTS p1, p2

Net(isProd, key, id) == [isProduction |-> isProd, hasKey |-> key, id |-> id]

MCnetworks ==
    [n \in {"kovan", "testrpc", "testmain", "rinkeby"} |->
        CASE n = "kovan"    -> Net(FALSE, TRUE, "42")
          [] n = "testrpc"  -> Net(TRUE, TRUE, "local")
          [] n = "testmain" -> Net(TRUE, TRUE, "local")
          [] n = "rinkeby"  -> Net(FALSE, FALSE, "4")]

MCRequests == {<<"kovan", "testrpc">>, <<"testmain">>, <<"kovan", "rinkeby">>,
               <<"kovan", "nowhere">>}

Env(genesis, token, production) ==
    [createGenesisUniverse |-> genesis, tokenGiven |-> token, production |-> production]

MCEnvironments == {Env(TRUE, FALSE, "unset"), Env(TRUE, TRUE, "unset"),
                   Env(TRUE, FALSE, "false"), Env(FALSE, FALSE, "unset")}

=============================================================================

------------------------------ MODULE MCDashboard -------------------------------
(* One tab and a daemon whose peers, configurations and tasks change, for TLC. *)
EXTENDS Dashboard

Peer(d, ok) == [device |-> d, connected |-> ok, latency |-> IF ok THEN 1 ELSE None]
Config(id, s) == [id |-> id, score |-> s, parts |-> [kind \in {"privacy", "cost"} |-> 50 * s]]
Chain(t, ats) ==
    [task |-> t,
     receipts |-> [i \in DOMAIN ats |->
                      [at |-> ats[i], status |-> IF ats[i] = 2 THEN "error" ELSE "ok"]]]

SmallKnown == [ep \in Endpoints |->
    CASE ep = "peers" ->
            {<<>>,
             <<Peer("b", TRUE), Peer("a", FALSE)>>,
             <<Peer("a", TRUE), Peer("b", TRUE), Peer("c", FALSE), Peer("d", TRUE)>>}
      [] ep = "inference" ->
            {<<>>, <<Config("p", 1), Config("q", 3), Config("r", 2), Config("s", 3)>>}
      [] ep = "tasks" ->
            {<<>>,
             <<Chain("t", <<1, 4>>), Chain("u", <<>>), Chain("v", <<2>>), Chain("w", <<3>>)>>}]

NothingYet == [ep \in Endpoints |-> <<>>]
================================================================================

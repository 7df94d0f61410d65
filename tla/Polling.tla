-------------------------------- MODULE Polling --------------------------------
(* The useAPI hooks of a page (hooks/useAPI.js): every endpoint the page shows *)
(* is fetched at once and then at every tick, without waiting for the answers  *)
(* to earlier requests, so answers may overtake one another.                   *)
EXTENDS NodeApi

CONSTANTS
    Known,          \* what the daemon may know, for each endpoint
    AtBoot,         \* what it knows when it starts
    MaxCalls,       \* bound: requests under way for one endpoint
    MaxChanges,     \* bound: changes of what the daemon knows
    MaxCrashes      \* bound: crashes of the daemon

ASSUME PollingAssumption ==
    /\ AtBoot = [ep \in Endpoints |-> AtBoot[ep]]
    /\ \A ep \in Endpoints : AtBoot[ep] \in Known[ep]
    /\ MaxCalls \in Nat \ {0}
    /\ MaxChanges \in Nat
    /\ MaxCrashes \in Nat

(* Connections and configurations are lists; the chains are a dict by task,    *)
(* each a list of receipts.  Scores and times are numbers.                     *)
IsList(k) == k \in Seq({k[i] : i \in DOMAIN k})

ASSUME KnownAssumption ==
    /\ \A k \in Known["peers"] :
          IsList(k) /\ \A i \in DOMAIN k : k[i].connected \in BOOLEAN
    /\ \A k \in Known["inference"] :
          IsList(k) /\ \A i \in DOMAIN k : k[i].score \in Int
    /\ \A k \in Known["tasks"] :
          /\ IsList(k)
          /\ \A i \in DOMAIN k :
                /\ IsList(k[i].receipts)
                /\ \A r \in DOMAIN k[i].receipts : k[i].receipts[r].at \in Int
          /\ \A i, j \in DOMAIN k : k[i].task = k[j].task => i = j

VARIABLES
    up,         \* whether the daemon runs
    known,      \* what it knows
    changes, crashes,
    data,       \* what each hook has, or None
    calls       \* its requests under way, in the order they were made

nodeVars == <<up, known, changes, crashes>>

Bodies(ep) == {Answer(ep, k) : k \in Known[ep]}

(* asked: not answered yet; answered: the body is on its way; lost: the        *)
(* connection was refused or reset.                                            *)
Calls(ep) == [stage : {"asked", "lost"}, body : {None}]
                 \cup [stage : {"answered"}, body : Bodies(ep)]

Now(ep) == Answer(ep, known[ep])

NewCall == [stage |-> IF up THEN "asked" ELSE "lost", body |-> None]

(* A broken variant: at the mount only. *)
FetchOnce(ep) ==
    /\ data[ep] = None /\ calls[ep] = <<>>
    /\ calls' = [calls EXCEPT ![ep] = <<NewCall>>]
    /\ UNCHANGED <<nodeVars, data>>

(* fetchData, at the mount and at every tick of setInterval. *)
Fetch(ep) ==
    /\ Len(calls[ep]) < MaxCalls
    /\ calls' = [calls EXCEPT ![ep] = Append(@, NewCall)]
    /\ UNCHANGED <<nodeVars, data>>

Served(ep, i) ==
    /\ up
    /\ i \in DOMAIN calls[ep]
    /\ calls[ep][i].stage = "asked"
    /\ calls' = [calls EXCEPT ![ep][i] = [stage |-> "answered", body |-> Now(ep)]]
    /\ UNCHANGED <<nodeVars, data>>

(* setData(body): nothing cancels an answer but the end of the page. *)
Arrives(ep, i) ==
    /\ i \in DOMAIN calls[ep]
    /\ calls[ep][i].stage = "answered"
    /\ data' = [data EXCEPT ![ep] = calls[ep][i].body]
    /\ calls' = [calls EXCEPT ![ep] = RemoveAt(@, i)]
    /\ UNCHANGED nodeVars

(* setError: what was shown stays. *)
Fails(ep, i) ==
    /\ i \in DOMAIN calls[ep]
    /\ ~up \/ calls[ep][i].stage = "lost"
    /\ calls' = [calls EXCEPT ![ep] = RemoveAt(@, i)]
    /\ UNCHANGED <<nodeVars, data>>

Change(ep) ==
    /\ up
    /\ changes < MaxChanges
    /\ changes' = changes + 1
    /\ \E k \in Known[ep] \ {known[ep]} : known' = [known EXCEPT ![ep] = k]
    /\ UNCHANGED <<up, crashes, data, calls>>

(* The connections break; an answer that was sent may still be read. *)
Reset(call) == IF call.stage = "asked" THEN [call EXCEPT !.stage = "lost"] ELSE call

Crash ==
    /\ up
    /\ crashes < MaxCrashes
    /\ up' = FALSE
    /\ crashes' = crashes + 1
    /\ calls' = [ep \in Endpoints |-> [i \in DOMAIN calls[ep] |-> Reset(calls[ep][i])]]
    /\ UNCHANGED <<known, changes, data>>

Boot ==
    /\ ~up
    /\ up' = TRUE
    /\ known' = AtBoot
    /\ UNCHANGED <<changes, crashes, data, calls>>
================================================================================

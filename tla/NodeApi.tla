-------------------------------- MODULE NodeApi --------------------------------
(* What the dashboard's endpoints answer (the handlers of api/server.py), as a *)
(* function of what the daemon knows: for peers, its connections; for          *)
(* inference, the configurations of its registry; for tasks, its receipt       *)
(* chains.  The endpoints that pass a record on as it is are left out.         *)
EXTENDS Integers, Sequences, FiniteSets, SequencesExt

CONSTANTS
    None,       \* null
    TaskLimit   \* how many tasks /api/tasks answers with (20)

ASSUME ApiAssumption == TaskLimit \in Nat

Endpoints == {"peers", "inference", "tasks"}

(* sort(key=..., reverse=True), for the keys of the items: the largest first,  *)
(* equal ones in their order.  An item's place is found by counting what comes *)
(* before it; the list may have gaps, where the loop that fills it skipped.    *)
Before(keys, j, i) == keys[j] > keys[i] \/ (keys[j] = keys[i] /\ j < i)

PlaceOf(keys, i) == 1 + Cardinality({j \in DOMAIN keys : Before(keys, j, i)})

Sorted(list, keys) ==
    [p \in 1..Cardinality(DOMAIN list) |->
        list[CHOOSE i \in DOMAIN list : PlaceOf(keys, i) = p]]

FirstOf(n, list) == SubSeq(list, 1, IF Len(list) < n THEN Len(list) ELSE n)

Score(config) == config.score
Scores(configs) == [i \in DOMAIN configs |-> Score(configs[i])]
CompletedAt(tasks) == [i \in DOMAIN tasks |-> tasks[i].at]

(* A connection that broke stays in the table until it is removed there. *)
PeersAnswer(connections) == connections

(* A broken variant: in the order of the registry. *)
InferenceUnsorted(configs) == [configurations |-> configs, active |-> None]

(* active_inference asks _inference_coordinator, which the node sets to None   *)
(* and never to a coordinator.                                                 *)
InferenceAnswer(configs) ==
    [configurations |-> Sorted(configs, Scores(configs)), active |-> None]

(* A task is shown by its last receipt; a chain without one is skipped. *)
LastReceipt(chain) ==
    [task |-> chain.task, at |-> Last(chain.receipts).at, status |-> Last(chain.receipts).status]

Receipted(chains) == {i \in DOMAIN chains : chains[i].receipts # <<>>}

(* The tasks, each still at the position of its chain. *)
TaskList(chains) == [i \in Receipted(chains) |-> LastReceipt(chains[i])]

(* A broken variant: cut, then sorted. *)
TasksCutFirst(chains) ==
    LET all == TaskList(chains)
        cut == {i \in DOMAIN all : Cardinality({j \in DOMAIN all : j =< i}) =< TaskLimit}
    IN  Sorted([i \in cut |-> all[i]], [i \in cut |-> all[i].at])

TasksAnswer(chains) ==
    LET all == TaskList(chains) IN FirstOf(TaskLimit, Sorted(all, CompletedAt(all)))

Answer(ep, known) ==
    CASE ep = "peers"     -> PeersAnswer(known)
      [] ep = "inference" -> InferenceAnswer(known)
      [] ep = "tasks"     -> TasksAnswer(known)
================================================================================

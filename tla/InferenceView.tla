----------------------------- MODULE InferenceView -----------------------------
(* The Inference page (pages/Inference.jsx) for the last answers of its two    *)
(* endpoints.  Names, numbers of devices and wording are passed on or left out,*)
(* and so is the active session, of which no answer ever tells.                *)
EXTENDS Integers, Sequences, SequencesExt

CONSTANT ReceiptLimit   \* the limit in the header of the tasks (20)

ASSUME ReceiptAssumption == ReceiptLimit \in Nat

(* A row of the table: the first has the star. *)
ConfigsTable(configs) ==
    [empty  |-> configs = <<>>,
     header |-> Len(configs),
     rows   |-> [i \in DOMAIN configs |-> [config |-> configs[i], star |-> i = 1]]]

(* The bars of the three best, as they are ranked; width in percent. *)
Clamped(pct) == CASE pct < 0 -> 0 [] pct \in 0..100 -> pct [] pct > 100 -> 100

ScoreBar(value) == Clamped(value)

ConfigDetails(configs) ==
    [i \in 1..(IF Len(configs) < 3 THEN Len(configs) ELSE 3) |->
        [config |-> configs[i], bars |-> [kind \in DOMAIN configs[i].parts |->
                                             ScoreBar(configs[i].parts[kind])]]]

(* "Last N receipts" over the rows; a cross for a task that failed. *)
RecentTasks(tasks) ==
    [header |-> IF Len(tasks) < ReceiptLimit THEN Len(tasks) ELSE ReceiptLimit,
     rows   |-> [i \in DOMAIN tasks |->
                    [task |-> tasks[i].task, at |-> tasks[i].at,
                     mark |-> IF tasks[i].status = "error" THEN "cross" ELSE "check"]],
     empty  |-> tasks = <<>>]
================================================================================

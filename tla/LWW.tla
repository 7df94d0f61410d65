---------------------------------- MODULE LWW ----------------------------------
(* The last-writer-wins register of memory/store.py: its entries, the order    *)
(* that decides which of two entries survives, and what merging one into the   *)
(* other yields.  Constant-level only; MemorySync holds the replicas.          *)
EXTENDS Mesh

CONSTANTS
    Values,     \* what a register can hold, the None of a deletion included
    TTLs,       \* lifetimes an entry may have
    Forever,    \* ttl = None: the entry never expires
    NoEntry     \* the register holds nothing

Entry == [value : Values, ts : Nat, device : Devices, wall : Nat, ttl : TTLs]

ASSUME LWWAssumption ==
    /\ Forever \notin Nat
    /\ TTLs \subseteq Nat \cup {Forever}
    /\ NoEntry \notin Entry

(* Broken variant: nothing breaks a tie. *)
SupersedesByTime(e, f) == e.ts > f.ts

(* Lamport timestamp first, the larger DID on a tie. *)
Supersedes(e, f) == \/ e.ts > f.ts
                    \/ e.ts = f.ts /\ e.device > f.device

Expired(e, time) == e.ttl # Forever /\ time > e.wall + e.ttl

(* merge_entry and set replace the register's entry only by one that          *)
(* supersedes it.                                                              *)
Accepts(old, e) == old = NoEntry \/ Supersedes(e, old)

(* Broken variants: the last entry to arrive wins; a merge stamps the entry anew. *)
MergedLast(old, e) == e
MergedRestamped(old, e) == IF Accepts(old, e) THEN [e EXCEPT !.ts = @ + 1] ELSE old

Merged(old, e) == IF Accepts(old, e) THEN e ELSE old

(* A digest: equal exactly when the values are. *)
ContentHash(v) == <<"hash", v>>

(* What get_sync_state says of one register, and when compute_diff finds an    *)
(* entry worth sending to a peer that said it.                                 *)
Digest == [ts : Nat, hash : {ContentHash(v) : v \in Values}, device : Devices]

(* Broken variant: the value itself goes where its hash should. *)
DigestWithValue(e) == [ts |-> e.ts, hash |-> e.value, device |-> e.device]

DigestOf(e) == [ts |-> e.ts, hash |-> ContentHash(e.value), device |-> e.device]

(* Broken variant: equal timestamps are taken for equal entries. *)
WorthSendingNewer(e, digest) == digest = NoEntry \/ e.ts > digest.ts

WorthSending(e, digest) ==
    \/ digest = NoEntry
    \/ e.ts > digest.ts
    \/ e.ts = digest.ts /\ ContentHash(e.value) # digest.hash
================================================================================

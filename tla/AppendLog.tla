------------------------------- MODULE AppendLog -------------------------------
(* The append-only log of memory/store.py: a list of records, each stamped     *)
(* with the position it was appended at, the device that appended it and that  *)
(* device's wall clock.  Constant-level only.                                  *)
EXTENDS Naturals, Sequences, FiniteSets

LogRecord(Devs, Contents) ==
    [content : Contents, seq : Nat, device : Devs, ts : Nat]

(* A record is identified by the device that appended it and its position. *)
RecordId(r) == <<r.device, r.seq>>

Appended(log, content, dev, time) ==
    Append(log, [content |-> content, seq |-> Len(log), device |-> dev, ts |-> time])

(* Broken variant: records are not compared. *)
KeptAll(log, remote) == 1..Len(log \o remote)

(* merge: of log followed by remote, the positions that stay.  A remote record *)
(* is skipped when the log or an earlier remote record has its identity.       *)
Kept(log, remote) ==
    LET all == log \o remote
    IN  {i \in 1..Len(all) :
            \/ i <= Len(log)
            \/ \A j \in 1..(i - 1) : RecordId(all[j]) # RecordId(all[i])}

(* ... and their order: by timestamp, ties in list order (a stable sort). *)
SortedBefore(all, i, j) == \/ all[i].ts < all[j].ts
                           \/ all[i].ts = all[j].ts /\ i < j

SortRank(all, kept, i) == Cardinality({j \in kept : SortedBefore(all, j, i)}) + 1

(* Broken variant: the remote list replaces the local one. *)
LogReplaced(log, remote) == remote

LogMerged(log, remote) ==
    LET all  == log \o remote
        kept == Kept(log, remote)
    IN  [p \in 1..Cardinality(kept) |->
            all[CHOOSE i \in kept : SortRank(all, kept, i) = p]]

(* Broken variant: off by one. *)
SinceAfter(log, index) == SubSeq(log, index + 2, Len(log))

Since(log, index) == SubSeq(log, index + 1, Len(log))
================================================================================

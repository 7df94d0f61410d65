-------------------------------- MODULE Pairing --------------------------------
(* How a device joins a household: an invitation code (start_pairing,          *)
(* accept_pairing_request of identity/household.py, the handler of             *)
(* PAIRING_REQUEST in node.py) and the new device's call of                    *)
(* pair_with_invitation, which asks whom it discovers, of any household, one   *)
(* after the other.  Only the daemon writes household.json here: agents, and   *)
(* the commands that rewrite the file beside a daemon, are left out.           *)
EXTENDS Naturals, FiniteSets

CONSTANTS
    Members,    \* devices with a household.json, each of a household it may have founded
    Founders,   \* those whose process has founded it, and so holds the root key
    Joiners,    \* calls of pair_with_invitation, each with a new device key and DID
    NoOffer,    \* None
    MaxOffers,  \* bound: invitations
    MaxCrashes  \* bound: deaths of members

ASSUME PairingAssumption ==
    /\ Founders \subseteq Members
    /\ MaxOffers \in Nat
    /\ MaxCrashes \in Nat

VARIABLES
    up,         \* the members whose daemon runs
    root,       \* those whose process has _user_root_key
    offer,      \* _pending_offer
    devices,    \* Household.devices in memory, of those that joined
    manifest,   \* the same in household.json
    torn,       \* the members whose household.json does not parse
    issued,     \* invitations so far; a code is the number of its invitation
    crashes,
    stage,      \* where each call of pair_with_invitation stands
    code,       \* the code it was given
    asked,      \* the members it has taken from peers_found
    future,     \* accept_future
    requests,   \* members that have its PAIRING_REQUEST yet to read
    accepts,    \* members whose PAIRING_ACCEPT it has yet to read
    admitted    \* history: which invitation admitted whom, and where

memberVars == <<up, root, offer, devices, manifest, torn, issued, crashes, admitted>>
joinerVars == <<stage, code, asked, future>>
vars == <<memberVars, joinerVars, requests, accepts>>

Codes == 1..MaxOffers

(* looking: awaits peers_found; waiting: awaits accept_future. *)
Stages == {"idle", "looking", "waiting", "joined", "failed"}

Running(j) == stage[j] \in {"looking", "waiting"}

--------------------------------------------------------------------------------
(* The inviter. *)

(* start_pairing, in the daemon's process. *)
StartPairing(m) ==
    /\ m \in up
    /\ issued < MaxOffers
    /\ issued' = issued + 1
    /\ offer' = [offer EXCEPT ![m] = [code |-> issued + 1, expired |-> FALSE]]
    /\ UNCHANGED <<up, root, devices, manifest, torn, crashes, admitted, joinerVars,
                   requests, accepts>>

(* aries pair --invite: the offer is made in the command's process and ends    *)
(* with it; the daemon knows nothing of it.                                    *)
PairInvite ==
    /\ issued < MaxOffers
    /\ issued' = issued + 1
    /\ UNCHANGED <<up, root, offer, devices, manifest, torn, crashes, admitted, joinerVars,
                   requests, accepts>>

OfferExpires(m) ==
    /\ offer[m] # NoOffer
    /\ ~offer[m].expired
    /\ offer' = [offer EXCEPT ![m].expired = TRUE]
    /\ UNCHANGED <<up, root, devices, manifest, torn, issued, crashes, admitted, joinerVars,
                   requests, accepts>>

Takes(m, j) ==
    /\ m \in up
    /\ m \in requests[j]
    /\ requests' = [requests EXCEPT ![j] = @ \ {m}]

Acceptable(m, j) ==
    /\ offer[m] # NoOffer
    /\ ~offer[m].expired
    /\ offer[m].code = code[j]
    /\ m \in root

(* The device is recorded, the offer used up and household.json written before *)
(* the answer is sent.  Broken variants: the offer stays; it is not written.   *)
OfferKept(m) == offer
OfferUsedUp(m) == [offer EXCEPT ![m] = NoOffer]

NotSaved(m, recorded) == manifest
Saved(m, recorded) == [manifest EXCEPT ![m] = recorded]

AcceptRequest(m, j) ==
    /\ Takes(m, j)
    /\ Acceptable(m, j)
    /\ devices' = [devices EXCEPT ![m] = @ \cup {j}]
    /\ offer' = OfferUsedUp(m)
    /\ manifest' = Saved(m, devices'[m])
    /\ admitted' = admitted \cup {[code |-> code[j], joiner |-> j, by |-> m]}
    /\ accepts' = [accepts EXCEPT ![j] = IF Running(j) THEN @ \cup {m} ELSE @]
    /\ UNCHANGED <<up, root, torn, issued, crashes, joinerVars>>

(* ERROR, which a joiner has no handler for; an expired offer is dropped. *)
RefuseRequest(m, j) ==
    /\ Takes(m, j)
    /\ ~Acceptable(m, j)
    /\ offer' = IF offer[m] # NoOffer /\ offer[m].expired
                THEN [offer EXCEPT ![m] = NoOffer] ELSE offer
    /\ UNCHANGED <<up, root, devices, manifest, torn, issued, crashes, admitted, joinerVars,
                   accepts>>

--------------------------------------------------------------------------------
(* Crashes: memory is lost, and with it the offer and the root key, which load *)
(* does not bring back.                                                        *)

Dies(m) ==
    /\ m \in up
    /\ crashes < MaxCrashes
    /\ crashes' = crashes + 1
    /\ up' = up \ {m}
    /\ root' = root \ {m}
    /\ offer' = [offer EXCEPT ![m] = NoOffer]
    /\ devices' = [devices EXCEPT ![m] = {}]
    /\ requests' = [j \in Joiners |-> requests[j] \ {m}]
    /\ UNCHANGED <<issued, joinerVars, accepts>>

Crash(m) == Dies(m) /\ UNCHANGED <<manifest, torn, admitted>>

(* In the middle of _save, which empties the file before it fills it. *)
CrashInSave(m, j) ==
    /\ m \in up
    /\ m \in requests[j]
    /\ Acceptable(m, j)
    /\ Dies(m)
    /\ torn' = torn \cup {m}
    /\ admitted' = admitted \cup {[code |-> code[j], joiner |-> j, by |-> m]}
    /\ UNCHANGED manifest

(* start() and load(); the member may be discovered again. *)
Boot(m) ==
    /\ m \notin up
    /\ m \notin torn
    /\ up' = up \cup {m}
    /\ devices' = [devices EXCEPT ![m] = manifest[m]]
    /\ asked' = [j \in Joiners |-> asked[j] \ {m}]
    /\ UNCHANGED <<root, offer, manifest, torn, issued, crashes, admitted, stage, code,
                   future, requests, accepts>>

--------------------------------------------------------------------------------
(* The joiner. *)

Begin(j, c) ==
    /\ stage[j] = "idle"
    /\ c =< issued
    /\ stage' = [stage EXCEPT ![j] = "looking"]
    /\ code' = [code EXCEPT ![j] = c]
    /\ UNCHANGED <<memberVars, asked, future, requests, accepts>>

(* wait_for on the one future of the call: it waits, returns what is already   *)
(* there, or, when an earlier wait has timed out and so cancelled the future,  *)
(* ends the call.                                                              *)
Awaited(j) ==
    IF future[j] = "pending" THEN "waiting"
    ELSE IF future[j] = "set" THEN "joined" ELSE "failed"

(* Connects to a member just discovered and sends the request. *)
Ask(j, m) ==
    /\ stage[j] = "looking"
    /\ m \in up \ asked[j]
    /\ asked' = [asked EXCEPT ![j] = @ \cup {m}]
    /\ requests' = [requests EXCEPT ![j] = @ \cup {m}]
    /\ stage' = [stage EXCEPT ![j] = Awaited(j)]
    /\ accepts' = [accepts EXCEPT ![j] = IF Awaited(j) = "waiting" THEN @ ELSE {}]
    /\ UNCHANGED <<memberVars, code, future>>

AskFails(j, m) ==
    /\ stage[j] = "looking"
    /\ m \in Members \ asked[j]
    /\ asked' = [asked EXCEPT ![j] = @ \cup {m}]
    /\ UNCHANGED <<memberVars, stage, code, future, requests, accepts>>

(* _on_accept. *)
OnAccept(j, m) ==
    /\ m \in accepts[j]
    /\ accepts' = [accepts EXCEPT ![j] = @ \ {m}]
    /\ future' = [future EXCEPT ![j] = IF @ = "pending" THEN "set" ELSE @]
    /\ UNCHANGED <<memberVars, stage, code, asked, requests>>

(* A connection breaks. *)
Lost(j, m) ==
    /\ m \in requests[j] \cup accepts[j]
    /\ requests' = [requests EXCEPT ![j] = @ \ {m}]
    /\ accepts' = [accepts EXCEPT ![j] = @ \ {m}]
    /\ UNCHANGED <<memberVars, joinerVars>>

(* Ten seconds; in the moment between set_result and the resumption, too.      *)
(* Broken variant: the call goes on waiting for the future it has cancelled.   *)
WaitsOn(j) ==
    /\ stage[j] = "waiting"
    /\ future' = [future EXCEPT ![j] = IF @ = "pending" THEN "cancelled" ELSE @]
    /\ UNCHANGED <<memberVars, stage, code, asked, requests, accepts>>

TimesOut(j) ==
    /\ stage[j] = "waiting"
    /\ stage' = [stage EXCEPT ![j] = "looking"]
    /\ future' = [future EXCEPT ![j] = IF @ = "pending" THEN "cancelled" ELSE @]
    /\ UNCHANGED <<memberVars, code, asked, requests, accepts>>

Ends(j, how) ==
    /\ stage' = [stage EXCEPT ![j] = how]
    /\ accepts' = [accepts EXCEPT ![j] = {}]
    /\ UNCHANGED <<memberVars, code, asked, future, requests>>

(* complete_joining. *)
Joins(j) ==
    /\ stage[j] = "waiting"
    /\ future[j] = "set"
    /\ Ends(j, "joined")

(* The deadline of thirty seconds, or the user's Ctrl-C. *)
GivesUp(j) ==
    /\ stage[j] = "looking"
    /\ Ends(j, "failed")

--------------------------------------------------------------------------------
Init ==
    /\ up = Members
    /\ root = Founders
    /\ offer = [m \in Members |-> NoOffer]
    /\ devices = [m \in Members |-> {}]
    /\ manifest = [m \in Members |-> {}]
    /\ torn = {}
    /\ issued = 0
    /\ crashes = 0
    /\ stage = [j \in Joiners |-> "idle"]
    /\ code = [j \in Joiners |-> 0]
    /\ asked = [j \in Joiners |-> {}]
    /\ future = [j \in Joiners |-> "pending"]
    /\ requests = [j \in Joiners |-> {}]
    /\ accepts = [j \in Joiners |-> {}]
    /\ admitted = {}

Inviter(m) ==
    \/ StartPairing(m) \/ OfferExpires(m) \/ Crash(m) \/ Boot(m)
    \/ \E j \in Joiners : AcceptRequest(m, j) \/ RefuseRequest(m, j) \/ CrashInSave(m, j)

Joiner(j) ==
    \/ \E c \in Codes : Begin(j, c)
    \/ \E m \in Members : Ask(j, m) \/ AskFails(j, m) \/ OnAccept(j, m) \/ Lost(j, m)
    \/ TimesOut(j) \/ Joins(j) \/ GivesUp(j)

Next ==
    \/ PairInvite
    \/ \E m \in Members : Inviter(m)
    \/ \E j \in Joiners : Joiner(j)

(* The two timeouts of a call. *)
Fairness == \A j \in Joiners : WF_vars(TimesOut(j)) /\ WF_vars(GivesUp(j))

Spec == Init /\ [][Next]_vars /\ Fairness

--------------------------------------------------------------------------------
(* TypeOK: the shape of the state. *)
Offer == [code : Codes, expired : BOOLEAN]

TypeOK ==
    /\ up \subseteq Members
    /\ root \subseteq Members
    /\ offer \in [Members -> Offer \cup {NoOffer}]
    /\ devices \in [Members -> SUBSET Joiners]
    /\ manifest \in [Members -> SUBSET Joiners]
    /\ torn \subseteq Members
    /\ issued \in 0..MaxOffers
    /\ crashes \in 0..MaxCrashes
    /\ stage \in [Joiners -> Stages]
    /\ code \in [Joiners -> 0..MaxOffers]
    /\ asked \in [Joiners -> SUBSET Members]
    /\ future \in [Joiners -> {"pending", "set", "cancelled"}]
    /\ requests \in [Joiners -> SUBSET Members]
    /\ accepts \in [Joiners -> SUBSET Members]
    /\ admitted \subseteq [code : Codes, joiner : Joiners, by : Members]

(* OfferAdmitsOne: "a one-time code": however many devices present it, at once *)
(* or one after the other, before or after a crash of the inviter, a code      *)
(* admits one device at most.                                                  *)
OfferAdmitsOne == \A x, y \in admitted : x.code = y.code => x = y

(* MembershipsAgree: a device that believes it has joined was admitted by the  *)
(* code it was given; and a household.json that can be read lists the devices  *)
(* that were admitted there and no others, whatever crashed since.             *)
AdmittedAt(m) == {x \in admitted : x.by = m}

MembershipsAgree ==
    /\ \A j \in Joiners : stage[j] = "joined" =>
          \E x \in admitted : x.joiner = j /\ x.code = code[j]
    /\ \A m \in Members \ torn :
          manifest[m] = {x.joiner : x \in AdmittedAt(m)}

(* PairingEnds: a call of pair_with_invitation ends, whoever answers, refuses, *)
(* dies or is silent.                                                          *)
PairingEnds == \A j \in Joiners : Running(j) ~> ~Running(j)
================================================================================

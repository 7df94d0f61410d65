----------------------------- MODULE Pairing_proofs -----------------------------
(* For any number of members, joining devices, invitations and crashes: an     *)
(* invitation admits one device at most, and what the devices believe agrees   *)
(* with what the inviters have on disk.                                        *)
EXTENDS Pairing, TLAPS

--------------------------------------------------------------------------------
(* The inductive invariant. *)

OpenCode(m, c) == offer[m] # NoOffer /\ offer[m].code = c

(* A code is open at one member or used up, and never given out again: what    *)
(* has admitted somebody is open nowhere.                                      *)
CodesGivenOnce ==
    /\ \A m \in Members : offer[m] # NoOffer => offer[m].code =< issued
    /\ \A m, n \in Members, c \in Codes : OpenCode(m, c) /\ OpenCode(n, c) => m = n
    /\ \A x \in admitted : x.code =< issued
    /\ \A x \in admitted, m \in Members : ~OpenCode(m, x.code)

(* An answer under way, or taken, comes from an admission; a call that has not *)
(* begun has none, so that its code may still be chosen.                       *)
Admitted(j) == \E x \in admitted : x.joiner = j /\ x.code = code[j]

AnswersAdmitted ==
    /\ \A j \in Joiners : stage[j] = "idle" =>
          requests[j] = {} /\ accepts[j] = {} /\ future[j] # "set"
    /\ \A j \in Joiners : accepts[j] # {} => Admitted(j)
    /\ \A j \in Joiners : future[j] = "set" => Admitted(j)
    /\ \A j \in Joiners : stage[j] = "joined" => Admitted(j)

(* A running daemon has in memory what is on disk, and that is what it has     *)
(* admitted.                                                                   *)
JoinersAt(m) == {x.joiner : x \in AdmittedAt(m)}

FilesComplete ==
    /\ up \cap torn = {}
    /\ \A m \in up : devices[m] = manifest[m]
    /\ \A m \in Members \ torn : manifest[m] = JoinersAt(m)

PairInv ==
    /\ TypeOK
    /\ CodesGivenOnce
    /\ OfferAdmitsOne
    /\ AnswersAdmitted
    /\ FilesComplete

--------------------------------------------------------------------------------
(* The shape of the state. *)

LEMMA StartType == Init => TypeOK
BY PairingAssumption DEF Init, TypeOK, Stages

LEMMA InviterType ==
    ASSUME TypeOK, NEW m \in Members, Inviter(m)
    PROVE  TypeOK'
<1> USE PairingAssumption DEF TypeOK, Offer, Codes, memberVars, joinerVars
<1>1. CASE StartPairing(m)
  <2>1. [code |-> issued + 1, expired |-> FALSE] \in Offer
    BY <1>1 DEF StartPairing
  <2>2. QED
    BY <1>1, <2>1 DEF StartPairing
<1>2. CASE OfferExpires(m)
  BY <1>2 DEF OfferExpires
<1>3. CASE Crash(m)
  BY <1>3 DEF Crash, Dies
<1>4. CASE Boot(m)
  BY <1>4 DEF Boot
<1>5. ASSUME NEW j \in Joiners, AcceptRequest(m, j) PROVE TypeOK'
  <2>1. [code |-> code[j], joiner |-> j, by |-> m]
          \in [code : Codes, joiner : Joiners, by : Members]
    BY <1>5 DEF AcceptRequest, Acceptable
  <2>2. devices' \in [Members -> SUBSET Joiners] /\ manifest' \in [Members -> SUBSET Joiners]
    BY <1>5 DEF AcceptRequest, Saved
  <2>3. QED
    BY <1>5, <2>1, <2>2 DEF AcceptRequest, Takes, OfferUsedUp
<1>6. ASSUME NEW j \in Joiners, RefuseRequest(m, j) PROVE TypeOK'
  BY <1>6 DEF RefuseRequest, Takes
<1>7. ASSUME NEW j \in Joiners, CrashInSave(m, j) PROVE TypeOK'
  <2>1. [code |-> code[j], joiner |-> j, by |-> m]
          \in [code : Codes, joiner : Joiners, by : Members]
    BY <1>7 DEF CrashInSave, Acceptable
  <2>2. QED
    BY <1>7, <2>1 DEF CrashInSave, Dies
<1>8. QED
  BY <1>1, <1>2, <1>3, <1>4, <1>5, <1>6, <1>7 DEF Inviter

LEMMA JoinerType ==
    ASSUME TypeOK, NEW j \in Joiners, Joiner(j)
    PROVE  TypeOK'
<1> USE PairingAssumption DEF TypeOK, Codes, memberVars, joinerVars, Stages
<1>1. ASSUME NEW c \in Codes, Begin(j, c) PROVE TypeOK'
  BY <1>1 DEF Begin
<1>2. ASSUME NEW m \in Members, Ask(j, m) PROVE TypeOK'
  BY <1>2 DEF Ask, Awaited
<1>3. ASSUME NEW m \in Members, AskFails(j, m) PROVE TypeOK'
  BY <1>3 DEF AskFails
<1>4. ASSUME NEW m \in Members, OnAccept(j, m) PROVE TypeOK'
  BY <1>4 DEF OnAccept
<1>5. ASSUME NEW m \in Members, Lost(j, m) PROVE TypeOK'
  BY <1>5 DEF Lost
<1>6. CASE TimesOut(j)
  BY <1>6 DEF TimesOut
<1>7. CASE Joins(j)
  BY <1>7 DEF Joins, Ends
<1>8. CASE GivesUp(j)
  BY <1>8 DEF GivesUp, Ends
<1>9. QED
  BY <1>1, <1>2, <1>3, <1>4, <1>5, <1>6, <1>7, <1>8 DEF Joiner

LEMMA TypeNext ==
    ASSUME TypeOK, [Next]_vars
    PROVE  TypeOK'
<1>1. CASE UNCHANGED vars
  BY <1>1 DEF TypeOK, vars, memberVars, joinerVars
<1>2. CASE PairInvite
  BY <1>2, PairingAssumption DEF TypeOK, PairInvite, joinerVars
<1>3. QED
  BY <1>1, <1>2, InviterType, JoinerType DEF Next

--------------------------------------------------------------------------------
(* Codes. *)

LEMMA AdmissionUsesUp ==
    ASSUME TypeOK, CodesGivenOnce, OfferAdmitsOne,
           NEW m \in Members, NEW j \in Joiners, Acceptable(m, j),
           offer' = [offer EXCEPT ![m] = NoOffer], issued' = issued,
           admitted' = admitted \cup {[code |-> code[j], joiner |-> j, by |-> m]}
    PROVE  CodesGivenOnce' /\ OfferAdmitsOne'
<1> DEFINE new == [code |-> code[j], joiner |-> j, by |-> m]
<1>1. OpenCode(m, code[j]) /\ code[j] \in Codes /\ code[j] =< issued
  BY DEF Acceptable, OpenCode, TypeOK, Offer, CodesGivenOnce
<1>2. \A n \in Members : \A c \in Codes : OpenCode(n, c)' => n # m /\ OpenCode(n, c)
  BY DEF OpenCode, TypeOK
<1>3. \A x \in admitted : x.code # code[j]
  BY <1>1 DEF CodesGivenOnce
<1>4. \A x \in admitted' : x = new \/ x \in admitted
  OBVIOUS
<1>5. \A x \in admitted' : x.code \in Codes /\ x.code =< issued'
  BY <1>1, <1>4 DEF TypeOK, CodesGivenOnce
<1>6. \A n \in Members : \A c \in Codes : c = code[j] => ~OpenCode(n, c)'
  BY <1>1, <1>2 DEF CodesGivenOnce
<1>7. \A x \in admitted' : \A n \in Members : ~OpenCode(n, x.code)'
  BY <1>2, <1>4, <1>5, <1>6 DEF CodesGivenOnce
<1>8. \A n \in Members : offer'[n] # NoOffer => offer'[n].code =< issued'
  BY DEF CodesGivenOnce, TypeOK
<1>9. CodesGivenOnce'
  BY <1>2, <1>5, <1>7, <1>8 DEF CodesGivenOnce
<1>10. OfferAdmitsOne'
  BY <1>3, <1>4 DEF OfferAdmitsOne
<1>11. QED
  BY <1>9, <1>10

(* A step that opens no code and admits nobody. *)
LEMMA CodesOnlyClose ==
    ASSUME TypeOK, CodesGivenOnce, OfferAdmitsOne, issued' >= issued, issued' \in Nat,
           admitted' = admitted,
           \A m \in Members : offer'[m] # NoOffer =>
               offer[m] # NoOffer /\ offer'[m].code = offer[m].code
    PROVE  CodesGivenOnce' /\ OfferAdmitsOne'
<1>1. \A m \in Members : \A c \in Codes : OpenCode(m, c)' => OpenCode(m, c)
  BY DEF OpenCode
<1>2. \A m \in Members : offer'[m] # NoOffer => offer'[m].code =< issued'
  BY DEF CodesGivenOnce, TypeOK, Offer, Codes
<1>3. \A x \in admitted' : x.code \in Codes /\ x.code =< issued'
  BY DEF CodesGivenOnce, TypeOK, Codes
<1>4. CodesGivenOnce'
  BY <1>1, <1>2, <1>3 DEF CodesGivenOnce
<1>5. QED
  BY <1>4 DEF OfferAdmitsOne

LEMMA StartingOpensOne ==
    ASSUME TypeOK, CodesGivenOnce, OfferAdmitsOne, NEW m \in Members, StartPairing(m)
    PROVE  CodesGivenOnce' /\ OfferAdmitsOne'
<1> USE PairingAssumption
<1>1. /\ issued \in Nat /\ issued' = issued + 1 /\ admitted' = admitted
      /\ offer' = [offer EXCEPT ![m] = [code |-> issued + 1, expired |-> FALSE]]
  BY DEF StartPairing, TypeOK
<1>2. \A n \in Members : \A c \in Codes :
         OpenCode(n, c)' => (n = m /\ c = issued + 1) \/ (n # m /\ OpenCode(n, c))
  BY <1>1 DEF OpenCode, TypeOK
<1>3. \A n \in Members : \A c \in Codes : OpenCode(n, c) => c =< issued
  BY DEF OpenCode, CodesGivenOnce
<1>4. \A x \in admitted : x.code \in Codes /\ x.code \in Nat /\ x.code =< issued
  BY DEF CodesGivenOnce, TypeOK, Codes
<1>5. \A n \in Members : offer'[n] # NoOffer => offer'[n].code =< issued'
  BY <1>1 DEF CodesGivenOnce, TypeOK, Offer, Codes
<1>6. \A n, o \in Members, c \in Codes : OpenCode(n, c)' /\ OpenCode(o, c)' => n = o
  BY <1>1, <1>2, <1>3 DEF CodesGivenOnce, Codes
<1>7. \A x \in admitted, n \in Members : ~OpenCode(n, x.code)'
  BY <1>1, <1>2, <1>4 DEF CodesGivenOnce
<1>8. CodesGivenOnce'
  BY <1>1, <1>4, <1>5, <1>6, <1>7 DEF CodesGivenOnce
<1>9. QED
  BY <1>1, <1>8 DEF OfferAdmitsOne

LEMMA CodesNext ==
    ASSUME TypeOK, TypeOK', CodesGivenOnce, OfferAdmitsOne, [Next]_vars
    PROVE  CodesGivenOnce' /\ OfferAdmitsOne'
<1> DEFINE Wanted == CodesGivenOnce' /\ OfferAdmitsOne'
<1> USE PairingAssumption
<1>1. issued \in Nat /\ issued' \in Nat
  BY DEF TypeOK
<1>2. CASE UNCHANGED <<offer, issued, admitted>>
  BY <1>1, <1>2, CodesOnlyClose
<1>3. CASE PairInvite
  BY <1>1, <1>3, CodesOnlyClose DEF PairInvite
<1>4. ASSUME NEW m \in Members, Inviter(m) PROVE Wanted
  <2>1. CASE StartPairing(m)
    BY <2>1, StartingOpensOne
  <2>2. CASE OfferExpires(m)
    BY <1>1, <2>2, CodesOnlyClose DEF OfferExpires, TypeOK, Offer
  <2>3. CASE Crash(m)
    BY <1>1, <2>3, CodesOnlyClose DEF Crash, Dies, TypeOK
  <2>4. CASE Boot(m)
    BY <1>2, <2>4 DEF Boot
  <2>5. ASSUME NEW j \in Joiners, AcceptRequest(m, j) PROVE Wanted
    BY <2>5, AdmissionUsesUp DEF AcceptRequest, OfferUsedUp
  <2>6. ASSUME NEW j \in Joiners, RefuseRequest(m, j) PROVE Wanted
    BY <1>1, <2>6, CodesOnlyClose DEF RefuseRequest, TypeOK
  <2>7. ASSUME NEW j \in Joiners, CrashInSave(m, j) PROVE Wanted
    BY <2>7, AdmissionUsesUp DEF CrashInSave, Dies
  <2>8. QED
    BY <1>4, <2>1, <2>2, <2>3, <2>4, <2>5, <2>6, <2>7 DEF Inviter
<1>5. ASSUME NEW j \in Joiners, Joiner(j) PROVE Wanted
  <2>1. UNCHANGED memberVars
    BY <1>5 DEF Joiner, Begin, Ask, AskFails, OnAccept, Lost, TimesOut, Joins, GivesUp, Ends
  <2>2. QED
    BY <1>2, <2>1 DEF memberVars
<1>6. QED
  BY <1>2, <1>3, <1>4, <1>5 DEF Next, vars, memberVars

--------------------------------------------------------------------------------
(* Answers. *)

(* No step takes an admission back, and none changes the code of a call that   *)
(* has begun.                                                                  *)
LEMMA AdmittedStays ==
    ASSUME NEW j \in Joiners, Admitted(j), admitted \subseteq admitted', code'[j] = code[j]
    PROVE  Admitted(j)'
BY DEF Admitted

LEMMA AnswersInviter ==
    ASSUME TypeOK, AnswersAdmitted, NEW m \in Members, Inviter(m)
    PROVE  AnswersAdmitted'
<1>1. stage' = stage /\ code' = code /\ future' = future /\ admitted \subseteq admitted'
  BY DEF Inviter, StartPairing, OfferExpires, Crash, CrashInSave, Dies, Boot, AcceptRequest,
         RefuseRequest, joinerVars
<1>2. \A j \in Joiners : Admitted(j) => Admitted(j)'
  BY <1>1, AdmittedStays
<1>3. \A j \in Joiners : requests'[j] \subseteq requests[j]
  BY DEF Inviter, StartPairing, OfferExpires, Crash, CrashInSave, Dies, Boot, AcceptRequest,
         RefuseRequest, Takes, TypeOK
<1>4. \A j \in Joiners : accepts'[j] # accepts[j] => Running(j) /\ Admitted(j)'
  <2>1. CASE accepts' = accepts
    BY <2>1
  <2>2. ASSUME NEW j \in Joiners, AcceptRequest(m, j)
        PROVE  \A i \in Joiners : accepts'[i] # accepts[i] => Running(i) /\ Admitted(i)'
    <3>1. \A i \in Joiners : accepts'[i] # accepts[i] => i = j /\ Running(j)
      BY <2>2 DEF AcceptRequest, TypeOK
    <3>2. [code |-> code[j], joiner |-> j, by |-> m] \in admitted'
      BY <2>2 DEF AcceptRequest
    <3>3. Admitted(j)'
      BY <1>1, <3>2 DEF Admitted
    <3>4. QED
      BY <3>1, <3>3
  <2>3. QED
    BY <2>1, <2>2 DEF Inviter, StartPairing, OfferExpires, Crash, CrashInSave, Dies, Boot,
                      RefuseRequest
<1>5. \A j \in Joiners : stage[j] = "idle" => ~Running(j)
  BY DEF Running
<1>6. QED
  BY <1>1, <1>2, <1>3, <1>4, <1>5 DEF AnswersAdmitted

LEMMA AnswersJoiner ==
    ASSUME TypeOK, AnswersAdmitted, NEW j \in Joiners, Joiner(j)
    PROVE  AnswersAdmitted'
<1>1. admitted' = admitted
  BY DEF Joiner, Begin, Ask, AskFails, OnAccept, Lost, TimesOut, Joins, GivesUp, Ends,
         memberVars
<1>2. \A i \in Joiners : i # j =>
        /\ stage'[i] = stage[i] /\ code'[i] = code[i] /\ future'[i] = future[i]
        /\ requests'[i] = requests[i] /\ accepts'[i] = accepts[i]
  BY DEF Joiner, Begin, Ask, AskFails, OnAccept, Lost, TimesOut, Joins, GivesUp, Ends,
         TypeOK, joinerVars
<1>3. \A i \in Joiners : i # j => (Admitted(i) => Admitted(i)')
  BY <1>1, <1>2, AdmittedStays
<1> DEFINE Answered == /\ stage'[j] # "idle" \/ (requests'[j] = {} /\ accepts'[j] = {}
                                                  /\ future'[j] # "set")
                       /\ accepts'[j] # {} \/ future'[j] = "set" \/ stage'[j] = "joined"
                            => Admitted(j)'
<1>4. Answered
  <2>1. ASSUME NEW c \in Codes, Begin(j, c) PROVE Answered
    BY <2>1 DEF Begin, TypeOK, AnswersAdmitted
  <2>2. ASSUME code' = code PROVE Admitted(j) => Admitted(j)'
    BY <1>1, <2>2, AdmittedStays
  <2>3. ASSUME NEW m \in Members, Ask(j, m) PROVE Answered
    BY <2>2, <2>3 DEF Ask, Awaited, TypeOK, AnswersAdmitted
  <2>4. ASSUME NEW m \in Members, AskFails(j, m) PROVE Answered
    BY <2>2, <2>4 DEF AskFails, TypeOK, AnswersAdmitted
  <2>5. ASSUME NEW m \in Members, OnAccept(j, m) PROVE Answered
    BY <2>2, <2>5 DEF OnAccept, TypeOK, AnswersAdmitted
  <2>6. ASSUME NEW m \in Members, Lost(j, m) PROVE Answered
    BY <2>2, <2>6 DEF Lost, joinerVars, TypeOK, AnswersAdmitted
  <2>7. CASE TimesOut(j)
    BY <2>2, <2>7 DEF TimesOut, TypeOK, AnswersAdmitted
  <2>8. CASE Joins(j)
    BY <2>2, <2>8 DEF Joins, Ends, TypeOK, AnswersAdmitted
  <2>9. CASE GivesUp(j)
    BY <2>2, <2>9 DEF GivesUp, Ends, TypeOK, AnswersAdmitted
  <2>10. QED
    BY <2>1, <2>3, <2>4, <2>5, <2>6, <2>7, <2>8, <2>9 DEF Joiner
<1>5. QED
  BY <1>2, <1>3, <1>4 DEF AnswersAdmitted

LEMMA AnswersNext ==
    ASSUME TypeOK, AnswersAdmitted, [Next]_vars
    PROVE  AnswersAdmitted'
<1>1. CASE UNCHANGED <<stage, code, future, requests, accepts, admitted>>
  BY <1>1 DEF AnswersAdmitted, Admitted
<1>2. CASE PairInvite
  BY <1>1, <1>2 DEF PairInvite, joinerVars
<1>3. QED
  BY <1>1, <1>2, AnswersInviter, AnswersJoiner DEF Next, vars, memberVars, joinerVars

--------------------------------------------------------------------------------
(* Files. *)

LEMMA FilesInviter ==
    ASSUME TypeOK, FilesComplete, NEW m \in Members, Inviter(m)
    PROVE  FilesComplete'
<1> DEFINE Same(n) == JoinersAt(n)' = JoinersAt(n)
<1>1. admitted' = admitted => \A n \in Members : Same(n)
  BY DEF JoinersAt, AdmittedAt
<1>2. CASE StartPairing(m) \/ OfferExpires(m)
  BY <1>1, <1>2 DEF StartPairing, OfferExpires, FilesComplete
<1>3. CASE Crash(m)
  BY <1>1, <1>3 DEF Crash, Dies, FilesComplete, TypeOK
<1>4. CASE Boot(m)
  BY <1>1, <1>4 DEF Boot, FilesComplete, TypeOK
<1>5. ASSUME NEW j \in Joiners, RefuseRequest(m, j) PROVE FilesComplete'
  BY <1>1, <1>5 DEF RefuseRequest, FilesComplete
<1>6. ASSUME NEW j \in Joiners,
             admitted' = admitted \cup {[code |-> code[j], joiner |-> j, by |-> m]}
      PROVE  /\ JoinersAt(m)' = JoinersAt(m) \cup {j}
             /\ \A n \in Members : n # m => Same(n)
  <2> DEFINE new == [code |-> code[j], joiner |-> j, by |-> m]
  <2>1. new.joiner = j /\ new.by = m
    OBVIOUS
  <2> HIDE DEF new
  <2>2. AdmittedAt(m)' = AdmittedAt(m) \cup {new}
    BY <1>6, <2>1 DEF AdmittedAt, new
  <2>3. \A n \in Members : n # m => AdmittedAt(n)' = AdmittedAt(n)
    BY <1>6, <2>1 DEF AdmittedAt, new
  <2>4. QED
    BY <2>1, <2>2, <2>3 DEF JoinersAt
<1>7. ASSUME NEW j \in Joiners, AcceptRequest(m, j) PROVE FilesComplete'
  <2>1. m \in up /\ up' = up /\ torn' = torn
    BY <1>7 DEF AcceptRequest, Takes
  <2>2. \A n \in Members : devices'[n] = IF n = m THEN devices[m] \cup {j} ELSE devices[n]
    BY <1>7 DEF AcceptRequest, TypeOK
  <2>3. \A n \in Members : manifest'[n] = IF n = m THEN devices'[m] ELSE manifest[n]
    BY <1>7 DEF AcceptRequest, Saved, TypeOK
  <2>4. /\ JoinersAt(m)' = JoinersAt(m) \cup {j}
        /\ \A n \in Members : n # m => Same(n)
    BY <1>6, <1>7 DEF AcceptRequest
  <2>5. devices[m] = JoinersAt(m)
    BY <2>1 DEF FilesComplete
  <2>6. QED
    BY <2>1, <2>2, <2>3, <2>4, <2>5 DEF FilesComplete, TypeOK
<1>8. ASSUME NEW j \in Joiners, CrashInSave(m, j) PROVE FilesComplete'
  <2>1. /\ up' = up \ {m} /\ torn' = torn \cup {m} /\ manifest' = manifest
        /\ \A n \in Members : n # m => devices'[n] = devices[n]
    BY <1>8 DEF CrashInSave, Dies, TypeOK
  <2>2. \A n \in Members : n # m => Same(n)
    BY <1>6, <1>8 DEF CrashInSave
  <2>3. QED
    BY <2>1, <2>2 DEF FilesComplete, TypeOK
<1>9. QED
  BY <1>2, <1>3, <1>4, <1>5, <1>7, <1>8 DEF Inviter

LEMMA FilesNext ==
    ASSUME TypeOK, FilesComplete, [Next]_vars
    PROVE  FilesComplete'
<1>1. CASE UNCHANGED <<up, devices, manifest, torn, admitted>>
  BY <1>1 DEF FilesComplete, JoinersAt, AdmittedAt
<1>2. CASE PairInvite
  BY <1>1, <1>2 DEF PairInvite
<1>3. ASSUME NEW j \in Joiners, Joiner(j) PROVE FilesComplete'
  BY <1>1, <1>3 DEF Joiner, Begin, Ask, AskFails, OnAccept, Lost, TimesOut, Joins, GivesUp,
                    Ends, memberVars
<1>4. QED
  BY <1>1, <1>2, <1>3, FilesInviter DEF Next, vars, memberVars

--------------------------------------------------------------------------------
(* The theorems. *)

LEMMA PairInit == Init => PairInv
<1> SUFFICES ASSUME Init PROVE PairInv
  OBVIOUS
<1>1. CodesGivenOnce /\ OfferAdmitsOne
  BY DEF Init, CodesGivenOnce, OpenCode, OfferAdmitsOne
<1>2. AnswersAdmitted
  BY DEF Init, AnswersAdmitted
<1>3. \A m \in Members : JoinersAt(m) = {}
  BY DEF Init, JoinersAt, AdmittedAt
<1>4. FilesComplete
  BY <1>3 DEF Init, FilesComplete
<1>5. QED
  BY <1>1, <1>2, <1>4, StartType DEF PairInv

(* PairInvariant: codes, answers and files stay consistent, whatever crashes,  *)
(* comes late or is lost (identity/household.py, pair_with_invitation).        *)
THEOREM PairInvariant == Spec => []PairInv
<1>1. PairInv /\ [Next]_vars => PairInv'
  BY TypeNext, CodesNext, AnswersNext, FilesNext DEF PairInv
<1>2. QED
  BY <1>1, PairInit, PTL DEF Spec

(* PairingTypeCorrect: offers, files, calls and messages keep their shape.     *)
THEOREM PairingTypeCorrect == Spec => []TypeOK
BY PairInvariant, PTL DEF PairInv

(* OffersAdmitOne: the code of start_pairing is a one-time code, for any       *)
(* number of devices that present it and any number of crashes.                *)
THEOREM OffersAdmitOne == Spec => []OfferAdmitsOne
BY PairInvariant, PTL DEF PairInv

(* MembershipsAlwaysAgree: complete_joining follows an admission with the      *)
(* code that was given, and a household.json that can be read is complete.     *)
THEOREM MembershipsAlwaysAgree == Spec => []MembershipsAgree
<1>1. PairInv => MembershipsAgree
  BY DEF PairInv, MembershipsAgree, AnswersAdmitted, Admitted, FilesComplete, JoinersAt
<1>2. QED
  BY <1>1, PairInvariant, PTL
================================================================================

----------------------- MODULE TransactionAssemblyProofs -----------------------
(***************************************************************************)
(* Proofs about how a request becomes signed bytes, for any contract kinds *)
(* and bodies, any wallet, any request fields and whatever a node answers. *)
(***************************************************************************)
EXTENDS TransactionAssembly, TLAPS, SequenceTheorems

Early == {"idle", "asked", "answered"}
Made == {"extracted", "built", "signing", "sent"}

\* What is there by the time each step has been made.
StageInv ==
    /\ pc # "idle" => req \in Requests
    /\ pc = "answered" => answer \in Answers
    /\ pc \in Early => raw = Nothing
    /\ pc \in Made => raw \in RawTransactions
    /\ pc \in Early \cup {"extracted", "built"} => mode = "none" /\ sigs = <<>>

\* The raw transaction is consistent, and is the one that was asked for.
RawInv ==
    /\ raw # Nothing => raw \in RawTransactions /\ raw.id = Digest(raw.data)
    /\ pc \in Made => req.kind \in Plain \/ SameContract(raw.data.contracts, req)
    /\ pc \in {"built", "signing", "sent"} =>
          \A f \in Fields : req.fields[f] = "caller" => raw.data.fields[f] = "caller"

\* Every signature is over the id of the raw transaction.
SigInv ==
    sigs # <<>> => raw # Nothing /\ \A i \in 1..Len(sigs) : sigs[i].hash = raw.id

\* What a strict wallet still has to sign with is the owner's key.
TodoInv == mode = "strict" => \A i \in 1..Len(todo) : todo[i] = req.owner

WireInv == pc = "sent" => wire = [data |-> raw.data, signatures |-> sigs]

IInv ==
    /\ TypeOK /\ StageInv /\ RawInv /\ SigInv /\ TodoInv /\ WireInv
    /\ ExpirationIsSigned /\ SignersAreDistinct /\ StrictSignsAsOwner

-------------------------------------------------------------------------------
(* Facts about the operators.                                              *)

\* A record is not the placeholder.
LEMMA RawIsSomething ==
    ASSUME NEW x \in RawTransactions
    PROVE  x # Nothing
<1>1. DOMAIN x = {"data", "id", "expiration", "attached"}
    BY DEF RawTransactions
<1>2. DOMAIN Nothing = {"nothing"}
    BY DEF Nothing
<1> QED BY <1>1, <1>2

\* The raw transaction made of an answer is consistent.
LEMMA FromEncodedFacts ==
    ASSUME NEW a \in Answers
    PROVE  /\ FromEncoded(a) \in RawTransactions
           /\ FromEncoded(a).id = Digest(FromEncoded(a).data)
           /\ FromEncoded(a).expiration = FromEncoded(a).data.fields[Expiration]
           /\ FromEncoded(a).data.contracts = a.contracts
<1>1. RawDataOf(a) \in RawData
    BY DEF RawDataOf, RawData, Answers
<1>2. RawDataOf(a).fields[Expiration] \in {"node", "caller"}
    BY <1>1, FieldsAssumption DEF RawData
<1>3. RawDataOf(a).contracts = a.contracts
    BY DEF RawDataOf
<1> QED BY <1>1, <1>2, <1>3 DEF FromEncoded, RawTransaction, RawTransactions, Digest

\* The overrides write what the caller set and touch nothing else.
LEMMA OverrideFacts ==
    ASSUME NEW d \in RawData, NEW r \in Requests
    PROVE  /\ Override(d, r) \in RawData
           /\ Override(d, r).contracts = d.contracts
           /\ \A f \in Fields : r.fields[f] = "caller" => Override(d, r).fields[f] = "caller"
<1> DEFINE over == [f \in Fields |-> IF r.fields[f] = "unset" THEN d.fields[f] ELSE r.fields[f]]
<1>1. \A f \in Fields : r.fields[f] \in {"unset", "caller"} /\ d.fields[f] \in {"node", "caller"}
    BY DEF Requests, RawData
<1>2. over \in [Fields -> {"node", "caller"}]
    BY <1>1
<1>3. Override(d, r) = [contracts |-> d.contracts, fields |-> over]
    BY DEF Override, RawData
<1>4. \A f \in Fields : r.fields[f] = "caller" => over[f] = "caller"
    BY <1>1
<1>5. d.contracts \in ContractLists
    BY DEF RawData
<1> HIDE DEF over
<1> QED BY <1>2, <1>3, <1>4, <1>5 DEF RawData

LEMMA ApplyFacts ==
    ASSUME NEW x \in RawTransactions, NEW r \in Requests, x.id = Digest(x.data),
           x.expiration = x.data.fields[Expiration]
    PROVE  /\ Apply(x, r) \in RawTransactions
           /\ Apply(x, r).id = Digest(Apply(x, r).data)
           /\ Apply(x, r).expiration = Apply(x, r).data.fields[Expiration]
           /\ Apply(x, r).data.contracts = x.data.contracts
           /\ \A f \in Fields : r.fields[f] = "caller" => Apply(x, r).data.fields[f] = "caller"
<1>1. CASE \A f \in Fields : r.fields[f] = "unset"
    BY <1>1 DEF Apply
<1>2. CASE ~(\A f \in Fields : r.fields[f] = "unset")
  <2>1. x.data \in RawData /\ x.attached = <<>>
    BY DEF RawTransactions
  <2>2. PICK d : d = Override(x.data, r)
    OBVIOUS
  <2>3. /\ d \in RawData /\ d.contracts = x.data.contracts
        /\ \A f \in Fields : r.fields[f] = "caller" => d.fields[f] = "caller"
    BY <2>1, <2>2, OverrideFacts
  <2>4. d.fields[Expiration] \in {"node", "caller"}
    BY <2>3, FieldsAssumption DEF RawData
  <2>5. Apply(x, r) = [data |-> d, id |-> Digest(d), expiration |-> d.fields[Expiration],
                       attached |-> <<>>]
    BY <1>2, <2>1, <2>2 DEF Apply, RawTransaction
  <2> QED BY <2>3, <2>4, <2>5 DEF RawTransactions, Digest
<1> QED BY <1>1, <1>2

\* A key that signs is the owner's in strict mode, and an address in any.
LEMMA SigningKeyFacts ==
    ASSUME NEW owner \in Addresses
    PROVE  /\ SigningKey(owner, TRUE) = owner
           /\ SigningKey(owner, FALSE) \in Addresses
BY WalletAssumption DEF SigningKey

-------------------------------------------------------------------------------
(* The invariant holds at first, and every step keeps it.                  *)

LEMMA InitIInv == Init => IInv
<1> SUFFICES ASSUME Init PROVE IInv
    OBVIOUS
<1>1. TypeOK
    BY DEF Init, TypeOK
<1>2. StageInv /\ RawInv /\ SigInv /\ TodoInv /\ WireInv
    BY DEF Init, StageInv, RawInv, SigInv, TodoInv, WireInv, Early, Made
<1>3. ExpirationIsSigned /\ SignersAreDistinct /\ StrictSignsAsOwner
    BY DEF Init, ExpirationIsSigned, SignersAreDistinct, StrictSignsAsOwner
<1> QED BY <1>1, <1>2, <1>3 DEF IInv

\* Failing throws everything away but keeps what is known of it.
LEMMA FailStep == ASSUME IInv, Fail, pc # "idle" PROVE IInv'
<1>1. TypeOK'
    BY DEF IInv, TypeOK, Fail
<1>2. (StageInv /\ RawInv /\ SigInv /\ TodoInv /\ WireInv)'
    BY DEF IInv, Fail, StageInv, RawInv, SigInv, TodoInv, WireInv, Early, Made
<1>3. (ExpirationIsSigned /\ SignersAreDistinct /\ StrictSignsAsOwner)'
    BY DEF IInv, Fail, ExpirationIsSigned, SignersAreDistinct, StrictSignsAsOwner
<1> QED BY <1>1, <1>2, <1>3 DEF IInv

LEMMA AskStep == ASSUME IInv, NEW r \in Requests, Ask(r) PROVE IInv'
<1>1. TypeOK'
    BY DEF IInv, TypeOK, Ask
<1>2. mode = "none" /\ sigs = <<>> /\ raw = Nothing
    BY DEF IInv, StageInv, Ask, Early
<1>3. (StageInv /\ RawInv /\ SigInv /\ TodoInv /\ WireInv)'
    BY <1>2 DEF Ask, StageInv, RawInv, SigInv, TodoInv, WireInv, Early, Made
<1>4. (ExpirationIsSigned /\ SignersAreDistinct /\ StrictSignsAsOwner)'
    BY <1>2 DEF IInv, Ask, ExpirationIsSigned, SignersAreDistinct, StrictSignsAsOwner
<1> QED BY <1>1, <1>3, <1>4 DEF IInv

LEMMA NodeAnswersStep == ASSUME IInv, NEW a \in Answers, NodeAnswers(a) PROVE IInv'
<1>1. TypeOK'
    BY DEF IInv, TypeOK, NodeAnswers
<1>2. (StageInv /\ RawInv /\ SigInv /\ TodoInv /\ WireInv)'
    BY DEF IInv, NodeAnswers, StageInv, RawInv, SigInv, TodoInv, WireInv, Early, Made
<1>3. (ExpirationIsSigned /\ SignersAreDistinct /\ StrictSignsAsOwner)'
    BY DEF IInv, NodeAnswers, ExpirationIsSigned, SignersAreDistinct, StrictSignsAsOwner
<1> QED BY <1>1, <1>2, <1>3 DEF IInv

LEMMA ExtractStep == ASSUME IInv, Extract PROVE IInv'
<1>1. /\ pc = "answered" /\ pc' = "extracted" /\ raw' = FromEncoded(answer)
      /\ req.kind \in Plain \/ SameContract(answer.contracts, req)
      /\ UNCHANGED <<req, answer, mode, todo, sigs, wire>>
    BY DEF Extract, AsAsked
<1>2. answer \in Answers /\ req \in Requests /\ mode = "none" /\ sigs = <<>>
    BY <1>1 DEF IInv, StageInv, Early
<1>3. /\ raw' \in RawTransactions /\ raw'.id = Digest(raw'.data)
      /\ raw'.expiration = raw'.data.fields[Expiration]
      /\ raw'.data.contracts = answer.contracts
    BY <1>1, <1>2, FromEncodedFacts
<1>4. TypeOK'
    BY <1>1, <1>3 DEF IInv, TypeOK
<1>5. (StageInv /\ RawInv /\ SigInv /\ TodoInv /\ WireInv)'
    BY <1>1, <1>2, <1>3 DEF StageInv, RawInv, SigInv, TodoInv, WireInv, Early, Made, Digest
<1>6. (ExpirationIsSigned /\ SignersAreDistinct /\ StrictSignsAsOwner)'
    BY <1>1, <1>2, <1>3 DEF IInv, ExpirationIsSigned, SignersAreDistinct, StrictSignsAsOwner
<1> QED BY <1>4, <1>5, <1>6 DEF IInv

LEMMA ApplyStep == ASSUME IInv, ApplyRequestFields PROVE IInv'
<1>1. /\ pc = "extracted" /\ pc' = "built" /\ raw' = Apply(raw, req)
      /\ UNCHANGED <<req, answer, mode, todo, sigs, wire>>
    BY DEF ApplyRequestFields
<1>2. /\ raw \in RawTransactions /\ req \in Requests /\ mode = "none" /\ sigs = <<>>
      /\ raw # Nothing
    BY <1>1, RawIsSomething DEF IInv, StageInv, Made
<1>3. /\ raw.id = Digest(raw.data) /\ raw.expiration = raw.data.fields[Expiration]
      /\ req.kind \in Plain \/ SameContract(raw.data.contracts, req)
    BY <1>1, <1>2 DEF IInv, RawInv, ExpirationIsSigned, Made
<1>4. /\ raw' \in RawTransactions /\ raw'.id = Digest(raw'.data)
      /\ raw'.expiration = raw'.data.fields[Expiration]
      /\ raw'.data.contracts = raw.data.contracts
      /\ \A f \in Fields : req.fields[f] = "caller" => raw'.data.fields[f] = "caller"
    BY <1>1, <1>2, <1>3, ApplyFacts
<1>5. TypeOK'
    BY <1>1, <1>4 DEF IInv, TypeOK
<1>6. (StageInv /\ RawInv /\ SigInv /\ TodoInv /\ WireInv)'
    BY <1>1, <1>2, <1>3, <1>4
    DEF StageInv, RawInv, SigInv, TodoInv, WireInv, Early, Made, Digest
<1>7. (ExpirationIsSigned /\ SignersAreDistinct /\ StrictSignsAsOwner)'
    BY <1>1, <1>2, <1>4 DEF IInv, ExpirationIsSigned, SignersAreDistinct, StrictSignsAsOwner
<1> QED BY <1>5, <1>6, <1>7 DEF IInv

LEMMA StartStep ==
    ASSUME IInv, NEW how \in {"strict", "lenient", "many"}, NEW keys \in Seq(Addresses),
           Start(how, keys),
           how = "strict" => \A i \in 1..Len(keys) : keys[i] = req.owner
    PROVE  IInv'
<1>1. /\ pc = "built" /\ pc' = "signing" /\ mode' = how /\ todo' = keys
      /\ UNCHANGED <<req, answer, raw, sigs, wire>>
    BY DEF Start
<1>2. sigs = <<>>
    BY <1>1 DEF IInv, StageInv
<1>3. TypeOK'
    BY <1>1 DEF IInv, TypeOK
<1>4. (StageInv /\ RawInv /\ SigInv /\ TodoInv /\ WireInv)'
    BY <1>1, <1>2 DEF IInv, StageInv, RawInv, SigInv, TodoInv, WireInv, Early, Made
<1>5. (ExpirationIsSigned /\ SignersAreDistinct /\ StrictSignsAsOwner)'
    BY <1>1, <1>2 DEF IInv, ExpirationIsSigned, SignersAreDistinct, StrictSignsAsOwner
<1> QED BY <1>3, <1>4, <1>5 DEF IInv

LEMMA StartAnyStep ==
    ASSUME IInv, StartStrict \/ StartLenient \/ \E keys \in KeyLists : StartMany(keys)
    PROVE  IInv'
<1>1. req \in Requests /\ req.owner \in Addresses
    BY DEF IInv, StageInv, Requests, StartStrict, StartLenient, StartMany, Start
<1>2. CASE StartStrict
  <2>1. SigningKey(req.owner, TRUE) = req.owner
    BY <1>1, SigningKeyFacts
  <2>2. /\ <<req.owner>> \in Seq(Addresses)
        /\ \A i \in 1..Len(<<req.owner>>) : <<req.owner>>[i] = req.owner
    BY <1>1
  <2> QED BY <1>2, <2>1, <2>2, StartStep DEF StartStrict
<1>3. CASE StartLenient
  <2>1. PICK key \in Addresses : key = SigningKey(req.owner, FALSE)
    BY <1>1, SigningKeyFacts
  <2>2. <<key>> \in Seq(Addresses)
    OBVIOUS
  <2> QED BY <1>3, <2>1, <2>2, StartStep DEF StartLenient
<1>4. CASE \E keys \in KeyLists : StartMany(keys)
    BY <1>4, StartStep, KeysAssumption DEF StartMany
<1> QED BY <1>2, <1>3, <1>4

\* A key leaves the list: what is left was in it.
LEMMA TodoShrinks ==
    ASSUME IInv, todo # <<>>, todo' = Tail(todo), UNCHANGED <<mode, req>>
    PROVE  /\ todo' \in Seq(Addresses) /\ Head(todo) \in Addresses
           /\ TodoInv'
           /\ mode = "strict" => Head(todo) = req.owner
<1>1. todo \in Seq(Addresses)
    BY DEF IInv, TypeOK
<1>2. /\ Tail(todo) \in Seq(Addresses) /\ Len(Tail(todo)) = Len(todo) - 1
      /\ \A i \in 1..Len(Tail(todo)) : Tail(todo)[i] = todo[i + 1]
      /\ Head(todo) = todo[1] /\ Len(todo) \in Nat /\ Len(todo) >= 1
    BY <1>1, HeadTailProperties, EmptySeq
<1>3. Head(todo) \in Addresses
    BY <1>1, <1>2
<1>4. mode = "strict" => \A i \in 1..Len(todo) : todo[i] = req.owner
    BY DEF IInv, TodoInv
<1>5. TodoInv'
    BY <1>2, <1>4 DEF TodoInv
<1> QED BY <1>2, <1>3, <1>4, <1>5

LEMMA SkipStep == ASSUME IInv, SkipKey PROVE IInv'
<1>1. /\ todo # <<>> /\ todo' = Tail(todo)
      /\ UNCHANGED <<pc, req, answer, raw, mode, sigs, wire>>
    BY DEF SkipKey
<1>2. TypeOK' /\ TodoInv'
    BY <1>1, TodoShrinks DEF IInv, TypeOK
<1>3. (StageInv /\ RawInv /\ SigInv /\ WireInv)'
    BY <1>1 DEF IInv, StageInv, RawInv, SigInv, WireInv
<1>4. (ExpirationIsSigned /\ SignersAreDistinct /\ StrictSignsAsOwner)'
    BY <1>1 DEF IInv, ExpirationIsSigned, SignersAreDistinct, StrictSignsAsOwner
<1> QED BY <1>2, <1>3, <1>4 DEF IInv

LEMMA SignStep == ASSUME IInv, SignNext PROVE IInv'
<1>1. PICK key : key = Head(todo)
    OBVIOUS
<1>2. PICK sig : sig = [key |-> key, hash |-> raw.id]
    OBVIOUS
<1>3. /\ pc = "signing" /\ todo # <<>> /\ todo' = Tail(todo)
      /\ ~HasSigned(key) /\ key \in Held
      /\ sigs' = Append(sigs, sig)
      /\ UNCHANGED <<pc, req, answer, raw, mode, wire>>
    BY <1>1, <1>2 DEF SignNext
<1>4. /\ todo' \in Seq(Addresses) /\ TodoInv'
      /\ mode = "strict" => key = req.owner
    BY <1>1, <1>3, TodoShrinks
<1>5. raw \in RawTransactions /\ raw # Nothing /\ raw.id \in RawData
    BY <1>3, RawIsSomething DEF IInv, StageInv, Made, RawTransactions
<1>6. /\ sig.key = key /\ sig.hash = raw.id /\ sig \in [key : Held, hash : RawData]
    BY <1>2, <1>3, <1>5
<1>7. sigs \in Seq([key : Held, hash : RawData])
    BY DEF IInv, TypeOK
<1>8. /\ sigs' \in Seq([key : Held, hash : RawData])
      /\ Len(sigs') = Len(sigs) + 1 /\ Len(sigs) \in Nat
      /\ sigs'[Len(sigs) + 1] = sig
      /\ \A i \in 1..Len(sigs) : sigs'[i] = sigs[i]
    BY <1>3, <1>6, <1>7, AppendProperties
<1>9. \A i \in 1..Len(sigs') : i \in 1..Len(sigs) \/ i = Len(sigs) + 1
    BY <1>8
<1>10. TypeOK'
    BY <1>3, <1>4, <1>8 DEF IInv, TypeOK
<1>11. (StageInv /\ RawInv /\ WireInv)'
    BY <1>3 DEF IInv, StageInv, RawInv, WireInv, Early, Made
<1>12. SigInv'
  <2>1. \A i \in 1..Len(sigs) : sigs[i].hash = raw.id
    BY <1>8, EmptySeq DEF IInv, SigInv
  <2> QED BY <1>3, <1>5, <1>6, <1>8, <1>9, <2>1 DEF SigInv
<1>13. ExpirationIsSigned'
    BY <1>3 DEF IInv, ExpirationIsSigned
<1>14. SignersAreDistinct'
  <2>1. \A i \in 1..Len(sigs) : sigs[i].key # key
    BY <1>3 DEF HasSigned
  <2>2. \A i, j \in 1..Len(sigs) : sigs[i].key = sigs[j].key => i = j
    BY DEF IInv, SignersAreDistinct
  <2> QED BY <1>6, <1>8, <1>9, <2>1, <2>2 DEF SignersAreDistinct
<1>15. StrictSignsAsOwner'
  <2>1. mode = "strict" => \A i \in 1..Len(sigs) : sigs[i].key = req.owner
    BY DEF IInv, StrictSignsAsOwner
  <2> QED BY <1>3, <1>4, <1>6, <1>8, <1>9, <2>1 DEF StrictSignsAsOwner
<1> QED BY <1>4, <1>10, <1>11, <1>12, <1>13, <1>14, <1>15 DEF IInv

LEMMA BroadcastStep == ASSUME IInv, Broadcast PROVE IInv'
<1>1. /\ pc = "signing" /\ pc' = "sent"
      /\ wire' = [data |-> raw.data, signatures |-> raw.attached \o sigs]
      /\ UNCHANGED <<req, answer, raw, mode, todo, sigs>>
    BY DEF Broadcast
<1>2. raw.attached = <<>>
    BY <1>1 DEF IInv, StageInv, Made, RawTransactions
<1>3. raw.attached \o sigs = sigs
  <2>1. sigs \in Seq([key : Held, hash : RawData])
    BY DEF IInv, TypeOK
  <2> QED BY <1>2, <2>1, ConcatEmptySeq
<1>4. TypeOK'
    BY <1>1 DEF IInv, TypeOK
<1>5. (StageInv /\ RawInv /\ SigInv /\ TodoInv /\ WireInv)'
    BY <1>1, <1>3 DEF IInv, StageInv, RawInv, SigInv, TodoInv, WireInv, Early, Made
<1>6. (ExpirationIsSigned /\ SignersAreDistinct /\ StrictSignsAsOwner)'
    BY <1>1 DEF IInv, ExpirationIsSigned, SignersAreDistinct, StrictSignsAsOwner
<1> QED BY <1>4, <1>5, <1>6 DEF IInv

LEMMA IInvStep == IInv /\ [Next]_vars => IInv'
<1> SUFFICES ASSUME IInv, [Next]_vars PROVE IInv'
    OBVIOUS
<1>1. CASE UNCHANGED vars
    BY <1>1 DEF vars, IInv, TypeOK, StageInv, RawInv, SigInv, TodoInv, WireInv,
                ExpirationIsSigned, SignersAreDistinct, StrictSignsAsOwner
<1>2. CASE \E r \in Requests : Ask(r)
    BY <1>2, AskStep
<1>3. CASE \E a \in Answers : NodeAnswers(a)
    BY <1>3, NodeAnswersStep
<1>4. CASE Extract
    BY <1>4, ExtractStep
<1>5. CASE Reject \/ Inapplicable \/ SignFails
    BY <1>5, FailStep DEF Reject, Inapplicable, SignFails
<1>6. CASE ApplyRequestFields
    BY <1>6, ApplyStep
<1>7. CASE StartStrict \/ StartLenient \/ \E keys \in KeyLists : StartMany(keys)
    BY <1>7, StartAnyStep
<1>8. CASE SkipKey
    BY <1>8, SkipStep
<1>9. CASE SignNext
    BY <1>9, SignStep
<1>10. CASE Broadcast
    BY <1>10, BroadcastStep
<1> QED
    BY <1>1, <1>2, <1>3, <1>4, <1>5, <1>6, <1>7, <1>8, <1>9, <1>10 DEF Next, Done

\* The inductive invariant, of which the results below are parts.
LEMMA IInvHolds == Spec => []IInv
BY InitIInv, IInvStep, PTL DEF Spec

-------------------------------------------------------------------------------
(* The results.                                                            *)

(***************************************************************************)
(* The types hold; a RawTransaction never carries foreign signatures.      *)
(***************************************************************************)
THEOREM TypeCorrect == Spec => []TypeOK
<1>1. IInv => TypeOK
    BY DEF IInv
<1> QED BY <1>1, IInvHolds, PTL

(***************************************************************************)
(* Every signature that goes out is over the digest of the bytes it goes   *)
(* out with, by a key of the wallet (apply_request_fields, to_proto).      *)
(***************************************************************************)
THEOREM SignaturesCoverWireHolds == Spec => []SignaturesCoverWire
<1>1. IInv => SignaturesCoverWire
  <2> SUFFICES ASSUME IInv, pc = "sent", NEW i \in 1..Len(wire.signatures)
               PROVE  /\ wire.signatures[i].hash = Digest(wire.data)
                      /\ wire.signatures[i].key \in Held
    BY DEF SignaturesCoverWire
  <2>1. wire.signatures = sigs /\ wire.data = raw.data
    BY DEF IInv, WireInv
  <2>2. sigs \in Seq([key : Held, hash : RawData])
    BY DEF IInv, TypeOK
  <2>3. i \in 1..Len(sigs) /\ Len(sigs) \in Nat
    BY <2>1, <2>2
  <2>4. sigs[i] \in [key : Held, hash : RawData]
    BY <2>2, <2>3, ElementOfSeq
  <2>5. sigs # <<>>
    BY <2>3
  <2>6. sigs[i].hash = raw.id /\ raw.id = Digest(raw.data)
    BY <2>3, <2>5 DEF IInv, SigInv, RawInv
  <2> QED BY <2>1, <2>4, <2>6
<1> QED BY <1>1, IInvHolds, PTL

(***************************************************************************)
(* Whatever the node answers, what goes out is the one contract that was   *)
(* asked for wherever the answer is compared (raw_from_extention_with),    *)
(* with every field the caller set (apply_request_fields).                 *)
(***************************************************************************)
THEOREM WireIsRequestedHolds == Spec => []WireIsRequested
<1>1. IInv => WireIsRequested
  <2> SUFFICES ASSUME IInv, pc = "sent"
               PROVE  /\ req.kind \notin Plain => OnlyTheRequest(wire.data.contracts)
                      /\ \A f \in Fields : req.fields[f] = "caller" =>
                            wire.data.fields[f] = "caller"
    BY DEF WireIsRequested
  <2>1. wire.data = raw.data
    BY DEF IInv, WireInv
  <2>2. /\ req.kind \in Plain \/ SameContract(raw.data.contracts, req)
        /\ \A f \in Fields : req.fields[f] = "caller" => raw.data.fields[f] = "caller"
    BY DEF IInv, RawInv, Made
  <2> QED BY <2>1, <2>2 DEF SameContract, OnlyTheRequest
<1> QED BY <1>1, IInvHolds, PTL

(***************************************************************************)
(* The expiration a caller reads is the one in the bytes.                  *)
(***************************************************************************)
THEOREM ExpirationIsSignedHolds == Spec => []ExpirationIsSigned
<1>1. IInv => ExpirationIsSigned
    BY DEF IInv
<1> QED BY <1>1, IInvHolds, PTL

(***************************************************************************)
(* No key signs twice, whatever list sign_hash_with_many is given.         *)
(***************************************************************************)
THEOREM SignersAreDistinctHolds == Spec => []SignersAreDistinct
<1>1. IInv => SignersAreDistinct
    BY DEF IInv
<1> QED BY <1>1, IInvHolds, PTL

(***************************************************************************)
(* A strict wallet signs with the owner's key only (WalletFiller::strict). *)
(***************************************************************************)
THEOREM StrictSignsAsOwnerHolds == Spec => []StrictSignsAsOwner
<1>1. IInv => StrictSignsAsOwner
    BY DEF IInv
<1> QED BY <1>1, IInvHolds, PTL
================================================================================
